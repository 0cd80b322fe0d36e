--------------------------- MODULE PairingProofs ----------------------------
(***************************************************************************)
(* Theorems about PairingSessions for any number of threads and codes and  *)
(* any lifetimes.                                                          *)
(***************************************************************************)
EXTENDS PairingSessions, FiniteSetTheorems, TLAPS

-----------------------------------------------------------------------------
(* The inductive invariant *)

\* A pairing makes a device of its own, and its only session.
RowsOK == \A s \in Id : /\ sessions[s] = Absent <=> devices[s] = "absent"
                        /\ sessions[s] # Absent => sessions[s].device = s

\* What a thread has read is still so where it matters: the rows are there,
\* the absolute end of a session does not move, a device that is about to be
\* revoked has no other session, and the lock keeps the users as they are.
ReadOK(t) ==
  LET r == request[t]
  IN  /\ r.op = "claimed" => /\ writer = t
                             /\ codes[r.code] # Absent
                             /\ users = IF r.user THEN 1 ELSE 0
      /\ r.op \in {"authenticate", "authenticated"} => sessions[r.session] # Absent
      /\ r.op = "authenticate" => sessions[r.session].absolute_expires_at = r.absolute
      /\ r.op = "revoke" => /\ \A s \in r.sessions : sessions[s] # Absent
                            /\ \A d \in r.devices : /\ devices[d] # "absent"
                                                    /\ d \in r.sessions \/ sessions[d].revoked

IInv == /\ TypeOK /\ RowsOK
        /\ \A t \in Thread : ReadOK(t)
        /\ users \in {0, 1}
        /\ RevokedDeviceHasNoSession

-----------------------------------------------------------------------------
(* Requests *)

\* The op of a request tells which kind of record it is.
LEMMA RequestKinds ==
  ASSUME TypeOK, NEW t \in Thread
  PROVE  /\ request[t].op = "pair" => request[t] \in PairRequest
         /\ request[t].op = "claimed" => request[t] \in ClaimedRequest
         /\ request[t].op = "authenticate" => request[t] \in AuthenticateRequest
         /\ request[t].op = "authenticated" => request[t] \in AuthenticatedRequest
         /\ request[t].op = "revoke" => request[t] \in RevokeRequest
BY DEF TypeOK, Request, IdleThread, PairRequest, ClaimedRequest, AuthenticateRequest,
       AuthenticatedRequest, RevokeRequest

\* A row that is not absent is a row.
LEMMA RowKinds ==
  ASSUME TypeOK
  PROVE  /\ \A c \in Code : codes[c] # Absent => codes[c] \in PairingCode
         /\ \A s \in Id : sessions[s] # Absent => sessions[s] \in RuntimeSession
BY DEF TypeOK

\* A step that only moves a thread on, to a request that is as it should be.
LEMMA OnlyRequest ==
  ASSUME IInv, NEW t \in Thread, NEW r \in {IdleThread} \union Request,
         request' = [request EXCEPT ![t] = r], ReadOK(t)',
         UNCHANGED <<clock, codes, sessions, devices, users, writer>>
  PROVE  IInv'
<1>1. TypeOK'
  BY DEF IInv, TypeOK
<1>2. RowsOK' /\ users' \in {0, 1} /\ RevokedDeviceHasNoSession'
  BY DEF IInv, RowsOK, RevokedDeviceHasNoSession
<1>3. ASSUME NEW u \in Thread, u # t
      PROVE  ReadOK(u)'
  <2>1. request'[u] = request[u]
    BY <1>3 DEF IInv, TypeOK
  <2> QED  BY <2>1 DEF IInv, ReadOK
<1> QED  BY <1>1, <1>2, <1>3 DEF IInv

\* A thread that becomes idle has read nothing.
LEMMA OnlyFinish ==
  ASSUME IInv, NEW t \in Thread, Finish(t),
         UNCHANGED <<clock, codes, sessions, devices, users, writer>>
  PROVE  IInv'
<1>1. request' = [request EXCEPT ![t] = IdleThread]
  BY DEF Finish, Continue
<1>2. request'[t] = IdleThread
  BY <1>1 DEF IInv, TypeOK
<1>3. ReadOK(t)'
  BY <1>2 DEF ReadOK, IdleThread
<1> QED  BY <1>1, <1>3, OnlyRequest

\* Reads, answers and refusals.
LEMMA ReadsOK ==
  ASSUME IInv, NEW t \in Thread
  PROVE  /\ \A c \in Code : PairRead(t, c) => IInv'
         /\ PairRefused(t) => IInv'
         /\ \A s \in Id : AuthenticateRead(t, s) => IInv'
         /\ Answer(t) \/ Refuse(t) => IInv'
         /\ Logout(t) => IInv'
         /\ \A s \in Id : RevokeSessionRead(t, s) => IInv'
         /\ \A d \in Id : RevokeDeviceRead(t, d) => IInv'
<1>1. ASSUME NEW c \in Code, PairRead(t, c)
      PROVE  IInv'
  <2> DEFINE r == [op |-> "pair", code |-> c, now |-> clock]
  <2>1. r \in Request
    BY DEF IInv, TypeOK, Request, PairRequest
  <2>2. request' = [request EXCEPT ![t] = r] /\ request'[t] = r
    BY <1>1 DEF PairRead, Begin, IInv, TypeOK
  <2>3. ReadOK(t)'
    BY <2>2 DEF ReadOK
  <2> QED  BY <1>1, <2>1, <2>2, <2>3, OnlyRequest DEF PairRead
<1>2. ASSUME PairRefused(t) \/ Answer(t) \/ Refuse(t)
      PROVE  IInv'
  BY <1>2, OnlyFinish DEF PairRefused, Answer, Refuse
<1>3. ASSUME NEW s \in Id, AuthenticateRead(t, s)
      PROVE  IInv'
  <2> DEFINE r == [op |-> "authenticate", session |-> s, now |-> clock,
                   absolute |-> sessions[s].absolute_expires_at]
  <2>1. sessions[s] # Absent /\ sessions[s] \in RuntimeSession
    BY <1>3, RowKinds DEF AuthenticateRead, Usable, IInv
  <2>2. r \in Request
    BY <2>1 DEF IInv, TypeOK, Request, AuthenticateRequest, RuntimeSession
  <2>3. request' = [request EXCEPT ![t] = r] /\ request'[t] = r
    BY <1>3 DEF AuthenticateRead, Begin, IInv, TypeOK
  <2>4. ReadOK(t)'
    BY <1>3, <2>1, <2>3 DEF ReadOK, AuthenticateRead
  <2> QED  BY <1>3, <2>2, <2>3, <2>4, OnlyRequest DEF AuthenticateRead
<1>4. ASSUME NEW some \in SUBSET Id, NEW put \in SUBSET Id,
             Continue(t, [op |-> "revoke", sessions |-> some, devices |-> put]),
             \A s \in some : sessions[s] # Absent,
             \A d \in put : devices[d] # "absent" /\ (d \in some \/ sessions[d].revoked),
             UNCHANGED <<clock, codes, sessions, devices, users, writer>>
      PROVE  IInv'
  <2> DEFINE r == [op |-> "revoke", sessions |-> some, devices |-> put]
  <2>1. r \in Request
    BY DEF Request, RevokeRequest
  <2>2. request' = [request EXCEPT ![t] = r] /\ request'[t] = r
    BY <1>4 DEF Continue, IInv, TypeOK
  <2>3. ReadOK(t)'
    BY <1>4, <2>2 DEF ReadOK
  <2> QED  BY <1>4, <2>1, <2>2, <2>3, OnlyRequest
<1>5. request[t].op = "authenticated" => /\ request[t].session \in Id
                                         /\ sessions[request[t].session] # Absent
  BY RequestKinds DEF IInv, ReadOK, AuthenticatedRequest
<1>6. ASSUME Logout(t)
      PROVE  IInv'
  BY <1>4, <1>5, <1>6 DEF Logout
<1>7. ASSUME NEW s \in Id, RevokeSessionRead(t, s)
      PROVE  IInv'
  BY <1>4, <1>7 DEF RevokeSessionRead
<1>8. ASSUME NEW d \in Id, RevokeDeviceRead(t, d)
      PROVE  IInv'
  <2> DEFINE some == {s \in SessionsOf(d) : ~sessions[s].revoked}
  <2>1. some \in SUBSET Id /\ \A s \in some : sessions[s] # Absent
    BY DEF SessionsOf
  <2>2. d \in SessionsOf(d)
    BY <1>8 DEF RevokeDeviceRead, SessionsOf, IInv, RowsOK
  <2>3. d \in some \/ sessions[d].revoked
    BY <2>2
  <2>4. Continue(t, [op |-> "revoke", sessions |-> some, devices |-> {d}])
    BY <1>8 DEF RevokeDeviceRead
  <2> HIDE DEF some
  <2> QED  BY <1>4, <1>8, <2>1, <2>3, <2>4 DEF RevokeDeviceRead
<1> QED  BY <1>1, <1>2, <1>3, <1>6, <1>7, <1>8

-----------------------------------------------------------------------------
(* Writes *)

\* Time and new codes: no request depends on them.
LEMMA ClockOK ==
  ASSUME IInv, Tick \/ \E c \in Code : CreatePairingCode(c)
  PROVE  IInv'
<1>1. CASE Tick
  <2>1. clock' \in 0 .. MaxTime
    BY <1>1, TimeAssumption DEF Tick, IInv, TypeOK
  <2>2. TypeOK'
    BY <1>1, <2>1 DEF Tick, IInv, TypeOK
  <2> QED  BY <1>1, <2>2 DEF Tick, IInv, RowsOK, ReadOK, RevokedDeviceHasNoSession
<1>2. ASSUME NEW c \in Code, CreatePairingCode(c)
      PROVE  IInv'
  <2> DEFINE row == [row |-> "code", expires_at |-> clock + CodeTTL, used |-> FALSE]
  <2>1. clock + CodeTTL \in Time
    BY TimeAssumption DEF IInv, TypeOK, Time
  <2>2. row \in PairingCode /\ row # Absent
    BY <2>1 DEF PairingCode, Absent
  <2>3. codes' = [codes EXCEPT ![c] = row]
    BY <1>2 DEF CreatePairingCode
  <2> HIDE DEF row
  <2>4. TypeOK'
    BY <1>2, <2>2, <2>3 DEF CreatePairingCode, IInv, TypeOK
  <2>5. ASSUME NEW t \in Thread
        PROVE  ReadOK(t)'
    <3>1. \A d \in Code : codes[d] # Absent => codes'[d] # Absent
      BY <2>2, <2>3 DEF IInv, TypeOK
    <3>2. request[t].op = "claimed" => request[t].code \in Code
      BY RequestKinds DEF IInv, ClaimedRequest
    <3> QED  BY <1>2, <3>1, <3>2 DEF IInv, ReadOK, CreatePairingCode
  <2> QED  BY <1>2, <2>4, <2>5
           DEF CreatePairingCode, IInv, RowsOK, RevokedDeviceHasNoSession
<1> QED  BY <1>1, <1>2

\* No pairing is under way when the lock is free, and only one when it is not.
LEMMA OneWriter ==
  ASSUME IInv, NEW t \in Thread, Unlocked \/ request[t].op = "claimed"
  PROVE  \A u \in Thread \ {t} : request[u].op # "claimed"
BY ThreadAssumption DEF IInv, ReadOK, Unlocked

\* The code is claimed, and the lock is taken.
LEMMA PairClaimOK ==
  ASSUME IInv, NEW t \in Thread, PairClaim(t)
  PROVE  IInv'
<1> DEFINE r == request[t]
           new == [op |-> "claimed", code |-> r.code, now |-> r.now, user |-> users > 0]
<1>1. r \in PairRequest /\ codes[r.code] \in PairingCode
  BY RequestKinds, RowKinds DEF PairClaim, Claimable, IInv, PairRequest
<1>2. new \in Request
  BY <1>1 DEF PairRequest, Request, ClaimedRequest
<1>3. request' = [request EXCEPT ![t] = new]
  BY DEF PairClaim, Continue
<1>4. [codes[r.code] EXCEPT !.used = TRUE] \in PairingCode
  BY <1>1 DEF PairingCode
<1>5. codes' = [codes EXCEPT ![r.code] = [codes[r.code] EXCEPT !.used = TRUE]]
  BY <1>1 DEF PairClaim, IInv, TypeOK
<1>6. r.code \in Code
  BY <1>1 DEF PairRequest
<1>7. \A c \in Code : codes[c] # Absent => codes'[c] # Absent
  BY <1>4, <1>5, <1>6 DEF IInv, TypeOK, PairingCode, Absent
<1>8. codes'[r.code] # Absent
  BY <1>4, <1>5, <1>6 DEF IInv, TypeOK, PairingCode, Absent
<1>9. TypeOK'
  BY <1>2, <1>3, <1>4, <1>5, <1>6 DEF PairClaim, IInv, TypeOK
<1>10. request'[t] = new
  BY <1>3 DEF IInv, TypeOK
<1>11. ReadOK(t)'
  <2>1. writer' = t /\ users' = users /\ users \in {0, 1}
    BY DEF PairClaim, IInv
  <2>2. users = IF new.user THEN 1 ELSE 0
    <3>1. new.user = (users > 0)
      BY Zenon
    <3>2. users = IF users > 0 THEN 1 ELSE 0
      BY <2>1
    <3> HIDE DEF new
    <3> QED  BY <3>1, <3>2, Zenon
  <2>3. request'[t].op = "claimed" /\ request'[t].code = r.code /\ request'[t].user = new.user
    BY <1>10
  <2> HIDE DEF new, r
  <2> QED  BY <1>8, <2>1, <2>2, <2>3 DEF ReadOK
<1>12. ASSUME NEW u \in Thread, u # t
       PROVE  ReadOK(u)'
  <2>1. request'[u] = request[u]
    BY <1>3, <1>12 DEF IInv, TypeOK
  <2>2. request[u].op # "claimed"
    BY <1>12, OneWriter DEF PairClaim
  <2> QED  BY <2>1, <2>2 DEF IInv, ReadOK, PairClaim
<1>13. RowsOK' /\ users' \in {0, 1} /\ RevokedDeviceHasNoSession'
  BY DEF PairClaim, IInv, RowsOK, RevokedDeviceHasNoSession
<1> QED  BY <1>9, <1>11, <1>12, <1>13 DEF IInv

\* A thread that finishes with the lock in hand lets the others be.
LEMMA FinishWriter ==
  ASSUME IInv, NEW t \in Thread, Finish(t), request[t].op = "claimed"
  PROVE  /\ request' \in [Thread -> {IdleThread} \union Request]
         /\ request'[t].op = "idle"
         /\ \A u \in Thread \ {t} : request'[u] = request[u] /\ request[u].op # "claimed"
BY OneWriter DEF IInv, TypeOK, Finish, Continue, IdleThread

\* The pairing is undone.
LEMMA PairAbortsOK ==
  ASSUME IInv, NEW t \in Thread, PairAborts(t)
  PROVE  IInv'
<1> DEFINE r == request[t]
<1>1. r \in ClaimedRequest /\ writer = t /\ codes[r.code] \in PairingCode /\ r.code \in Code
  BY RequestKinds, RowKinds DEF PairAborts, ReadOK, IInv, ClaimedRequest
<1>2. [codes[r.code] EXCEPT !.used = FALSE] \in PairingCode
  BY <1>1 DEF PairingCode
<1>3. codes' = [codes EXCEPT ![r.code] = [codes[r.code] EXCEPT !.used = FALSE]]
  BY <1>1 DEF PairAborts, IInv, TypeOK
<1>4. codes' \in [Code -> {Absent} \union PairingCode]
  BY <1>2, <1>3 DEF IInv, TypeOK
<1>5. /\ request' \in [Thread -> {IdleThread} \union Request]
      /\ request'[t].op = "idle"
      /\ \A u \in Thread \ {t} : request'[u] = request[u] /\ request[u].op # "claimed"
  BY FinishWriter DEF PairAborts
<1>6. TypeOK'
  BY <1>1, <1>4, <1>5 DEF PairAborts, IInv, TypeOK
<1>7. \A u \in Thread : ReadOK(u)'
  BY <1>5 DEF PairAborts, IInv, ReadOK
<1> QED  BY <1>6, <1>7 DEF PairAborts, IInv, RowsOK, RevokedDeviceHasNoSession

\* The user, the device and the session appear together.
LEMMA PairCommitOK ==
  ASSUME IInv, NEW t \in Thread, PairCommit(t)
  PROVE  IInv'
<1> DEFINE r == request[t]
           row(d) == [row |-> "session", device |-> d, code |-> r.code,
                      idle_expires_at |-> r.now + IdleTTL,
                      absolute_expires_at |-> r.now + AbsoluteTTL, revoked |-> FALSE]
<1>1. /\ r \in ClaimedRequest /\ writer = t
      /\ r.code \in Code /\ r.now \in 0 .. MaxTime
      /\ users = IF r.user THEN 1 ELSE 0
  BY RequestKinds DEF PairCommit, ReadOK, IInv, ClaimedRequest
<1>2. PICK next \in Id : /\ sessions[next] = Absent
                         /\ devices' = [devices EXCEPT ![next] = "active"]
                         /\ sessions' = [sessions EXCEPT ![next] = row(next)]
  BY DEF PairCommit
<1>3. /\ r.now + IdleTTL \in Time /\ r.now + AbsoluteTTL \in Time
      /\ r.now + IdleTTL <= r.now + AbsoluteTTL
  BY <1>1, TimeAssumption DEF Time
<1>4. /\ row(next) \in RuntimeSession /\ row(next) # Absent
      /\ row(next).idle_expires_at <= row(next).absolute_expires_at
      /\ row(next).device = next
  BY <1>1, <1>3 DEF RuntimeSession, Absent
<1> HIDE DEF row
<1>5. /\ request' \in [Thread -> {IdleThread} \union Request]
      /\ request'[t].op = "idle"
      /\ \A u \in Thread \ {t} : request'[u] = request[u] /\ request[u].op # "claimed"
  BY FinishWriter DEF PairCommit
<1>6. users' = 1 /\ writer' = NoThread /\ UNCHANGED <<clock, codes>>
  BY <1>1 DEF PairCommit
<1>7. sessions' \in [Id -> {Absent} \union RuntimeSession]
  BY <1>2, <1>4 DEF IInv, TypeOK
<1>8. \A s \in Id : s # next => sessions'[s] = sessions[s] /\ devices'[s] = devices[s]
  BY <1>2 DEF IInv, TypeOK
<1>9. sessions'[next] = row(next) /\ devices'[next] = "active"
  BY <1>2 DEF IInv, TypeOK
<1>10. \A s \in Id : sessions'[s] # Absent =>
         sessions'[s].idle_expires_at <= sessions'[s].absolute_expires_at
  BY <1>4, <1>8, <1>9 DEF IInv, TypeOK
<1>11. devices' \in [Id -> {"absent", "active", "revoked"}]
  BY <1>2 DEF IInv, TypeOK
<1>12. TypeOK'
  BY <1>5, <1>6, <1>7, <1>10, <1>11 DEF IInv, TypeOK
<1>13. RowsOK'
  BY <1>4, <1>8, <1>9 DEF IInv, RowsOK
<1>14. RevokedDeviceHasNoSession'
  BY <1>4, <1>8, <1>9 DEF IInv, RowsOK, RevokedDeviceHasNoSession
<1>15. ASSUME NEW u \in Thread, u # t
       PROVE  ReadOK(u)'
  <2>1. request'[u] = request[u] /\ request[u].op # "claimed"
    BY <1>5, <1>15
  <2>2. CASE request[u].op \in {"authenticate", "authenticated"}
    <3>1. request[u].session \in Id /\ sessions[request[u].session] # Absent
      BY <2>2, RequestKinds DEF IInv, ReadOK, AuthenticateRequest, AuthenticatedRequest
    <3>2. sessions'[request[u].session] = sessions[request[u].session]
      BY <1>2, <1>8, <3>1
    <3> QED  BY <2>1, <2>2, <3>1, <3>2 DEF IInv, ReadOK
  <2>3. CASE request[u].op = "revoke"
    <3>1. request[u].sessions \subseteq Id /\ request[u].devices \subseteq Id
      BY <2>3, RequestKinds DEF IInv, RevokeRequest
    <3>2. \A s \in request[u].sessions : sessions'[s] # Absent
      BY <1>2, <1>8, <2>3, <3>1 DEF IInv, ReadOK
    <3>3. \A d \in request[u].devices : d \in Id /\ d # next
      BY <1>2, <2>3, <3>1 DEF IInv, ReadOK, RowsOK
    <3>4. \A d \in request[u].devices : /\ devices'[d] # "absent"
                                        /\ d \in request[u].sessions \/ sessions'[d].revoked
      BY <1>8, <2>3, <3>3 DEF IInv, ReadOK
    <3> QED  BY <2>1, <2>3, <3>2, <3>4 DEF ReadOK
  <2> QED  BY <2>1, <2>2, <2>3 DEF ReadOK
<1>16. ReadOK(t)'
  BY <1>5 DEF ReadOK
<1> QED  BY <1>6, <1>12, <1>13, <1>14, <1>15, <1>16 DEF IInv

\* A step that changes the session rows that are there, and the devices of
\* none but those, and leaves the rest to be as it was.
LEMMA SessionsChange ==
  ASSUME IInv, NEW t \in Thread, NEW r \in {IdleThread} \union Request,
         request' = [request EXCEPT ![t] = r], ReadOK(t)',
         UNCHANGED <<clock, codes, users, writer>>,
         sessions' \in [Id -> {Absent} \union RuntimeSession],
         devices' \in [Id -> {"absent", "active", "revoked"}],
         \A s \in Id : /\ sessions'[s] = Absent <=> sessions[s] = Absent
                       /\ devices'[s] = "absent" <=> devices[s] = "absent"
                       /\ sessions[s] # Absent =>
                            /\ sessions'[s].device = sessions[s].device
                            /\ sessions'[s].absolute_expires_at = sessions[s].absolute_expires_at
                            /\ sessions'[s].idle_expires_at <= sessions[s].absolute_expires_at
                            /\ sessions[s].revoked => sessions'[s].revoked
                            /\ devices'[s] = "revoked" => sessions'[s].revoked
  PROVE  IInv'
<1>1. request' \in [Thread -> {IdleThread} \union Request]
  BY DEF IInv, TypeOK
<1>2. TypeOK'
  BY <1>1 DEF IInv, TypeOK
<1>3. RowsOK'
  BY DEF IInv, RowsOK
<1>4. RevokedDeviceHasNoSession'
  BY <1>3 DEF RowsOK, RevokedDeviceHasNoSession
<1>5. ASSUME NEW u \in Thread, u # t
      PROVE  ReadOK(u)'
  <2>1. request'[u] = request[u]
    BY <1>5 DEF IInv, TypeOK
  <2>2. CASE request[u].op = "claimed"
    BY <2>1, <2>2 DEF IInv, ReadOK
  <2>3. CASE request[u].op \in {"authenticate", "authenticated"}
    <3>1. request[u].session \in Id
      BY <2>3, RequestKinds DEF IInv, AuthenticateRequest, AuthenticatedRequest
    <3> QED  BY <2>1, <2>3, <3>1 DEF IInv, ReadOK
  <2>4. CASE request[u].op = "revoke"
    <3>1. request[u].sessions \subseteq Id /\ request[u].devices \subseteq Id
      BY <2>4, RequestKinds DEF IInv, RevokeRequest
    <3>2. \A d \in request[u].devices : sessions[d] # Absent
      BY <2>4, <3>1 DEF IInv, ReadOK, RowsOK
    <3> QED  BY <2>1, <2>4, <3>1, <3>2 DEF IInv, ReadOK
  <2> QED  BY <2>1, <2>2, <2>3, <2>4 DEF ReadOK
<1> QED  BY <1>2, <1>3, <1>4, <1>5 DEF IInv

\* The session is seen, and its absolute end stands.
LEMMA AuthenticateWriteOK ==
  ASSUME IInv, NEW t \in Thread, AuthenticateWrite(t)
  PROVE  IInv'
<1> DEFINE r == request[t]
           idle == Earlier(r.now + IdleTTL, r.absolute)
           row == [sessions[r.session] EXCEPT !.idle_expires_at = idle]
           next == [op |-> "authenticated", session |-> r.session]
<1>1. /\ r \in AuthenticateRequest /\ r.session \in Id /\ r.now \in 0 .. MaxTime
      /\ r.absolute \in Time
      /\ sessions[r.session] # Absent
      /\ sessions[r.session].absolute_expires_at = r.absolute
  BY RequestKinds DEF AuthenticateWrite, ReadOK, IInv, AuthenticateRequest
<1>2. sessions[r.session] \in RuntimeSession
  BY <1>1, RowKinds DEF IInv
<1>3. r.now + IdleTTL \in Time
  BY <1>1, TimeAssumption DEF Time
<1>4. idle \in Time /\ idle <= r.absolute
  BY <1>1, <1>3, TimeAssumption DEF Earlier, Time
<1>5. sessions' = [sessions EXCEPT ![r.session] = row]
  BY <1>1, <1>2 DEF AuthenticateWrite, IInv, TypeOK
<1> HIDE DEF idle
<1>6. /\ row \in RuntimeSession /\ row # Absent
      /\ row.device = sessions[r.session].device
      /\ row.absolute_expires_at = r.absolute
      /\ row.idle_expires_at = idle
      /\ row.revoked = sessions[r.session].revoked
  BY <1>1, <1>2, <1>4 DEF RuntimeSession, Absent
<1> HIDE DEF row
<1>7. next \in Request
  BY <1>1 DEF Request, AuthenticatedRequest
<1>8. request' = [request EXCEPT ![t] = next] /\ request'[t] = next
  BY DEF AuthenticateWrite, Continue, IInv, TypeOK
<1>9. sessions' \in [Id -> {Absent} \union RuntimeSession]
  BY <1>5, <1>6 DEF IInv, TypeOK
<1>10. /\ sessions'[r.session] = row
       /\ \A s \in Id \ {r.session} : sessions'[s] = sessions[s]
  BY <1>1, <1>5 DEF IInv, TypeOK
<1>11. ReadOK(t)'
  BY <1>6, <1>8, <1>10 DEF ReadOK
<1>12. ASSUME NEW s \in Id
       PROVE  /\ sessions'[s] = Absent <=> sessions[s] = Absent
              /\ sessions[s] # Absent =>
                   /\ sessions'[s].device = sessions[s].device
                   /\ sessions'[s].absolute_expires_at = sessions[s].absolute_expires_at
                   /\ sessions'[s].idle_expires_at <= sessions[s].absolute_expires_at
                   /\ sessions[s].revoked => sessions'[s].revoked
                   /\ devices[s] = "revoked" => sessions'[s].revoked
  <2>1. CASE s = r.session
    BY <1>1, <1>4, <1>6, <1>10, <2>1 DEF IInv, RowsOK, RevokedDeviceHasNoSession
  <2>2. CASE s # r.session
    BY <1>10, <2>2 DEF IInv, TypeOK, RowsOK, RevokedDeviceHasNoSession
  <2> QED  BY <2>1, <2>2
<1>13. devices' = devices /\ UNCHANGED <<clock, codes, users, writer>>
  BY DEF AuthenticateWrite
<1>14. devices' \in [Id -> {"absent", "active", "revoked"}]
  BY <1>13 DEF IInv, TypeOK
<1> HIDE DEF next
<1> QED  BY <1>7, <1>8, <1>9, <1>11, <1>12, <1>13, <1>14, SessionsChange

\* The sessions go with their device.
LEMMA RevokeWriteOK ==
  ASSUME IInv, NEW t \in Thread, RevokeWrite(t)
  PROVE  IInv'
<1> DEFINE r == request[t]
           row(s) == [sessions[s] EXCEPT !.revoked = TRUE]
<1>1. /\ r.sessions \subseteq Id /\ r.devices \subseteq Id
      /\ \A s \in r.sessions : sessions[s] # Absent
      /\ \A d \in r.devices : /\ devices[d] # "absent"
                              /\ d \in r.sessions \/ sessions[d].revoked
  BY RequestKinds DEF RevokeWrite, ReadOK, IInv, RevokeRequest
<1>2. sessions' = [s \in Id |-> IF s \in r.sessions THEN row(s) ELSE sessions[s]]
  BY DEF RevokeWrite
<1>3. devices' = [d \in Id |-> IF d \in r.devices THEN "revoked" ELSE devices[d]]
  BY DEF RevokeWrite
<1>4. ASSUME NEW s \in Id, sessions[s] # Absent
      PROVE  /\ row(s) \in RuntimeSession /\ row(s) # Absent /\ row(s).revoked
             /\ row(s).device = sessions[s].device
             /\ row(s).absolute_expires_at = sessions[s].absolute_expires_at
             /\ row(s).idle_expires_at = sessions[s].idle_expires_at
  <2>1. sessions[s] \in RuntimeSession
    BY <1>4, RowKinds DEF IInv
  <2> QED  BY <2>1 DEF RuntimeSession, Absent
<1> HIDE DEF row
<1>5. sessions' \in [Id -> {Absent} \union RuntimeSession]
  BY <1>1, <1>2, <1>4 DEF IInv, TypeOK
<1>6. devices' \in [Id -> {"absent", "active", "revoked"}]
  BY <1>3 DEF IInv, TypeOK
<1>7. request' = [request EXCEPT ![t] = IdleThread] /\ request'[t] = IdleThread
  BY DEF RevokeWrite, Finish, Continue, IInv, TypeOK
<1>8. ReadOK(t)'
  BY <1>7 DEF ReadOK, IdleThread
<1>9. ASSUME NEW s \in Id
      PROVE  /\ sessions'[s] = Absent <=> sessions[s] = Absent
             /\ devices'[s] = "absent" <=> devices[s] = "absent"
             /\ sessions[s] # Absent =>
                  /\ sessions'[s].device = sessions[s].device
                  /\ sessions'[s].absolute_expires_at = sessions[s].absolute_expires_at
                  /\ sessions'[s].idle_expires_at <= sessions[s].absolute_expires_at
                  /\ sessions[s].revoked => sessions'[s].revoked
                  /\ devices'[s] = "revoked" => sessions'[s].revoked
  <2>1. CASE s \in r.sessions
    BY <1>1, <1>2, <1>3, <1>4, <2>1 DEF IInv, TypeOK
  <2>2. CASE s \notin r.sessions
    BY <1>1, <1>2, <1>3, <2>2 DEF IInv, TypeOK, RowsOK, RevokedDeviceHasNoSession
  <2> QED  BY <2>1, <2>2
<1>10. UNCHANGED <<clock, codes, users, writer>>
  BY DEF RevokeWrite
<1> QED  BY <1>5, <1>6, <1>7, <1>8, <1>9, <1>10, SessionsChange

-----------------------------------------------------------------------------
(* Theorems *)

\* The invariant holds at first, and every step keeps it.
LEMMA InvariantHolds ==
  /\ Init => IInv
  /\ IInv /\ [Next]_vars => IInv'
<1>1. ASSUME Init PROVE IInv
  <2>1. 0 \in 0 .. MaxTime /\ \A t \in Thread : request[t] = IdleThread
    BY <1>1, TimeAssumption DEF Init
  <2>2. TypeOK
    BY <1>1, <2>1 DEF Init, TypeOK
  <2>3. RowsOK /\ RevokedDeviceHasNoSession /\ users \in {0, 1}
    BY <1>1 DEF Init, RowsOK, RevokedDeviceHasNoSession
  <2>4. \A t \in Thread : ReadOK(t)
    BY <2>1 DEF ReadOK, IdleThread
  <2> QED  BY <2>2, <2>3, <2>4 DEF IInv
<1>2. ASSUME IInv, UNCHANGED vars PROVE IInv'
  BY <1>2 DEF vars, IInv, TypeOK, RowsOK, ReadOK, RevokedDeviceHasNoSession
<1>3. ASSUME IInv, Next PROVE IInv'
  <2>1. CASE Tick \/ \E c \in Code : CreatePairingCode(c)
    BY <1>3, <2>1, ClockOK
  <2>2. ASSUME NEW t \in Thread,
               \/ \E c \in Code : PairRead(t, c)
               \/ PairRefused(t) \/ Answer(t) \/ Refuse(t) \/ Logout(t)
               \/ \E s \in Id : AuthenticateRead(t, s) \/ RevokeSessionRead(t, s)
               \/ \E d \in Id : RevokeDeviceRead(t, d)
        PROVE  IInv'
    BY <1>3, <2>2, ReadsOK
  <2>3. ASSUME NEW t \in Thread, PairClaim(t) \/ PairCommit(t) \/ PairAborts(t)
        PROVE  IInv'
    BY <1>3, <2>3, PairClaimOK, PairCommitOK, PairAbortsOK
  <2>4. ASSUME NEW t \in Thread, AuthenticateWrite(t) \/ RevokeWrite(t)
        PROVE  IInv'
    BY <1>3, <2>4, AuthenticateWriteOK, RevokeWriteOK
  <2> QED  BY <1>3, <2>1, <2>2, <2>3, <2>4 DEF Next
<1> QED  BY <1>1, <1>2, <1>3

\* Every row and every request in flight has its type, and no session may be
\* idle for longer than it may last.
THEOREM TypeCorrect == Spec => []TypeOK
<1>1. IInv => TypeOK
  BY DEF IInv
<1> QED  BY <1>1, InvariantHolds, PTL DEF Spec

\* However many pairings are under way, there is at most one local user.
THEOREM UserIsOne == Spec => []OneLocalUser
<1>1. IInv => OneLocalUser
  BY DEF IInv, OneLocalUser
<1> QED  BY <1>1, InvariantHolds, PTL DEF Spec

\* A revoked device has no session that may be used, whoever is using it.
THEOREM RevokedDeviceIsOut == Spec => []RevokedDeviceHasNoSession
<1>1. IInv => RevokedDeviceHasNoSession
  BY DEF IInv
<1> QED  BY <1>1, InvariantHolds, PTL DEF Spec

-----------------------------------------------------------------------------
(* Codes and revocations *)

SessionsWith(c) == {s \in Id : sessions[s] # Absent /\ sessions[s].code = c}
Used(c) == codes[c] # Absent /\ codes[c].used
Claiming(c) == \E t \in Thread : request[t].op = "claimed" /\ request[t].code = c

\* A code has no session until it is used and its pairing has committed.
CodeOK(c) == /\ Claiming(c) => Used(c) /\ SessionsWith(c) = {}
             /\ ~Used(c) => SessionsWith(c) = {}
             /\ Used(c) /\ ~Claiming(c) => \E s \in Id : SessionsWith(c) = {s}

CodesInv == IInv /\ \A c \in Code : CodeOK(c)

\* A step that neither pairs nor makes a code changes only the two columns that the
\* request may set, and never takes a revocation back.
LEMMA RowsKeep ==
  ASSUME IInv, NEW t \in Thread, AuthenticateWrite(t) \/ RevokeWrite(t)
  PROVE  /\ \A s \in Id : /\ sessions'[s] = Absent <=> sessions[s] = Absent
                          /\ sessions[s] # Absent =>
                               /\ sessions'[s].code = sessions[s].code
                               /\ sessions[s].revoked => sessions'[s].revoked
         /\ UNCHANGED codes
         /\ \E r \in {IdleThread} \union AuthenticatedRequest :
              request' = [request EXCEPT ![t] = r]
         /\ request[t].op \in {"authenticate", "revoke"}
<1> DEFINE r == request[t]
<1>1. CASE AuthenticateWrite(t)
  <2> DEFINE row == [sessions[r.session] EXCEPT
                       !.idle_expires_at = Earlier(r.now + IdleTTL, r.absolute)]
  <2>1. /\ r.op = "authenticate" /\ r.session \in Id
        /\ sessions[r.session] # Absent /\ sessions[r.session] \in RuntimeSession
    BY <1>1, RequestKinds, RowKinds
       DEF AuthenticateWrite, AuthenticateRequest, ReadOK, IInv
  <2>2. /\ row # Absent /\ row.code = sessions[r.session].code
        /\ row.revoked = sessions[r.session].revoked
    BY <2>1 DEF RuntimeSession, Absent
  <2>3. sessions' = [sessions EXCEPT ![r.session] = row]
    BY <1>1 DEF AuthenticateWrite
  <2>4. [op |-> "authenticated", session |-> r.session] \in AuthenticatedRequest
    BY <2>1 DEF AuthenticatedRequest
  <2> HIDE DEF row
  <2>5. \A s \in Id : /\ sessions'[s] = Absent <=> sessions[s] = Absent
                      /\ sessions[s] # Absent =>
                           /\ sessions'[s].code = sessions[s].code
                           /\ sessions[s].revoked => sessions'[s].revoked
    BY <2>1, <2>2, <2>3 DEF IInv, TypeOK
  <2> QED  BY <1>1, <2>1, <2>4, <2>5 DEF AuthenticateWrite, Continue
<1>2. CASE RevokeWrite(t)
  <2> DEFINE row(s) == [sessions[s] EXCEPT !.revoked = TRUE]
  <2>1. sessions' = [s \in Id |-> IF s \in r.sessions THEN row(s) ELSE sessions[s]]
    BY <1>2 DEF RevokeWrite
  <2>2. ASSUME NEW s \in Id, sessions[s] # Absent
        PROVE  row(s) # Absent /\ row(s).code = sessions[s].code /\ row(s).revoked
    <3>1. sessions[s] \in RuntimeSession
      BY <2>2, RowKinds DEF IInv
    <3> QED  BY <3>1 DEF RuntimeSession, Absent
  <2>3. \A s \in r.sessions : sessions[s] # Absent
    BY <1>2 DEF RevokeWrite, IInv, ReadOK
  <2> HIDE DEF row
  <2>4. \A s \in Id : /\ sessions'[s] = Absent <=> sessions[s] = Absent
                      /\ sessions[s] # Absent =>
                           /\ sessions'[s].code = sessions[s].code
                           /\ sessions[s].revoked => sessions'[s].revoked
    BY <2>1, <2>2, <2>3
  <2> QED  BY <1>2, <2>4 DEF RevokeWrite, Finish, Continue
<1> QED  BY <1>1, <1>2

\* A step of a thread that claims no code, and after which it claims none.
LEMMA OthersKeepCodes ==
  ASSUME CodesInv, NEW t \in Thread, NEW r, request' = [request EXCEPT ![t] = r],
         request[t].op # "claimed", r.op # "claimed", UNCHANGED codes,
         \A c \in Code : SessionsWith(c)' = SessionsWith(c)
  PROVE  \A c \in Code : CodeOK(c)'
<1>1. \A u \in Thread : request'[u] = IF u = t THEN r ELSE request[u]
  BY DEF CodesInv, IInv, TypeOK
<1>2. \A c \in Code : Claiming(c)' <=> Claiming(c)
  BY <1>1 DEF Claiming
<1> QED  BY <1>2 DEF CodesInv, CodeOK, Used

\* The three ways of a pairing: the code is claimed, becomes the session's, or
\* is left as it was.
LEMMA PairingKeepsCodes ==
  ASSUME CodesInv, NEW t \in Thread, PairClaim(t) \/ PairCommit(t) \/ PairAborts(t)
  PROVE  \A c \in Code : CodeOK(c)'
<1> DEFINE r == request[t]
<1>1. PICK k \in Code : k = r.code /\ r.op \in {"pair", "claimed"}
  BY RequestKinds DEF PairClaim, PairCommit, PairAborts, PairRequest, ClaimedRequest,
                      CodesInv, IInv
<1>2. \A u \in Thread \ {t} : request[u].op # "claimed" /\ request'[u] = request[u]
  <2>1. \A u \in Thread \ {t} : request[u].op # "claimed"
    BY OneWriter DEF PairClaim, PairCommit, PairAborts, CodesInv
  <2> QED  BY <2>1 DEF PairClaim, PairCommit, PairAborts, Continue, Finish, CodesInv, IInv,
                       TypeOK
<1>3. codes \in [Code -> {Absent} \union PairingCode]
  BY DEF CodesInv, IInv, TypeOK
<1>4. CASE PairClaim(t)
  <2>1. /\ codes[k] # Absent /\ ~Used(k) /\ SessionsWith(k) = {}
        /\ \A c \in Code : SessionsWith(c)' = SessionsWith(c)
    BY <1>1, <1>4 DEF PairClaim, Claimable, Used, CodesInv, CodeOK, SessionsWith
  <2>2. request'[t].op = "claimed" /\ request'[t].code = k
    BY <1>1, <1>4 DEF PairClaim, Continue, CodesInv, IInv, TypeOK
  <2>3. \A c \in Code : Claiming(c)' <=> c = k
    BY <1>2, <2>2 DEF Claiming
  <2>4. \A c \in Code : ~Claiming(c)
    BY <1>2, <1>4 DEF Claiming, PairClaim
  <2>5. codes[k] \in PairingCode
    BY <1>1, <1>3, <2>1
  <2>6. /\ codes'[k] # Absent /\ codes'[k].used
        /\ \A c \in Code \ {k} : codes'[c] = codes[c]
    BY <1>1, <1>3, <1>4, <2>5 DEF PairClaim, PairingCode, Absent
  <2>7. CodeOK(k)'
    BY <1>1, <2>1, <2>3, <2>6 DEF CodeOK, Used
  <2>8. ASSUME NEW c \in Code \ {k} PROVE CodeOK(c)'
    BY <2>1, <2>3, <2>4, <2>6 DEF CodesInv, CodeOK, Used
  <2> QED  BY <2>7, <2>8
<1>5. CASE PairCommit(t) \/ PairAborts(t)
  <2>1. r.op = "claimed" /\ request'[t] = IdleThread
    BY <1>5 DEF PairCommit, PairAborts, Finish, Continue, CodesInv, IInv, TypeOK
  <2>2. /\ \A c \in Code : ~Claiming(c)'
        /\ \A c \in Code : Claiming(c) <=> c = k
    BY <1>1, <1>2, <2>1 DEF Claiming, IdleThread
  <2>3. Used(k) /\ SessionsWith(k) = {}
    BY <1>1, <2>2 DEF CodesInv, CodeOK
  <2>4. CASE PairCommit(t)
    <3> DEFINE row(d) == [row |-> "session", device |-> d, code |-> r.code,
                          idle_expires_at |-> r.now + IdleTTL,
                          absolute_expires_at |-> r.now + AbsoluteTTL, revoked |-> FALSE]
    <3>1. PICK next \in Id : /\ sessions[next] = Absent
                             /\ sessions' = [sessions EXCEPT ![next] = row(next)]
      BY <2>4 DEF PairCommit
    <3>2. row(next) # Absent /\ row(next).code = k
      BY <1>1 DEF Absent
    <3> HIDE DEF row
    <3>3. \A s \in Id : sessions'[s] = IF s = next THEN row(next) ELSE sessions[s]
      BY <3>1 DEF CodesInv, IInv, TypeOK
    <3>4. SessionsWith(k)' = {next}
      BY <2>3, <3>2, <3>3 DEF SessionsWith
    <3>5. \A c \in Code \ {k} : SessionsWith(c)' = SessionsWith(c)
      BY <3>1, <3>2, <3>3 DEF SessionsWith
    <3>6. codes' = codes
      BY <2>4 DEF PairCommit
    <3>7. CodeOK(k)'
      BY <2>2, <2>3, <3>4, <3>6, <1>1 DEF CodeOK, Used
    <3>8. ASSUME NEW c \in Code \ {k} PROVE CodeOK(c)'
      BY <2>2, <3>5, <3>6 DEF CodesInv, CodeOK, Used
    <3> QED  BY <3>7, <3>8
  <2>5. CASE PairAborts(t)
    <3>1. writer = t
      BY <2>1 DEF CodesInv, IInv, ReadOK
    <3>2. codes' = [codes EXCEPT ![k].used = FALSE]
      BY <1>1, <2>5, <3>1 DEF PairAborts
    <3>3. codes[k] \in PairingCode
      BY <1>1, <1>3, <2>3 DEF Used
    <3>4. ~Used(k)' /\ \A c \in Code \ {k} : codes'[c] = codes[c]
      BY <1>1, <1>3, <3>2, <3>3 DEF Used, PairingCode
    <3>5. \A c \in Code : SessionsWith(c)' = SessionsWith(c)
      BY <2>5 DEF PairAborts, SessionsWith
    <3>6. CodeOK(k)'
      BY <1>1, <2>2, <2>3, <3>4, <3>5 DEF CodeOK
    <3>7. ASSUME NEW c \in Code \ {k} PROVE CodeOK(c)'
      BY <2>2, <3>4, <3>5 DEF CodesInv, CodeOK, Used
    <3> QED  BY <3>6, <3>7
  <2> QED  BY <1>5, <2>4, <2>5
<1> QED  BY <1>4, <1>5

\* A new code is not used, and no other code changes with it or with the time.
LEMMA ClockKeepsCodes ==
  ASSUME CodesInv, Tick \/ \E c \in Code : CreatePairingCode(c)
  PROVE  \A c \in Code : CodeOK(c)'
<1>1. UNCHANGED <<sessions, request>>
  BY DEF Tick, CreatePairingCode
<1>2. \A c \in Code : Used(c)' <=> Used(c)
  <2>1. CASE Tick
    BY <2>1 DEF Tick, Used
  <2>2. ASSUME NEW c \in Code, CreatePairingCode(c)
        PROVE  \A d \in Code : Used(d)' <=> Used(d)
    BY <2>2 DEF CreatePairingCode, Used, CodesInv, IInv, TypeOK
  <2> QED  BY <2>1, <2>2
<1> QED  BY <1>1, <1>2 DEF CodesInv, CodeOK, SessionsWith, Claiming

\* A code has no session before it is used, and one at most, in every state.
LEMMA CodesInvHolds == Spec => []CodesInv
<1>1. Init => CodesInv
  <2> SUFFICES ASSUME Init PROVE \A c \in Code : CodeOK(c)
    BY InvariantHolds DEF CodesInv
  <2> QED  BY DEF Init, CodeOK, Used, Claiming, SessionsWith, IdleThread
<1>2. CodesInv /\ [Next]_vars => CodesInv'
  <2> SUFFICES ASSUME CodesInv, [Next]_vars PROVE \A c \in Code : CodeOK(c)'
    BY InvariantHolds DEF CodesInv
  <2>1. CASE UNCHANGED vars
    BY <2>1 DEF vars, CodesInv, CodeOK, Used, Claiming, SessionsWith
  <2>2. CASE Tick \/ \E c \in Code : CreatePairingCode(c)
    BY <2>2, ClockKeepsCodes
  <2>3. ASSUME NEW t \in Thread,
               \/ \E c \in Code : PairRead(t, c)
               \/ PairRefused(t) \/ Answer(t) \/ Refuse(t) \/ Logout(t)
               \/ \E s \in Id : AuthenticateRead(t, s) \/ RevokeSessionRead(t, s)
               \/ \E d \in Id : RevokeDeviceRead(t, d)
        PROVE  \A c \in Code : CodeOK(c)'
    <3>1. /\ \E r : request' = [request EXCEPT ![t] = r] /\ r.op # "claimed"
          /\ request[t].op # "claimed" /\ UNCHANGED <<codes, sessions>>
      BY <2>3 DEF PairRead, PairRefused, Answer, Refuse, Logout, AuthenticateRead,
                  RevokeSessionRead, RevokeDeviceRead, Begin, Finish, Continue, IdleThread
    <3>2. \A c \in Code : SessionsWith(c)' = SessionsWith(c)
      BY <3>1 DEF SessionsWith
    <3> QED  BY <3>1, <3>2, OthersKeepCodes
  <2>4. ASSUME NEW t \in Thread, PairClaim(t) \/ PairCommit(t) \/ PairAborts(t)
        PROVE  \A c \in Code : CodeOK(c)'
    BY <2>4, PairingKeepsCodes
  <2>5. ASSUME NEW t \in Thread, AuthenticateWrite(t) \/ RevokeWrite(t)
        PROVE  \A c \in Code : CodeOK(c)'
    <3>1. IInv
      BY DEF CodesInv
    <3>2. \A c \in Code : SessionsWith(c)' = SessionsWith(c)
      BY <2>5, <3>1, RowsKeep DEF SessionsWith
    <3>3. /\ \E r : request' = [request EXCEPT ![t] = r] /\ r.op # "claimed"
          /\ request[t].op # "claimed" /\ UNCHANGED codes
      BY <2>5, <3>1, RowsKeep DEF IdleThread, AuthenticatedRequest
    <3> QED  BY <3>2, <3>3, OthersKeepCodes
  <2> QED  BY <2>1, <2>2, <2>3, <2>4, <2>5 DEF Next
<1> QED  BY <1>1, <1>2, PTL DEF Spec

\* A code that is used has made one session, and a pairing that failed after it had
\* claimed the code has left it as it was: for any number of pairings at a time (pair).
THEOREM CodesAreUsedOnce == Spec => []UsedCodeHasOneSession
<1>1. CodesInv => UsedCodeHasOneSession
  <2> SUFFICES ASSUME CodesInv, NEW c \in Code, Used(c)
               PROVE  \/ \E t \in Thread : writer = t /\ request[t].op = "claimed"
                                             /\ request[t].code = c
                      \/ Cardinality(SessionsWith(c)) = 1
    BY DEF UsedCodeHasOneSession, Used, SessionsWith
  <2>1. CASE Claiming(c)
    BY <2>1 DEF Claiming, CodesInv, IInv, ReadOK
  <2>2. CASE ~Claiming(c)
    BY <2>2, FS_Singleton DEF CodesInv, CodeOK
  <2> QED  BY <2>1, <2>2
<1> QED  BY <1>1, CodesInvHolds, PTL

\* No step takes the revocation of a session back, not even that of a request which
\* was let in before the session was revoked (get_current_auth).
THEOREM RevocationIsFinal == Spec => RevokedSessionStays
<1>1. IInv /\ [Next]_vars =>
        [\A s \in Id : sessions[s] # Absent /\ sessions[s].revoked
                         => sessions'[s].revoked]_vars
  <2> SUFFICES ASSUME IInv, Next, NEW s \in Id, sessions[s] # Absent, sessions[s].revoked
               PROVE  sessions'[s].revoked
    OBVIOUS
  <2>1. CASE UNCHANGED sessions
    BY <2>1
  <2>2. ASSUME NEW t \in Thread, PairCommit(t)
        PROVE  sessions'[s].revoked
    BY <2>2 DEF PairCommit, IInv, TypeOK
  <2>3. ASSUME NEW t \in Thread, AuthenticateWrite(t) \/ RevokeWrite(t)
        PROVE  sessions'[s].revoked
    BY <2>3, RowsKeep
  <2> QED  BY <2>1, <2>2, <2>3
           DEF Next, Tick, CreatePairingCode, PairRead, PairClaim, PairRefused, PairAborts,
               AuthenticateRead, RevokeSessionRead, Answer, Refuse, Logout, RevokeDeviceRead
<1>2. Init => IInv
  BY InvariantHolds
<1>3. IInv /\ [Next]_vars => IInv'
  BY InvariantHolds
<1> QED  BY <1>1, <1>2, <1>3, PTL DEF Spec, RevokedSessionStays

-----------------------------------------------------------------------------
(* How long a session may last *)

\* A code that was made stays, with its end; so does a session.
LEMMA RowsStand ==
  ASSUME IInv, [Next]_vars
  PROVE  /\ \A c \in Code : codes[c] # Absent =>
              codes'[c] # Absent /\ codes'[c].expires_at = codes[c].expires_at
         /\ \A s \in Id : sessions[s] # Absent =>
              /\ sessions'[s] # Absent
              /\ sessions'[s].code = sessions[s].code
              /\ sessions'[s].absolute_expires_at = sessions[s].absolute_expires_at
<1> DEFINE CodesStand == \A c \in Code : codes[c] # Absent =>
                           codes'[c] # Absent /\ codes'[c].expires_at = codes[c].expires_at
           SessionsStand == \A s \in Id : sessions[s] # Absent =>
                              /\ sessions'[s] # Absent
                              /\ sessions'[s].code = sessions[s].code
                              /\ sessions'[s].absolute_expires_at
                                   = sessions[s].absolute_expires_at
<1>1. UNCHANGED codes => CodesStand
  OBVIOUS
<1>2. UNCHANGED sessions => SessionsStand
  OBVIOUS
<1>3. ASSUME NEW c \in Code, CreatePairingCode(c)
      PROVE  CodesStand
  BY <1>3 DEF CreatePairingCode, IInv, TypeOK
<1>4. ASSUME NEW t \in Thread, PairClaim(t) \/ PairAborts(t)
      PROVE  CodesStand
  <2>1. /\ request[t].code \in Code /\ codes[request[t].code] # Absent
        /\ codes[request[t].code] \in PairingCode
    BY <1>4, RequestKinds, RowKinds
       DEF PairClaim, PairAborts, Claimable, IInv, ReadOK, PairRequest, ClaimedRequest
  <2>2. \E b \in BOOLEAN : codes' = [codes EXCEPT ![request[t].code].used = b] \/ codes' = codes
    BY <1>4 DEF PairClaim, PairAborts
  <2> QED  BY <2>1, <2>2 DEF IInv, TypeOK, PairingCode, Absent
<1>5. ASSUME NEW t \in Thread, PairCommit(t)
      PROVE  SessionsStand
  BY <1>5 DEF PairCommit, IInv, TypeOK
<1>6. ASSUME NEW t \in Thread, AuthenticateWrite(t)
      PROVE  SessionsStand
  <2>1. /\ request[t].session \in Id /\ sessions[request[t].session] # Absent
        /\ sessions[request[t].session] \in RuntimeSession
    BY <1>6, RequestKinds, RowKinds
       DEF AuthenticateWrite, AuthenticateRequest, ReadOK, IInv
  <2>2. PICK n : sessions' = [sessions EXCEPT ![request[t].session].idle_expires_at = n]
    BY <1>6 DEF AuthenticateWrite
  <2> QED  BY <2>1, <2>2 DEF IInv, TypeOK, RuntimeSession, Absent
<1>7. ASSUME NEW t \in Thread, RevokeWrite(t)
      PROVE  SessionsStand
  <2>1. \A s \in Id : sessions'[s] = sessions[s]
                        \/ sessions'[s] = [sessions[s] EXCEPT !.revoked = TRUE]
    BY <1>7 DEF RevokeWrite
  <2>2. \A s \in Id : sessions[s] # Absent => sessions[s] \in RuntimeSession
    BY RowKinds DEF IInv
  <2> QED  BY <2>1, <2>2 DEF RuntimeSession, Absent
<1> HIDE DEF CodesStand, SessionsStand
<1>8. CodesStand
  <2>1. CASE UNCHANGED codes
    BY <1>1, <2>1
  <2> QED  BY <1>3, <1>4, <2>1
           DEF Next, vars, Tick, PairRead, PairRefused, PairCommit, AuthenticateRead, Answer,
               AuthenticateWrite, Refuse, Logout, RevokeSessionRead, RevokeDeviceRead,
               RevokeWrite
<1>9. SessionsStand
  <2>1. CASE UNCHANGED sessions
    BY <1>2, <2>1
  <2> QED  BY <1>5, <1>6, <1>7, <2>1
           DEF Next, vars, Tick, CreatePairingCode, PairRead, PairRefused, PairClaim,
               PairAborts, AuthenticateRead, Answer, Refuse, Logout, RevokeSessionRead,
               RevokeDeviceRead
<1> QED  BY <1>8, <1>9 DEF CodesStand, SessionsStand

\* What a pairing goes by: its code, and the moment at which it looked at the clock.
Pairing(t) == request[t].op \in {"pair", "claimed"}

\* A pairing begins with a code that is good, and keeps what it goes by.
LEMMA PairingsKeep ==
  ASSUME IInv, [Next]_vars, NEW t \in Thread, Pairing(t)'
  PROVE  \/ /\ Pairing(t)
            /\ request'[t].code = request[t].code /\ request'[t].now = request[t].now
         \/ /\ request'[t].code \in Code /\ request'[t].now = clock
            /\ codes[request'[t].code] # Absent
            /\ clock < codes[request'[t].code].expires_at
            /\ clock + AbsoluteTTL <= MaxTime
<1>1. CASE request'[t] = request[t]
  BY <1>1 DEF Pairing
<1>2. CASE request'[t] # request[t]
  <2>1. request \in [Thread -> {IdleThread} \union Request]
    BY DEF IInv, TypeOK
  <2>2. ASSUME NEW u \in Thread, NEW r, request' = [request EXCEPT ![u] = r]
        PROVE  u = t /\ request'[t] = r
    BY <1>2, <2>1, <2>2
  <2>3. CASE \E c \in Code : PairRead(t, c)
    <3>1. PICK c \in Code : PairRead(t, c)
      BY <2>3
    <3>2. request'[t] = [op |-> "pair", code |-> c, now |-> clock]
      BY <2>2, <3>1 DEF PairRead, Begin
    <3>3. codes[c] # Absent /\ codes[c] \in PairingCode /\ clock < codes[c].expires_at
      BY <3>1, RowKinds, TimeAssumption
         DEF PairRead, Claimable, IInv, TypeOK, PairingCode, Time
    <3> QED  BY <3>1, <3>2, <3>3 DEF PairRead
  <2>4. CASE PairClaim(t)
    <3>1. request'[t] = [op |-> "claimed", code |-> request[t].code,
                         now |-> request[t].now, user |-> users > 0]
      BY <2>2, <2>4 DEF PairClaim, Continue
    <3> QED  BY <2>4, <3>1 DEF PairClaim, Pairing
  <2>5. ASSUME NEW u \in Thread,
               \/ \E c \in Code : PairRead(u, c)
               \/ PairClaim(u)
        PROVE  u = t
    BY <2>2, <2>5 DEF PairRead, PairClaim, Begin, Continue
  <2>6. ASSUME NEW u \in Thread,
               \/ PairRefused(u) \/ PairCommit(u) \/ PairAborts(u)
               \/ \E s \in Id : AuthenticateRead(u, s) \/ RevokeSessionRead(u, s)
               \/ AuthenticateWrite(u) \/ Answer(u) \/ Refuse(u) \/ Logout(u)
               \/ \E d \in Id : RevokeDeviceRead(u, d)
               \/ RevokeWrite(u)
        PROVE  FALSE
    <3>1. \E r : request' = [request EXCEPT ![u] = r] /\ r.op \notin {"pair", "claimed"}
      BY <2>6 DEF PairRefused, PairCommit, PairAborts, AuthenticateRead, RevokeSessionRead,
                  AuthenticateWrite, Answer, Refuse, Logout, RevokeDeviceRead, RevokeWrite,
                  Begin, Finish, Continue, IdleThread
    <3> QED  BY <2>2, <3>1 DEF Pairing
  <2> QED  BY <1>2, <2>3, <2>4, <2>5, <2>6 DEF Next, vars, Tick, CreatePairingCode
<1> QED  BY <1>1, <1>2

\* A session that is new is that of a pairing.
LEMMA NewSession ==
  ASSUME IInv, [Next]_vars, NEW s \in Id, sessions[s] = Absent, sessions'[s] # Absent
  PROVE  \E t \in Thread : /\ request[t].op = "claimed"
                           /\ sessions'[s].code = request[t].code
                           /\ sessions'[s].absolute_expires_at = request[t].now + AbsoluteTTL
<1>1. CASE \E t \in Thread : PairCommit(t)
  <2>1. PICK t \in Thread : PairCommit(t)
    BY <1>1
  <2> DEFINE r == request[t]
             row(d) == [row |-> "session", device |-> d, code |-> r.code,
                        idle_expires_at |-> r.now + IdleTTL,
                        absolute_expires_at |-> r.now + AbsoluteTTL, revoked |-> FALSE]
  <2>2. PICK next \in Id : sessions' = [sessions EXCEPT ![next] = row(next)]
    BY <2>1 DEF PairCommit
  <2>3. row(next).code = r.code /\ row(next).absolute_expires_at = r.now + AbsoluteTTL
    OBVIOUS
  <2> HIDE DEF row
  <2>4. sessions'[s] = row(next)
    BY <2>2 DEF IInv, TypeOK
  <2> QED  BY <2>1, <2>3, <2>4 DEF PairCommit
<1>2. ASSUME NEW t \in Thread, AuthenticateWrite(t) \/ RevokeWrite(t)
      PROVE  FALSE
  BY <1>2, RowsKeep
<1> QED  BY <1>1, <1>2
         DEF Next, vars, Tick, CreatePairingCode, PairRead, PairRefused, PairClaim, PairAborts,
             AuthenticateRead, Answer, Refuse, Logout, RevokeSessionRead, RevokeDeviceRead

\* A pairing under way looked at the clock before its code expired, and early enough
\* for its session to end within the bound.
PairingInTime(t) ==
  Pairing(t) => /\ codes[request[t].code] # Absent
                /\ request[t].now < codes[request[t].code].expires_at
                /\ request[t].now + AbsoluteTTL <= MaxTime

SessionInTime(s) ==
  sessions[s] # Absent =>
    /\ codes[sessions[s].code] # Absent
    /\ sessions[s].absolute_expires_at < codes[sessions[s].code].expires_at + AbsoluteTTL
    /\ sessions[s].absolute_expires_at <= MaxTime

LifeInv == /\ IInv
           /\ \A t \in Thread : PairingInTime(t)
           /\ \A s \in Id : SessionInTime(s)

LEMMA LifeInvHolds == Spec => []LifeInv
<1>1. Init => LifeInv
  <2> SUFFICES ASSUME Init PROVE LifeInv
    OBVIOUS
  <2>1. IInv
    BY InvariantHolds
  <2> QED  BY <2>1 DEF Init, LifeInv, PairingInTime, Pairing, SessionInTime, IdleThread
<1>2. LifeInv /\ [Next]_vars => LifeInv'
  <2> SUFFICES ASSUME LifeInv, [Next]_vars PROVE LifeInv'
    OBVIOUS
  <2>1. IInv /\ IInv'
    BY InvariantHolds DEF LifeInv
  <2>2. ASSUME NEW t \in Thread, Pairing(t)
        PROVE  request[t].code \in Code /\ request[t].now \in 0 .. MaxTime
    BY <2>1, <2>2, RequestKinds DEF IInv, Pairing, PairRequest, ClaimedRequest
  <2>3. ASSUME NEW t \in Thread
        PROVE  PairingInTime(t)'
    <3>1. SUFFICES ASSUME Pairing(t)'
                   PROVE  /\ codes'[request'[t].code] # Absent
                          /\ request'[t].now < codes'[request'[t].code].expires_at
                          /\ request'[t].now + AbsoluteTTL <= MaxTime
      BY DEF PairingInTime
    <3>2. CASE /\ Pairing(t)
               /\ request'[t].code = request[t].code /\ request'[t].now = request[t].now
      BY <2>1, <2>2, <3>2, RowsStand DEF LifeInv, PairingInTime
    <3>3. CASE /\ request'[t].code \in Code /\ request'[t].now = clock
               /\ codes[request'[t].code] # Absent
               /\ clock < codes[request'[t].code].expires_at
               /\ clock + AbsoluteTTL <= MaxTime
      BY <2>1, <3>3, RowsStand
    <3> QED  BY <2>1, <3>1, <3>2, <3>3, PairingsKeep
  <2>4. ASSUME NEW s \in Id
        PROVE  SessionInTime(s)'
    <3>1. CASE sessions[s] # Absent
      <4>1. sessions[s].code \in Code
        BY <2>1, <3>1, RowKinds DEF IInv, RuntimeSession
      <4> QED  BY <2>1, <3>1, <4>1, RowsStand DEF LifeInv, SessionInTime
    <3>2. CASE sessions[s] = Absent /\ sessions'[s] # Absent
      <4>1. PICK t \in Thread :
              /\ request[t].op = "claimed"
              /\ sessions'[s].code = request[t].code
              /\ sessions'[s].absolute_expires_at = request[t].now + AbsoluteTTL
        BY <2>1, <3>2, NewSession
      <4>2. /\ request[t].code \in Code /\ request[t].now \in 0 .. MaxTime
            /\ codes[request[t].code] # Absent
            /\ request[t].now < codes[request[t].code].expires_at
            /\ request[t].now + AbsoluteTTL <= MaxTime
        BY <2>2, <4>1 DEF LifeInv, PairingInTime, Pairing
      <4>3. codes[request[t].code].expires_at \in Int
        BY <2>1, <4>2, RowKinds, TimeAssumption DEF IInv, PairingCode, Time
      <4>4. request[t].now + AbsoluteTTL < codes[request[t].code].expires_at + AbsoluteTTL
        BY <4>2, <4>3, TimeAssumption
      <4> QED  BY <2>1, <4>1, <4>2, <4>4, RowsStand DEF SessionInTime
    <3> QED  BY <3>1, <3>2 DEF SessionInTime
  <2> QED  BY <2>1, <2>3, <2>4 DEF LifeInv
<1> QED  BY <1>1, <1>2, PTL DEF Spec

\* However long a pairing waits between the look at its code and the commit, its
\* session lasts no longer than if the code had been used at its last moment (pair).
THEOREM SessionsOutlastNoCode == Spec => []SessionWithinCode
<1>1. LifeInv => SessionWithinCode
  BY DEF LifeInv, SessionInTime, SessionWithinCode
<1> QED  BY <1>1, LifeInvHolds, PTL

\* A session whose absolute end has come is of no use ever again, whatever requests
\* that were let in before still write down (get_current_auth).
THEOREM ExpiredForGood ==
  ASSUME NEW s \in Id
  PROVE  Spec => [](sessions[s] # Absent /\ sessions[s].absolute_expires_at <= clock
                      => []~Usable(s))
<1> DEFINE Expired == sessions[s] # Absent /\ sessions[s].absolute_expires_at <= clock
<1>1. Init => IInv
  BY InvariantHolds
<1>2. IInv /\ [Next]_vars => IInv'
  BY InvariantHolds
<1>3. IInv /\ Expired => ~Usable(s)
  <2> SUFFICES ASSUME IInv, Expired, Usable(s) PROVE FALSE
    OBVIOUS
  <2>1. sessions[s].absolute_expires_at \in Int /\ clock \in Int
    BY RowKinds, TimeAssumption DEF IInv, TypeOK, RuntimeSession, Time
  <2> QED  BY <2>1 DEF Usable
<1>4. IInv /\ Expired /\ [Next]_vars => Expired'
  <2> SUFFICES ASSUME IInv, Expired, [Next]_vars PROVE Expired'
    OBVIOUS
  <2>1. clock' \in {clock, clock + 1}
    BY DEF Next, vars, Tick, CreatePairingCode, PairRead, PairRefused, PairClaim, PairCommit,
           PairAborts, AuthenticateRead, AuthenticateWrite, Answer, Refuse, Logout,
           RevokeSessionRead, RevokeDeviceRead, RevokeWrite
  <2>2. sessions[s].absolute_expires_at \in Int /\ clock \in Int
    BY RowKinds, TimeAssumption DEF IInv, TypeOK, RuntimeSession, Time
  <2> QED  BY <2>1, <2>2, RowsStand
<1> HIDE DEF Expired
<1>5. Spec => [](Expired => []~Usable(s))
  BY <1>1, <1>2, <1>3, <1>4, PTL DEF Spec
<1> QED  BY <1>5 DEF Expired

\* Once the last tick has come, every session has ended: all that the liveness of
\* SessionsEnd needs of the fairness is that time passes.
THEOREM TimeEndsSessions == Spec /\ <>(clock = MaxTime) => SessionsEnd
<1> DEFINE Over == clock = MaxTime
           AllOut == \A s \in Id : ~Usable(s)
<1>1. LifeInv /\ Over => AllOut
  <2> SUFFICES ASSUME LifeInv, clock = MaxTime, NEW s \in Id, Usable(s) PROVE FALSE
    OBVIOUS
  <2>1. sessions[s].absolute_expires_at \in Int
    BY RowKinds, TimeAssumption DEF LifeInv, IInv, Usable, RuntimeSession, Time
  <2> QED  BY <2>1, TimeAssumption DEF Usable, LifeInv, SessionInTime
<1>2. LifeInv /\ Over /\ [Next]_vars => Over'
  <2> SUFFICES ASSUME LifeInv, clock = MaxTime, [Next]_vars PROVE clock' = MaxTime
    OBVIOUS
  <2>1. ~Tick
    BY TimeAssumption DEF Tick
  <2> QED  BY <2>1
           DEF Next, vars, CreatePairingCode, PairRead, PairRefused, PairClaim, PairCommit,
               PairAborts, AuthenticateRead, AuthenticateWrite, Answer, Refuse, Logout,
               RevokeSessionRead, RevokeDeviceRead, RevokeWrite
<1> HIDE DEF Over, AllOut
<1>3. Spec /\ <>Over => <>[]AllOut
  BY <1>1, <1>2, LifeInvHolds, PTL DEF Spec
<1> QED  BY <1>3 DEF Over, AllOut, SessionsEnd

=============================================================================
