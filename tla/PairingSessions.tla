--------------------------- MODULE PairingSessions ---------------------------
(***************************************************************************)
(* How a browser gets in and is put out: pairing codes issued by the       *)
(* command line (cli.py), POST /auth/pair that turns a code into a device  *)
(* and a session, the check that every other request passes first          *)
(* (get_current_auth), and logout and the revocations (auth.py,            *)
(* devices.py).                                                            *)
(*                                                                         *)
(* Requests run on the threads of a pool, each with a database session of  *)
(* its own: what it reads and what it commits are separate steps.  The     *)
(* UPDATE that claims a code takes SQLite's write lock and keeps it until  *)
(* the pairing commits or rolls back.                                      *)
(*                                                                         *)
(* A definition introduced by "Variant" is a mistake one could make in the *)
(* code it stands before; no specification uses it.                        *)
(***************************************************************************)
EXTENDS Naturals, FiniteSets

CONSTANTS Thread,        \* threads of the server's pool: requests in flight
          Code,          \* bound: the codes that may be generated
          CodeTTL,       \* PAIRING_CODE_TTL, in ticks
          IdleTTL,       \* SESSION_IDLE_TTL
          AbsoluteTTL,   \* SESSION_ABSOLUTE_TTL
          MaxTime        \* bound: the last tick

ASSUME TimeAssumption == /\ CodeTTL \in Nat \ {0} /\ IdleTTL \in Nat \ {0}
                         /\ AbsoluteTTL \in Nat /\ IdleTTL <= AbsoluteTTL /\ MaxTime \in Nat

VARIABLES clock,
          codes,         \* codes[c]: the PairingCode row with this code
          sessions,      \* sessions[s]: the s-th RuntimeSession
          devices,       \* devices[d]: the d-th Device
          users,         \* LocalUser rows
          writer,        \* the thread that holds the write lock
          request        \* request[t]: what thread t has read and not yet written

vars == <<clock, codes, sessions, devices, users, writer, request>>

-----------------------------------------------------------------------------
(* Types *)

Time == 0 .. MaxTime + AbsoluteTTL + IdleTTL + CodeTTL
Id == 1 .. Cardinality(Code)      \* a code makes a device and its session

Absent == [row |-> "absent"]
PairingCode == [row : {"code"}, expires_at : Time, used : BOOLEAN]
RuntimeSession == [row : {"session"}, device : Id, code : Code,
                   idle_expires_at : Time, absolute_expires_at : Time, revoked : BOOLEAN]

NoThread == "none"
ASSUME ThreadAssumption == NoThread \notin Thread

IdleThread == [op |-> "idle"]
PairRequest == [op : {"pair"}, code : Code, now : 0 .. MaxTime]
ClaimedRequest == [op : {"claimed"}, code : Code, now : 0 .. MaxTime, user : BOOLEAN]
AuthenticateRequest == [op : {"authenticate"}, session : Id, now : 0 .. MaxTime, absolute : Time]
AuthenticatedRequest == [op : {"authenticated"}, session : Id]
RevokeRequest == [op : {"revoke"}, sessions : SUBSET Id, devices : SUBSET Id]
Request == PairRequest \union ClaimedRequest \union AuthenticateRequest
             \union AuthenticatedRequest \union RevokeRequest

\* The types of the rows and of what the threads have read; and a session may
\* not be idle for longer than it may last.
TypeOK == /\ clock \in 0 .. MaxTime
          /\ codes \in [Code -> {Absent} \union PairingCode]
          /\ sessions \in [Id -> {Absent} \union RuntimeSession]
          /\ \A s \in Id : sessions[s] # Absent =>
               sessions[s].idle_expires_at <= sessions[s].absolute_expires_at
          /\ devices \in [Id -> {"absent", "active", "revoked"}]
          /\ users \in Nat
          /\ writer \in Thread \union {NoThread}
          /\ request \in [Thread -> {IdleThread} \union Request]

Init == /\ clock = 0
        /\ codes = [c \in Code |-> Absent]
        /\ sessions = [s \in Id |-> Absent]
        /\ devices = [d \in Id |-> "absent"]
        /\ users = 0
        /\ writer = NoThread
        /\ request = [t \in Thread |-> IdleThread]

Begin(t, r) == request[t] = IdleThread /\ request' = [request EXCEPT ![t] = r]
Continue(t, r) == request' = [request EXCEPT ![t] = r]
Finish(t) == Continue(t, IdleThread)
Unlocked == writer = NoThread

-----------------------------------------------------------------------------
(* Pairing *)

\* aidp-server auth pairing-code: a code that is taken is generated anew.
CreatePairingCode(c) ==
  /\ codes[c] = Absent /\ Unlocked
  /\ codes' = [codes EXCEPT ![c] = [row |-> "code", expires_at |-> clock + CodeTTL,
                                    used |-> FALSE]]
  /\ UNCHANGED <<clock, sessions, devices, users, writer, request>>

\* A code that can be claimed by a request that looked at the clock at now.
Claimable(c, now) == codes[c] # Absent /\ ~codes[c].used /\ codes[c].expires_at > now

\* The bound lets no session outlast the clock.
PairRead(t, c) ==
  /\ Claimable(c, clock)
  /\ clock + AbsoluteTTL <= MaxTime
  /\ Begin(t, [op |-> "pair", code |-> c, now |-> clock])
  /\ UNCHANGED <<clock, codes, sessions, devices, users, writer>>

\* Variant: the UPDATE does not look at used_at again.
PairClaimBlindly(t) ==
  LET r == request[t]
  IN  /\ r.op = "pair" /\ Unlocked
      /\ codes' = [codes EXCEPT ![r.code].used = TRUE]
      /\ writer' = t
      /\ Continue(t, [op |-> "claimed", code |-> r.code, now |-> r.now, user |-> users > 0])
      /\ UNCHANGED <<clock, sessions, devices, users>>

\* Variant: the UPDATE is committed at once, and lets the lock go.
PairClaimCommits(t) ==
  LET r == request[t]
  IN  /\ r.op = "pair" /\ Unlocked /\ Claimable(r.code, r.now)
      /\ codes' = [codes EXCEPT ![r.code].used = TRUE]
      /\ Continue(t, [op |-> "claimed", code |-> r.code, now |-> r.now, user |-> users > 0])
      /\ UNCHANGED <<clock, sessions, devices, users, writer>>

\* The conditional UPDATE, and the user's row looked up under its lock.
PairClaim(t) ==
  LET r == request[t]
  IN  /\ r.op = "pair" /\ Unlocked /\ Claimable(r.code, r.now)
      /\ codes' = [codes EXCEPT ![r.code].used = TRUE]
      /\ writer' = t
      /\ Continue(t, [op |-> "claimed", code |-> r.code, now |-> r.now, user |-> users > 0])
      /\ UNCHANGED <<clock, sessions, devices, users>>

\* A rowcount of zero, or a lock that is not had in time.
PairRefused(t) == /\ request[t].op = "pair"
                  /\ ~Claimable(request[t].code, request[t].now) \/ ~Unlocked
                  /\ Finish(t)
                  /\ UNCHANGED <<clock, codes, sessions, devices, users, writer>>

\* Variant: the session's life counts from its commit, not from the moment at
\* which the code was still good.
PairCommitLate(t) ==
  LET r == request[t]
      row(d) == [row |-> "session", device |-> d, code |-> r.code,
                 idle_expires_at |-> clock + IdleTTL,
                 absolute_expires_at |-> clock + AbsoluteTTL, revoked |-> FALSE]
  IN  /\ r.op = "claimed"
      /\ \E next \in Id : /\ sessions[next] = Absent
                          /\ \A i \in 1 .. next - 1 : sessions[i] # Absent
                          /\ devices' = [devices EXCEPT ![next] = "active"]
                          /\ sessions' = [sessions EXCEPT ![next] = row(next)]
      /\ users' = IF r.user THEN users ELSE users + 1
      /\ writer' = IF writer = t THEN NoThread ELSE writer
      /\ Finish(t)
      /\ UNCHANGED <<clock, codes>>

\* The local user, a device of its own and the session, in one commit.
PairCommit(t) ==
  LET r == request[t]
      row(d) == [row |-> "session", device |-> d, code |-> r.code,
                 idle_expires_at |-> r.now + IdleTTL,
                 absolute_expires_at |-> r.now + AbsoluteTTL, revoked |-> FALSE]
  IN  /\ r.op = "claimed"
      /\ \E next \in Id : /\ sessions[next] = Absent
                          /\ \A i \in 1 .. next - 1 : sessions[i] # Absent
                          /\ devices' = [devices EXCEPT ![next] = "active"]
                          /\ sessions' = [sessions EXCEPT ![next] = row(next)]
      /\ users' = IF r.user THEN users ELSE users + 1
      /\ writer' = IF writer = t THEN NoThread ELSE writer
      /\ Finish(t)
      /\ UNCHANGED <<clock, codes>>

\* The pairing raises, or the server stops, before the commit: what the open
\* transaction has written is gone.
PairAborts(t) ==
  LET r == request[t]
  IN  /\ r.op = "claimed"
      /\ codes' = IF writer = t THEN [codes EXCEPT ![r.code].used = FALSE] ELSE codes
      /\ writer' = IF writer = t THEN NoThread ELSE writer
      /\ Finish(t)
      /\ UNCHANGED <<clock, sessions, devices, users>>

-----------------------------------------------------------------------------
(* Authenticated requests *)

Usable(s) == /\ sessions[s] # Absent /\ ~sessions[s].revoked
             /\ sessions[s].idle_expires_at > clock
             /\ sessions[s].absolute_expires_at > clock
             /\ devices[sessions[s].device] # "revoked"

Earlier(a, b) == IF a < b THEN a ELSE b

AuthenticateRead(t, s) ==
  /\ Usable(s)
  /\ Begin(t, [op |-> "authenticate", session |-> s, now |-> clock,
               absolute |-> sessions[s].absolute_expires_at])
  /\ UNCHANGED <<clock, codes, sessions, devices, users, writer>>

\* Variant: the whole row is written back as it was read.
AuthenticateWriteRow(t) ==
  LET r == request[t]
  IN  /\ r.op = "authenticate" /\ Unlocked
      /\ sessions' = [sessions EXCEPT
           ![r.session].idle_expires_at = Earlier(r.now + IdleTTL, r.absolute),
           ![r.session].revoked = FALSE]
      /\ Continue(t, [op |-> "authenticated", session |-> r.session])
      /\ UNCHANGED <<clock, codes, devices, users, writer>>

\* Variant: the idle time is not cut short.
AuthenticateUncapped(t) ==
  LET r == request[t]
  IN  /\ r.op = "authenticate" /\ Unlocked
      /\ sessions' = [sessions EXCEPT ![r.session].idle_expires_at = r.now + IdleTTL]
      /\ Continue(t, [op |-> "authenticated", session |-> r.session])
      /\ UNCHANGED <<clock, codes, devices, users, writer>>

\* Variant: a use of the session moves both of its ends.
AuthenticateSlides(t) ==
  LET r == request[t]
  IN  /\ r.op = "authenticate" /\ Unlocked
      /\ sessions' = [sessions EXCEPT
           ![r.session].idle_expires_at = r.now + IdleTTL,
           ![r.session].absolute_expires_at = r.now + AbsoluteTTL]
      /\ Continue(t, [op |-> "authenticated", session |-> r.session])
      /\ UNCHANGED <<clock, codes, devices, users, writer>>

\* last_seen_at and idle_expires_at are written, and nothing else of the row.
AuthenticateWrite(t) ==
  LET r == request[t]
  IN  /\ r.op = "authenticate" /\ Unlocked
      /\ sessions' = [sessions EXCEPT
           ![r.session].idle_expires_at = Earlier(r.now + IdleTTL, r.absolute)]
      /\ Continue(t, [op |-> "authenticated", session |-> r.session])
      /\ UNCHANGED <<clock, codes, devices, users, writer>>

\* A handler that only reads, or that writes what is not modelled here.
Answer(t) == /\ request[t].op = "authenticated"
             /\ Finish(t)
             /\ UNCHANGED <<clock, codes, sessions, devices, users, writer>>

\* A request that waits too long for the lock.
Refuse(t) == /\ request[t].op \in {"authenticate", "revoke"} /\ ~Unlocked
             /\ Finish(t)
             /\ UNCHANGED <<clock, codes, sessions, devices, users, writer>>

-----------------------------------------------------------------------------
(* Logout and revocations *)

Logout(t) ==
  LET r == request[t]
  IN  /\ r.op = "authenticated"
      /\ Continue(t, [op |-> "revoke", sessions |-> {r.session}, devices |-> {}])
      /\ UNCHANGED <<clock, codes, sessions, devices, users, writer>>

\* The request's own session is the row it has loaded, revoked since or not.
RevokeSessionRead(t, s) ==
  LET r == request[t]
  IN  /\ r.op = "authenticated" /\ sessions[s] # Absent
      /\ s = r.session \/ ~sessions[s].revoked
      /\ Continue(t, [op |-> "revoke", sessions |-> {s}, devices |-> {}])
      /\ UNCHANGED <<clock, codes, sessions, devices, users, writer>>

SessionsOf(d) == {s \in Id : sessions[s] # Absent /\ sessions[s].device = d}

\* Variant: only the session that asks is revoked with the device.
RevokeDeviceReadOwn(t, d) ==
  LET r == request[t]
  IN  /\ r.op = "authenticated" /\ devices[d] # "absent"
      /\ Continue(t, [op |-> "revoke", sessions |-> SessionsOf(d) \intersect {r.session},
                      devices |-> {d}])
      /\ UNCHANGED <<clock, codes, sessions, devices, users, writer>>

RevokeDeviceRead(t, d) ==
  LET r == request[t]
  IN  /\ r.op = "authenticated" /\ devices[d] # "absent"
      /\ Continue(t, [op |-> "revoke",
                      sessions |-> {s \in SessionsOf(d) : ~sessions[s].revoked},
                      devices |-> {d}])
      /\ UNCHANGED <<clock, codes, sessions, devices, users, writer>>

RevokeWrite(t) ==
  LET r == request[t]
  IN  /\ r.op = "revoke" /\ Unlocked
      /\ sessions' = [s \in Id |-> IF s \in r.sessions
                                   THEN [sessions[s] EXCEPT !.revoked = TRUE] ELSE sessions[s]]
      /\ devices' = [d \in Id |-> IF d \in r.devices THEN "revoked" ELSE devices[d]]
      /\ Finish(t)
      /\ UNCHANGED <<clock, codes, users, writer>>

-----------------------------------------------------------------------------
Tick == /\ clock < MaxTime
        /\ clock' = clock + 1
        /\ UNCHANGED <<codes, sessions, devices, users, writer, request>>

Next == \/ Tick
        \/ \E c \in Code : CreatePairingCode(c)
        \/ \E t \in Thread :
             \/ \E c \in Code : PairRead(t, c)
             \/ PairClaim(t)
             \/ PairRefused(t)
             \/ PairCommit(t)
             \/ PairAborts(t)
             \/ \E s \in Id : AuthenticateRead(t, s) \/ RevokeSessionRead(t, s)
             \/ AuthenticateWrite(t)
             \/ Answer(t)
             \/ Refuse(t)
             \/ Logout(t)
             \/ \E d \in Id : RevokeDeviceRead(t, d)
             \/ RevokeWrite(t)

\* Time passes; nobody has to use a session or to end one.
Spec == Init /\ [][Next]_vars /\ WF_vars(Tick)

-----------------------------------------------------------------------------
(* Properties *)

\* A used code stands for one session, never for two and never for none:
\* concurrent pairings with one code leave one winner, and a pairing that
\* fails half-way leaves the code as it was (pair).  The rows of the pairing
\* that holds the lock are not committed yet.
UsedCodeHasOneSession ==
  \A c \in Code : codes[c] # Absent /\ codes[c].used =>
    \/ \E t \in Thread : writer = t /\ request[t].op = "claimed" /\ request[t].code = c
    \/ Cardinality({s \in Id : sessions[s] # Absent /\ sessions[s].code = c}) = 1

\* However many browsers pair at first, and at the same time, there is one
\* local user: no UNIQUE constraint says so, only the order in which pair
\* claims its code and then asks for the user (ensure_local_user).
OneLocalUser == users <= 1

\* A device that is revoked has no session left that is not.
RevokedDeviceHasNoSession ==
  \A s \in Id : sessions[s] # Absent /\ devices[sessions[s].device] = "revoked"
                  => sessions[s].revoked

\* A session's life counts from a moment at which its code was still good, also
\* when the pairing had to wait for the lock and the code has expired since: a
\* code never buys more than its own lifetime and one session's (pair).
SessionWithinCode ==
  \A s \in Id : sessions[s] # Absent =>
    sessions[s].absolute_expires_at < codes[sessions[s].code].expires_at + AbsoluteTTL

\* A session that is revoked stays so, also when a request that was let in
\* before writes down that it was seen (get_current_auth).
RevokedSessionStays ==
  [][\A s \in Id : sessions[s] # Absent /\ sessions[s].revoked => sessions'[s].revoked]_vars

\* No use of a session keeps it alive for ever.
SessionsEnd == <>[](\A s \in Id : ~Usable(s))

=============================================================================
