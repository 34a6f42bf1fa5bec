---------------------------- MODULE WebSessions ----------------------------
(***************************************************************************)
(* Operator API keys and the browser sessions exchanged for them: login,   *)
(* page requests with their conditional touch, changes made under the      *)
(* session lock, logout, and the command line that issues, rotates and     *)
(* revokes keys.                                                           *)
(*                                                                         *)
(* Every transaction compares rows with a time read BEFORE it waits for    *)
(* its locks, so each process keeps that time. Row locks are not variables: *)
(* who holds one follows from where the processes are.                     *)
(***************************************************************************)
EXTENDS Integers

CONSTANTS
  Keys,          \* operator API keys that may be issued
  Owner,         \* the operator each key belongs to
  Sessions,      \* browser sessions that may be created
  Requests,      \* dashboard requests under way
  Commands,      \* administrative commands under way
  NoKey,         \* not a key
  NoSession,     \* not a session
  FirstKey,      \* the key issued at first
  Expiries,      \* ends that keys may be given, Never among them
  IdleTicks,     \* web_session_idle_seconds
  AbsoluteTicks, \* web_session_absolute_seconds
  TouchTicks,    \* web_session_touch_interval_seconds
  MaxTime        \* bound: the clock stops there

None == -1                              \* SQL NULL in revoked_at
Never == MaxTime + AbsoluteTicks + 1    \* SQL NULL in expires_at: later than all
Times == 0..Never

ASSUME SessionsAssumption ==
  /\ FirstKey \in Keys /\ NoKey \notin Keys /\ NoSession \notin Sessions
  /\ Requests \cap Commands = {}
  /\ Expiries \subseteq Times
  /\ IdleTicks \in Nat /\ AbsoluteTicks \in Nat /\ MaxTime \in Nat
  /\ TouchTicks \in 1..IdleTicks /\ IdleTicks <= AbsoluteTicks

VARIABLES
  now,      \* the wall clock
  key,      \* operator_api_keys
  session,  \* operator_web_sessions
  process,  \* where each request and command is
  served    \* history: the time of the last page answered to each session

vars == <<now, key, session, process, served>>

-----------------------------------------------------------------------------
(* Rows *)

Processes == Requests \cup Commands

Earlier(a, b) == IF a <= b THEN a ELSE b
Later(a, b) == IF a >= b THEN a ELSE b

Unissued == [issued |-> FALSE, expires |-> 0, revoked |-> None]
Issued(expires) == [issued |-> TRUE, expires |-> expires, revoked |-> None]

NotStored == [key |-> NoKey, created |-> 0, seen |-> 0, idle |-> 0, absolute |-> 0, revoked |-> None]

Idle == [pc |-> "idle", at |-> 0, key |-> NoKey, session |-> NoSession]

ProcessStates ==
  {"idle", "login", "insert", "touch", "authenticated", "change", "changing", "logout",
   "revoke", "revoking", "rotate", "rotating"}

Stored(s) == session[s].key # NoKey

KeyUsable(k, at) == key[k].issued /\ key[k].revoked = None /\ key[k].expires > at

\* The lifecycle part of every check of a session.
Usable(s, at) ==
  /\ Stored(s) /\ session[s].revoked = None
  /\ session[s].idle > at /\ session[s].absolute > at

-----------------------------------------------------------------------------
(* Row locks, held until the transaction of the process ends *)

KeyLocked(k) == \E p \in Processes : process[p].pc \in {"insert", "revoking", "rotating"} /\ process[p].key = k

SessionLocked(s) == \E p \in Processes : process[p].pc = "changing" /\ process[p].session = s

\* A change locks the operator's row, which a foreign key on it waits for.
OperatorLocked(o) ==
  \E p \in Processes : process[p].pc = "changing" /\ Owner[session[process[p].session].key] = o

At(p, pc) == process[p].pc = pc
Goto(p, pc) == process' = [process EXCEPT ![p].pc = pc]
GotoNow(p, pc) == process' = [process EXCEPT ![p].pc = pc, ![p].at = now]
Start(p, pc, k, s) ==
  /\ At(p, "idle")
  /\ process' = [process EXCEPT ![p] = [pc |-> pc, at |-> now, key |-> k, session |-> s]]
Done(p) == process' = [process EXCEPT ![p] = Idle]

-----------------------------------------------------------------------------
(* Login *)

\* The credential passed the limiter and the clock was read.
BeginLogin(p, k) ==
  /\ key[k].issued /\ Start(p, "login", k, NoSession)
  /\ UNCHANGED <<now, key, session, served>>

\* Fault: the key is read without a lock.
ReadKeyForLogin(p) ==
  LET k == process[p].key IN
  /\ At(p, "login")
  /\ IF KeyUsable(k, process[p].at) THEN Goto(p, "insert") ELSE Done(p)
  /\ UNCHANGED <<now, key, session, served>>

\* SELECT .. FOR UPDATE of the key, then the checks on what the lock found.
LockKeyForLogin(p) ==
  LET k == process[p].key IN
  /\ At(p, "login") /\ ~KeyLocked(k)
  /\ IF KeyUsable(k, process[p].at) THEN Goto(p, "insert") ELSE Done(p)
  /\ UNCHANGED <<now, key, session, served>>

\* The lifetime ends with the key that it was exchanged for.
AbsoluteEnd(k, at) == Earlier(at + AbsoluteTicks, key[k].expires)

InsertSession(p, s) ==
  LET at == process[p].at
      end == AbsoluteEnd(process[p].key, at)
  IN
  /\ At(p, "insert") /\ ~Stored(s)
  /\ ~OperatorLocked(Owner[process[p].key])
  /\ session' = [session EXCEPT ![s] =
       [key |-> process[p].key, created |-> at, seen |-> at,
        idle |-> Earlier(at + IdleTicks, end), absolute |-> end, revoked |-> None]]
  /\ served' = [served EXCEPT ![s] = at]
  /\ Done(p) /\ UNCHANGED <<now, key>>

-----------------------------------------------------------------------------
(* Pages *)

TouchDue(s, at) == session[s].seen + TouchTicks <= at

Answer(p, s, at) == served' = [served EXCEPT ![s] = Later(@, at)] /\ Done(p)

\* One transaction reads the session; when no touch is due it ends there.
OpenPage(p, s) ==
  /\ Usable(s, now)
  /\ \/ TouchDue(s, now) /\ Start(p, "touch", NoKey, s) /\ UNCHANGED served
     \/ /\ ~TouchDue(s, now) /\ At(p, "idle")
        /\ Answer(p, s, now)
  /\ UNCHANGED <<now, key, session>>

\* Fault: the row read before is written back.
WrittenBack(s, at) ==
  [session[s] EXCEPT !.seen = at, !.idle = Earlier(session[s].absolute, at + IdleTicks)]

\* The conditional UPDATE sees the row as it is when its lock is free, and the
\* page is answered whether or not it matched.
Touched(s, at) ==
  IF Usable(s, at) /\ TouchDue(s, at)
  THEN [session[s] EXCEPT !.seen = Later(@, at),
          !.idle = Earlier(session[s].absolute, Later(session[s].idle, at + IdleTicks))]
  ELSE session[s]

Touch(p) ==
  LET s == process[p].session IN
  /\ At(p, "touch") /\ ~SessionLocked(s)
  /\ session' = [session EXCEPT ![s] = Touched(s, process[p].at)]
  /\ Answer(p, s, process[p].at)
  /\ UNCHANGED <<now, key>>

-----------------------------------------------------------------------------
(* Changes and logout *)

\* The first transaction of an unsafe request checks the session without a touch.
Authenticate(p, s) ==
  /\ Usable(s, now) /\ At(p, "idle")
  /\ process' = [process EXCEPT ![p] = [pc |-> "authenticated", at |-> 0, key |-> NoKey, session |-> s]]
  /\ UNCHANGED <<now, key, session, served>>

\* Origin and form accepted, the clock is read for the second transaction.
BeginChange(p) ==
  /\ At(p, "authenticated") /\ GotoNow(p, "change")
  /\ UNCHANGED <<now, key, session, served>>

\* Fault: the session was checked before, so it is only locked.
LockSessionOnly(p) ==
  LET s == process[p].session IN
  /\ At(p, "change") /\ ~SessionLocked(s) /\ ~OperatorLocked(Owner[session[s].key])
  /\ Goto(p, "changing")
  /\ UNCHANGED <<now, key, session, served>>

\* lock_web_session_for_mutation: lock session and operator, check again.
LockSession(p) ==
  LET s == process[p].session IN
  /\ At(p, "change") /\ ~SessionLocked(s) /\ ~OperatorLocked(Owner[session[s].key])
  /\ IF Usable(s, process[p].at) THEN Goto(p, "changing") ELSE Done(p)
  /\ UNCHANGED <<now, key, session, served>>

\* The transition or comment is committed and the locks are released.
CommitChange(p) ==
  /\ At(p, "changing") /\ Done(p)
  /\ UNCHANGED <<now, key, session, served>>

BeginLogout(p) ==
  /\ At(p, "authenticated") /\ GotoNow(p, "logout")
  /\ UNCHANGED <<now, key, session, served>>

\* Logout asks only that the session is not yet revoked.
Logout(p) ==
  LET s == process[p].session IN
  /\ At(p, "logout") /\ ~SessionLocked(s)
  /\ session' = [session EXCEPT ![s].revoked = IF @ = None THEN process[p].at ELSE @]
  /\ Done(p) /\ UNCHANGED <<now, key, served>>

-----------------------------------------------------------------------------
(* Keys *)

IssueKey(k, expires) ==
  /\ ~key[k].issued /\ expires > now
  /\ ~OperatorLocked(Owner[k])
  /\ key' = [key EXCEPT ![k] = Issued(expires)]
  /\ UNCHANGED <<now, session, process, served>>

BeginRevoke(p, k) ==
  /\ key[k].issued /\ Start(p, "revoke", k, NoSession)
  /\ UNCHANGED <<now, key, session, served>>

BeginRotate(p, k) ==
  /\ key[k].issued /\ Start(p, "rotate", k, NoSession)
  /\ UNCHANGED <<now, key, session, served>>

\* SELECT .. FOR UPDATE of the key; a key that is revoked already ends the command.
LockKey(p) ==
  LET k == process[p].key IN
  /\ process[p].pc \in {"revoke", "rotate"} /\ ~KeyLocked(k)
  /\ IF key[k].revoked # None THEN Done(p)
     ELSE Goto(p, IF At(p, "revoke") THEN "revoking" ELSE "rotating")
  /\ UNCHANGED <<now, key, session, served>>

OfKey(k) == {s \in Sessions : session[s].key = k /\ session[s].revoked = None}

\* The UPDATE of the sessions waits for the lock of each of them.
SessionsFree(k) == \A s \in OfKey(k) : ~SessionLocked(s)

\* revoked_at >= created_at, a CHECK constraint of the table.
RevocationFits(k, at) == \A s \in OfKey(k) : session[s].created <= at

RevokeSessions(k, at) ==
  session' = [s \in Sessions |-> IF s \in OfKey(k) THEN [session[s] EXCEPT !.revoked = at] ELSE session[s]]

\* The transaction commits, unless the constraint refuses it as a whole.
Revoke(p) ==
  LET k == process[p].key IN
  /\ At(p, "revoking") /\ SessionsFree(k)
  /\ IF RevocationFits(k, process[p].at)
     THEN /\ key' = [key EXCEPT ![k].revoked = process[p].at]
          /\ RevokeSessions(k, process[p].at)
     ELSE UNCHANGED <<key, session>>
  /\ Done(p) /\ UNCHANGED <<now, served>>

\* The replacement keeps the expiry or is given a date; either must lie ahead.
Rotate(p, new, expires) ==
  LET k == process[p].key  at == process[p].at IN
  /\ At(p, "rotating") /\ SessionsFree(k) /\ ~OperatorLocked(Owner[k])
  /\ ~key[new].issued /\ Owner[new] = Owner[k]
  /\ expires # Never \/ key[k].expires = Never
  /\ IF expires > at /\ RevocationFits(k, at)
     THEN /\ key' = [key EXCEPT ![k].revoked = at, ![new] = Issued(expires)]
          /\ RevokeSessions(k, at)
     ELSE UNCHANGED <<key, session>>
  /\ Done(p) /\ UNCHANGED <<now, served>>

-----------------------------------------------------------------------------
(* Environment *)

\* A failing database or a stopped process rolls its transaction back.
RollBack(p) ==
  /\ ~At(p, "idle") /\ Done(p)
  /\ UNCHANGED <<now, key, session, served>>

Tick == now < MaxTime /\ now' = now + 1 /\ UNCHANGED <<key, session, process, served>>

Init ==
  /\ now = 0
  /\ key \in {[k \in Keys |-> IF k = FirstKey THEN Issued(e) ELSE Unissued] : e \in Expiries}
  /\ session = [s \in Sessions |-> NotStored]
  /\ process = [p \in Processes |-> Idle]
  /\ served = [s \in Sessions |-> 0]

RequestStep(p) ==
  \/ \E k \in Keys : BeginLogin(p, k)
  \/ LockKeyForLogin(p)
  \/ \E s \in Sessions : InsertSession(p, s) \/ OpenPage(p, s) \/ Authenticate(p, s)
  \/ Touch(p)
  \/ BeginChange(p) \/ LockSession(p) \/ CommitChange(p)
  \/ BeginLogout(p) \/ Logout(p)

CommandStep(p) ==
  \/ \E k \in Keys : BeginRevoke(p, k) \/ BeginRotate(p, k)
  \/ LockKey(p)
  \/ Revoke(p)
  \/ \E k \in Keys, t \in Expiries : Rotate(p, k, t)

Next ==
  \/ Tick
  \/ \E k \in Keys, t \in Expiries : IssueKey(k, t)
  \/ \E p \in Requests : RequestStep(p)
  \/ \E p \in Commands : CommandStep(p)
  \/ \E p \in Processes : RollBack(p)

Spec == Init /\ [][Next]_vars

-----------------------------------------------------------------------------
(* Properties *)

KeyType == [issued: BOOLEAN, expires: Times, revoked: Times \cup {None}]

SessionType ==
  [key: Keys \cup {NoKey}, created: Times, seen: Times, idle: Times, absolute: Times,
   revoked: Times \cup {None}]

ProcessType ==
  [pc: ProcessStates, at: 0..MaxTime, key: Keys \cup {NoKey}, session: Sessions \cup {NoSession}]

\* No statement is refused by the CHECK constraints on the times of a session.
SessionTimes(row) ==
  /\ row.created <= row.seen /\ row.seen < row.idle
  /\ row.idle <= row.absolute /\ row.created < row.absolute
  /\ row.revoked = None \/ row.revoked >= row.created

TypeOK ==
  /\ now \in 0..MaxTime
  /\ key \in [Keys -> KeyType]
  /\ session \in [Sessions -> SessionType]
  /\ process \in [Processes -> ProcessType]
  /\ served \in [Sessions -> Times]
  /\ \A s \in Sessions : Stored(s) => SessionTimes(session[s])

\* A browser session that would be accepted now was exchanged for a key that
\* would be accepted now: no login slips past a revocation or rotation that runs
\* at the same time, and no touch outlives the key.
NoSessionOutlivesItsKey == \A s \in Sessions : Usable(s, now) => KeyUsable(session[s].key, now)

\* Whoever opens pages more often than the idle time less one touch interval
\* stays signed in until the absolute end: requests that touch the session out
\* of order never shorten it.
StaysSignedIn ==
  \A s \in Sessions :
    Stored(s) /\ session[s].revoked = None =>
      session[s].idle >= Earlier(session[s].absolute, served[s] + IdleTicks - TouchTicks + 1)

\* While a change is made under a session, neither a logout nor the revocation of
\* its key is committed: a change takes effect before it or not at all.
ChangeUnderLiveSession ==
  \A p \in Processes :
    At(p, "changing") =>
      LET s == process[p].session IN
      session[s].revoked = None /\ key[session[s].key].revoked = None

\* Why: a process that holds a key lock holds it on a live key, one that holds a
\* session lock on a live session; a time that was read is not in the future and
\* suits the session that the process is about.
ProcessSound(u) ==
  /\ u.at <= now
  /\ u.pc \in {"login", "insert", "revoke", "revoking", "rotate", "rotating"} =>
       u.key \in Keys /\ key[u.key].issued
  /\ u.pc \in {"insert", "revoking", "rotating"} => key[u.key].revoked = None
  /\ u.pc = "insert" => u.at < key[u.key].expires
  /\ u.pc \in {"touch", "authenticated", "change", "changing", "logout"} =>
       u.session \in Sessions /\ Stored(u.session)
  /\ u.pc = "changing" => session[u.session].revoked = None
  /\ u.pc = "logout" => session[u.session].created <= u.at
  /\ u.pc = "touch" => u.at < session[u.session].idle /\ u.at < session[u.session].absolute

\* Row locks exclude each other.
Exclusive(u, v) ==
  /\ u.pc \in {"insert", "revoking", "rotating"} /\ v.pc \in {"insert", "revoking", "rotating"} =>
       u.key # v.key
  /\ u.pc = "changing" /\ v.pc = "changing" => u.session # v.session

\* A live session belongs to a live key and ends with it; its idle end is that of
\* its last touch.
SessionSound(row) ==
  row.key # NoKey =>
    /\ row.created <= now
    /\ row.revoked = None =>
         /\ key[row.key].issued /\ key[row.key].revoked = None
         /\ row.absolute <= key[row.key].expires
         /\ row.idle >= Earlier(row.absolute, row.seen + IdleTicks)

\* The inductive invariant.
IndInv ==
  /\ TypeOK /\ StaysSignedIn
  /\ \A p \in Processes : ProcessSound(process[p])
  /\ \A p, q \in Processes : p # q => Exclusive(process[p], process[q])
  /\ \A s \in Sessions : SessionSound(session[s])
=============================================================================
