------------------------- MODULE ControlPlaneProofs -------------------------
(***************************************************************************)
(* Proofs about WebSessions, for any keys, sessions, requests and commands *)
(* and any lifetimes, about DetectionRules, for any rules and events, and  *)
(* about DemoPipeline with the shipped rules and scenarios of DemoCatalog, *)
(* for any number of faults and attempts.                                  *)
(*                                                                         *)
(* Most steps of the sessions only move one process (ProcessStep). The     *)
(* others end its transaction and change a row, too: they are treated one  *)
(* by one.                                                                 *)
(*                                                                         *)
(* The catalog is taken one scenario at a time. First each is alone in the *)
(* database (EveryScenario); then it is shown that it always is as if it   *)
(* were, because the scenarios lie too far apart (Isolated) and in         *)
(* different incidents (BucketsDiffer); then the gate is followed through  *)
(* the batches it sends (CatalogFollowed).                                 *)
(***************************************************************************)
EXTENDS WebSessions, DemoPipeline, FiniteSetTheorems, WellFoundedInduction, TLAPS

LEMMA Numbers ==
  /\ None = -1 /\ Never \in Nat /\ Never > MaxTime /\ Never > MaxTime + AbsoluteTicks
  /\ Times = 0..Never /\ 0 \in Times /\ None \notin Times
  /\ IdleTicks \in Nat /\ AbsoluteTicks \in Nat /\ TouchTicks \in Nat /\ MaxTime \in Nat
  /\ 1 <= TouchTicks /\ TouchTicks <= IdleTicks /\ IdleTicks <= AbsoluteTicks
  /\ Expiries \subseteq Times /\ NoKey \notin Keys /\ NoSession \notin Sessions
  BY SessionsAssumption DEF SessionsAssumption, Never, None, Times

LEMMA IdleProcess ==
  /\ Idle \in ProcessType /\ Idle.pc = "idle" /\ Idle.at = 0
  /\ \A v : Exclusive(Idle, v) /\ Exclusive(v, Idle)
  BY Numbers DEF Idle, ProcessType, ProcessStates, Exclusive

LEMMA IdleSound ==
  ASSUME now \in Nat
  PROVE  ProcessSound(Idle)
  BY IdleProcess DEF ProcessSound

-----------------------------------------------------------------------------
(* Steps of one process *)

\* A step that changes one process only needs that process to stay sound.
LEMMA ProcessStep ==
  ASSUME IndInv, NEW p \in Processes, NEW u \in ProcessType,
         process' = [process EXCEPT ![p] = u],
         UNCHANGED <<now, key, session, served>>,
         ProcessSound(u),
         \A q \in Processes \ {p} : Exclusive(u, process[q]) /\ Exclusive(process[q], u)
  PROVE  IndInv'
<1>1. TypeOK'
  BY DEF IndInv, TypeOK, Stored
<1>2. StaysSignedIn'
  BY DEF IndInv, StaysSignedIn, Stored
<1>3. \A q \in Processes : process'[q] = IF q = p THEN u ELSE process[q]
  BY DEF IndInv, TypeOK
<1>4. ASSUME NEW q \in Processes
      PROVE  ProcessSound(process[q])'
  <2>1. ProcessSound(process'[q])
    BY <1>3 DEF IndInv
  <2> QED BY <2>1 DEF ProcessSound, Stored
<1>5. ASSUME NEW q \in Processes, NEW r \in Processes, q # r
      PROVE  Exclusive(process[q], process[r])'
  <2>1. Exclusive(process'[q], process'[r])
    BY <1>3, <1>5 DEF IndInv
  <2> QED BY <2>1 DEF Exclusive
<1>6. \A s \in Sessions : SessionSound(session[s])'
  BY DEF IndInv, SessionSound
<1> QED BY <1>1, <1>2, <1>4, <1>5, <1>6 DEF IndInv

\* A process may give up at any time: it holds nothing afterwards.
LEMMA DoneStep ==
  ASSUME IndInv, NEW p \in Processes, Done(p), UNCHANGED <<now, key, session, served>>
  PROVE  IndInv'
<1>1. now \in Nat
  BY Numbers DEF IndInv, TypeOK
<1> QED BY <1>1, IdleProcess, IdleSound, ProcessStep DEF Done

\* The record a process starts with.
LEMMA StartStep ==
  ASSUME IndInv, NEW p \in Processes, NEW pc \in ProcessStates, NEW at \in 0..now,
         NEW k \in Keys \cup {NoKey}, NEW s \in Sessions \cup {NoSession},
         process' = [process EXCEPT ![p] = [pc |-> pc, at |-> at, key |-> k, session |-> s]],
         UNCHANGED <<now, key, session, served>>,
         pc \notin {"insert", "revoking", "rotating", "changing", "logout"},
         pc \in {"login", "revoke", "rotate"} => k \in Keys /\ key[k].issued,
         pc \in {"touch", "authenticated", "change"} => s \in Sessions /\ Stored(s),
         pc = "touch" => at < session[s].idle /\ at < session[s].absolute
  PROVE  IndInv'
<1> DEFINE u == [pc |-> pc, at |-> at, key |-> k, session |-> s]
<1>1. u \in ProcessType
  BY Numbers DEF IndInv, TypeOK, ProcessType
<1>2. ProcessSound(u)
  BY DEF ProcessSound, ProcessStates
<1>3. \A v : Exclusive(u, v) /\ Exclusive(v, u)
  BY DEF Exclusive
<1> HIDE DEF u
<1>4. process' = [process EXCEPT ![p] = u]
  BY DEF u
<1> QED BY <1>1, <1>2, <1>3, <1>4, ProcessStep

LEMMA BeginLoginStep ==
  ASSUME IndInv, NEW p \in Processes, NEW k \in Keys, BeginLogin(p, k)
  PROVE  IndInv'
<1>1. now \in 0..now /\ "login" \in ProcessStates
  BY Numbers DEF IndInv, TypeOK, ProcessStates
<1>2. process' = [process EXCEPT ![p] = [pc |-> "login", at |-> now, key |-> k, session |-> NoSession]]
  BY DEF BeginLogin, Start
<1> QED BY <1>1, <1>2, StartStep DEF BeginLogin

LEMMA BeginRevokeStep ==
  ASSUME IndInv, NEW p \in Processes, NEW k \in Keys, BeginRevoke(p, k) \/ BeginRotate(p, k)
  PROVE  IndInv'
  BY StartStep, Numbers DEF BeginRevoke, BeginRotate, Start, IndInv, TypeOK, ProcessStates

LEMMA AuthenticateStep ==
  ASSUME IndInv, NEW p \in Processes, NEW s \in Sessions, Authenticate(p, s)
  PROVE  IndInv'
<1>1. 0 \in 0..now /\ "authenticated" \in ProcessStates
  BY Numbers DEF IndInv, TypeOK, ProcessStates
<1>2. process' = [process EXCEPT ![p] = [pc |-> "authenticated", at |-> 0, key |-> NoKey, session |-> s]]
  BY DEF Authenticate
<1>3. Stored(s) /\ UNCHANGED <<now, key, session, served>>
  BY DEF Authenticate, Usable
<1> QED BY <1>1, <1>2, <1>3, StartStep

\* A lock is granted only when no other process holds it.
LEMMA LockKeyForLoginStep ==
  ASSUME IndInv, NEW p \in Processes, LockKeyForLogin(p)
  PROVE  IndInv'
<1> DEFINE u == [process[p] EXCEPT !.pc = "insert"]
<1>1. process[p] \in ProcessType /\ process[p].key \in Keys /\ process[p].pc = "login"
  BY DEF IndInv, TypeOK, LockKeyForLogin, At, ProcessSound
<1>2. CASE Done(p)
  BY <1>2, DoneStep DEF LockKeyForLogin
<1>3. CASE KeyUsable(process[p].key, process[p].at) /\ Goto(p, "insert")
  <2>1. u \in ProcessType /\ u.pc = "insert" /\ u.key = process[p].key /\ u.at = process[p].at
    BY <1>1 DEF ProcessType, ProcessStates
  <2>2. ProcessSound(u)
    BY <1>1, <1>3, <2>1, Numbers DEF ProcessSound, KeyUsable, IndInv, TypeOK, KeyType, ProcessType
  <2>3. \A q \in Processes \ {p} : Exclusive(u, process[q]) /\ Exclusive(process[q], u)
    BY <2>1 DEF LockKeyForLogin, KeyLocked, Exclusive
  <2>4. process' = [process EXCEPT ![p] = u]
    BY <1>3 DEF Goto
  <2> HIDE DEF u
  <2> QED BY <2>1, <2>2, <2>3, <2>4, ProcessStep DEF LockKeyForLogin
<1> QED BY <1>2, <1>3 DEF LockKeyForLogin

LEMMA LockKeyStep ==
  ASSUME IndInv, NEW p \in Processes, LockKey(p)
  PROVE  IndInv'
<1>1. process[p] \in ProcessType /\ process[p].key \in Keys /\ process[p].pc \in {"revoke", "rotate"}
  BY DEF IndInv, TypeOK, LockKey, ProcessSound
<1>2. CASE Done(p)
  BY <1>2, DoneStep DEF LockKey
<1>3. ASSUME NEW pc \in {"revoking", "rotating"}, Goto(p, pc), key[process[p].key].revoked = None
      PROVE  IndInv'
  <2> DEFINE u == [process[p] EXCEPT !.pc = pc]
  <2>1. u \in ProcessType /\ u.pc = pc /\ u.key = process[p].key /\ u.at = process[p].at
    BY <1>1 DEF ProcessType, ProcessStates
  <2>2. ProcessSound(u)
    BY <1>1, <1>3, <2>1 DEF ProcessSound, IndInv
  <2>3. \A q \in Processes \ {p} : Exclusive(u, process[q]) /\ Exclusive(process[q], u)
    BY <2>1 DEF LockKey, KeyLocked, Exclusive
  <2>4. process' = [process EXCEPT ![p] = u]
    BY <1>3 DEF Goto
  <2> HIDE DEF u
  <2> QED BY <2>1, <2>2, <2>3, <2>4, ProcessStep DEF LockKey
<1> QED BY <1>2, <1>3 DEF LockKey

LEMMA LockSessionStep ==
  ASSUME IndInv, NEW p \in Processes, LockSession(p)
  PROVE  IndInv'
<1> DEFINE u == [process[p] EXCEPT !.pc = "changing"]
<1>1. process[p] \in ProcessType /\ process[p].session \in Sessions /\ process[p].pc = "change"
  BY DEF IndInv, TypeOK, LockSession, At, ProcessSound
<1>2. CASE Done(p)
  BY <1>2, DoneStep DEF LockSession
<1>3. CASE Usable(process[p].session, process[p].at) /\ Goto(p, "changing")
  <2>1. u \in ProcessType /\ u.pc = "changing" /\ u.session = process[p].session /\ u.at = process[p].at
    BY <1>1 DEF ProcessType, ProcessStates
  <2>2. ProcessSound(u)
    BY <1>1, <1>3, <2>1 DEF ProcessSound, Usable, IndInv
  <2>3. \A q \in Processes \ {p} : Exclusive(u, process[q]) /\ Exclusive(process[q], u)
    BY <2>1 DEF LockSession, SessionLocked, Exclusive
  <2>4. process' = [process EXCEPT ![p] = u]
    BY <1>3 DEF Goto
  <2> HIDE DEF u
  <2> QED BY <2>1, <2>2, <2>3, <2>4, ProcessStep DEF LockSession
<1> QED BY <1>2, <1>3 DEF LockSession

LEMMA BeginUnsafeStep ==
  ASSUME IndInv, NEW p \in Processes, BeginChange(p) \/ BeginLogout(p)
  PROVE  IndInv'
<1>1. PICK pc \in {"change", "logout"} : GotoNow(p, pc)
  BY DEF BeginChange, BeginLogout
<1> DEFINE u == [process[p] EXCEPT !.pc = pc, !.at = now]
<1>2. /\ process[p] \in ProcessType /\ process[p].session \in Sessions /\ Stored(process[p].session)
      /\ now \in 0..MaxTime /\ session[process[p].session].created <= now
  BY DEF IndInv, TypeOK, BeginChange, BeginLogout, At, ProcessSound, SessionSound, Stored
<1>3. u \in ProcessType /\ u.pc = pc /\ u.session = process[p].session /\ u.at = now
  BY <1>2 DEF ProcessType, ProcessStates
<1>4. ProcessSound(u)
  BY <1>2, <1>3 DEF ProcessSound
<1>5. \A v : Exclusive(u, v) /\ Exclusive(v, u)
  BY <1>3 DEF Exclusive
<1>6. process' = [process EXCEPT ![p] = u]
  BY <1>1 DEF GotoNow
<1> HIDE DEF u
<1> QED BY <1>3, <1>4, <1>5, <1>6, ProcessStep DEF BeginChange, BeginLogout

-----------------------------------------------------------------------------
(* Steps that change rows *)

\* A transaction that ends leaves the other processes sound if the key of each
\* key holder and the session of each session holder are as they were, and no
\* key or session is taken away from anybody.
LEMMA CommitStep ==
  ASSUME IndInv, NEW p \in Processes, Done(p), UNCHANGED now, TypeOK', StaysSignedIn',
         \A s \in Sessions : SessionSound(session[s])',
         \A q \in Processes \ {p} : ProcessSound(process[q]) => ProcessSound(process[q])'
  PROVE  IndInv'
<1>1. \A q \in Processes : process'[q] = IF q = p THEN Idle ELSE process[q]
  BY DEF IndInv, TypeOK, Done
<1>2. ASSUME NEW q \in Processes
      PROVE  ProcessSound(process[q])'
  <2>1. CASE q = p
    BY <1>1, <2>1, IdleProcess, Numbers DEF ProcessSound, TypeOK, IndInv
  <2>2. CASE q # p
    BY <2>2 DEF IndInv
  <2> QED BY <2>1, <2>2
<1>3. ASSUME NEW q \in Processes, NEW r \in Processes, q # r
      PROVE  Exclusive(process[q], process[r])'
  <2>1. Exclusive(process'[q], process'[r])
    BY <1>1, <1>3, IdleProcess DEF IndInv
  <2> QED BY <2>1 DEF Exclusive
<1> QED BY <1>2, <1>3 DEF IndInv

\* A new key, or the ticking clock, disturbs nobody.
LEMMA IssueKeyStep ==
  ASSUME IndInv, NEW k \in Keys, NEW e \in Expiries, IssueKey(k, e)
  PROVE  IndInv'
<1>1. Issued(e) \in KeyType
  BY Numbers DEF Issued, KeyType
<1>2. TypeOK'
  BY <1>1 DEF IndInv, TypeOK, IssueKey, Stored
<1>3. \A j \in Keys : key[j].issued => key'[j] = key[j]
  BY DEF IndInv, TypeOK, IssueKey
<1>4. ASSUME NEW q \in Processes
      PROVE  ProcessSound(process[q])'
  BY <1>3 DEF IndInv, ProcessSound, IssueKey, Stored
<1>5. ASSUME NEW s \in Sessions
      PROVE  SessionSound(session[s])'
  <2>1. session[s].key \in Keys \cup {NoKey}
    BY DEF IndInv, TypeOK, SessionType
  <2> QED BY <1>3, <2>1 DEF IndInv, SessionSound, IssueKey
<1> QED BY <1>2, <1>4, <1>5 DEF IndInv, IssueKey, StaysSignedIn, Stored, Exclusive

LEMMA TickStep ==
  ASSUME IndInv, Tick
  PROVE  IndInv'
<1>1. now \in Nat /\ now' = now + 1 /\ now' \in 0..MaxTime
  BY Numbers DEF IndInv, TypeOK, Tick
<1>2. TypeOK'
  BY <1>1 DEF IndInv, TypeOK, Tick, Stored
<1>3. \A q \in Processes : ProcessSound(process[q])'
  BY <1>1, Numbers DEF IndInv, TypeOK, ProcessType, ProcessSound, Tick, Stored
<1>4. \A s \in Sessions : SessionSound(session[s])'
  BY <1>1, Numbers DEF IndInv, TypeOK, SessionType, SessionSound, Tick
<1> QED BY <1>2, <1>3, <1>4 DEF IndInv, Tick, StaysSignedIn, Stored, Exclusive

\* A new session takes a slot nobody is about, lives no longer than its key and
\* begins with the time that was read for it.
LEMMA InsertSessionStep ==
  ASSUME IndInv, NEW p \in Processes, NEW s \in Sessions, InsertSession(p, s)
  PROVE  IndInv'
<1> DEFINE k == process[p].key
           at == process[p].at
           end == AbsoluteEnd(k, at)
           row == [key |-> k, created |-> at, seen |-> at, idle |-> Earlier(at + IdleTicks, end),
                   absolute |-> end, revoked |-> None]
<1>1. /\ k \in Keys /\ key[k].issued /\ key[k].revoked = None /\ at < key[k].expires
      /\ at \in 0..MaxTime /\ at <= now /\ key[k] \in KeyType
  BY DEF IndInv, TypeOK, ProcessType, InsertSession, At, ProcessSound
<1>2. key[k].expires \in Times /\ now \in Nat
  BY <1>1, Numbers DEF KeyType, IndInv, TypeOK
<1>3. /\ end \in Times /\ end > at /\ end <= key[k].expires /\ end <= at + AbsoluteTicks
      /\ Earlier(at + IdleTicks, end) \in Times /\ Earlier(at + IdleTicks, end) > at
      /\ Earlier(at + IdleTicks, end) <= end /\ at \in Times
  <2> DEFINE e == key[k].expires
  <2>1. /\ IdleTicks \in Nat /\ IdleTicks >= 1 /\ AbsoluteTicks \in Nat /\ AbsoluteTicks >= 1
        /\ at + AbsoluteTicks <= Never /\ Never \in Nat /\ Times = 0..Never
        /\ at \in Nat /\ e \in 0..Never /\ at < e
    BY <1>1, <1>2, Numbers
  <2>2. end = Earlier(at + AbsoluteTicks, e)
    BY DEF AbsoluteEnd
  <2> HIDE DEF e, at, end
  <2>3. /\ end \in 0..Never /\ end > at /\ end <= e /\ end <= at + AbsoluteTicks
    BY <2>1, <2>2 DEF Earlier
  <2>4. /\ Earlier(at + IdleTicks, end) \in 0..Never /\ Earlier(at + IdleTicks, end) > at
        /\ Earlier(at + IdleTicks, end) <= end
    BY <2>1, <2>3 DEF Earlier
  <2> QED BY <2>1, <2>3, <2>4 DEF e
<1>4. session' = [session EXCEPT ![s] = row] /\ served' = [served EXCEPT ![s] = at]
  BY DEF InsertSession
<1>5. row \in SessionType /\ SessionTimes(row) /\ row.key # NoKey
  BY <1>1, <1>3, Numbers DEF SessionType, SessionTimes
<1>6. SessionSound(row)
  <2>1. Earlier(at + IdleTicks, end) >= Earlier(end, at + IdleTicks)
    BY <1>1, <1>3, Numbers DEF Earlier
  <2> QED BY <1>1, <1>3, <2>1 DEF SessionSound
<1>7. row.idle >= Earlier(row.absolute, at + IdleTicks - TouchTicks + 1)
  BY <1>1, <1>3, Numbers DEF Earlier
<1>8. process' \in [Processes -> ProcessType]
  BY IdleProcess DEF InsertSession, Done, IndInv, TypeOK
<1> HIDE DEF row, k, at, end
<1>9. \A t \in Sessions : /\ session'[t] = IF t = s THEN row ELSE session[t]
                          /\ served'[t] = IF t = s THEN at ELSE served[t]
  BY <1>4 DEF IndInv, TypeOK
<1>10. TypeOK'
  BY <1>3, <1>4, <1>5, <1>8, <1>9 DEF IndInv, TypeOK, Stored, InsertSession
<1>11. StaysSignedIn'
  BY <1>7, <1>9 DEF IndInv, StaysSignedIn, Stored
<1>12. ASSUME NEW t \in Sessions
       PROVE  SessionSound(session[t])'
  <2>1. SessionSound(session'[t])
    BY <1>6, <1>9 DEF IndInv
  <2> QED BY <2>1 DEF SessionSound, InsertSession
<1>13. ASSUME NEW q \in Processes \ {p}
       PROVE  ProcessSound(process[q])'
  <2>1. ProcessSound(process[q]) /\ process'[q] = process[q]
    BY DEF IndInv, InsertSession, Done, TypeOK
  <2>2. \A t \in Sessions : Stored(t) => session'[t] = session[t]
    BY <1>9 DEF InsertSession
  <2>3. \A t \in Sessions : Stored(t) => Stored(t)'
    BY <2>2 DEF Stored
  <2> QED BY <2>1, <2>2, <2>3 DEF ProcessSound, InsertSession
<1> QED BY <1>10, <1>11, <1>12, <1>13, CommitStep DEF InsertSession

\* The types of one session's columns.
LEMMA SessionColumns ==
  ASSUME TypeOK, NEW s \in Sessions, Stored(s)
  PROVE  /\ session[s] \in SessionType /\ session[s].key \in Keys
         /\ session[s].created \in Nat /\ session[s].seen \in Nat /\ session[s].idle \in Nat
         /\ session[s].absolute \in Nat /\ served[s] \in Times /\ SessionTimes(session[s])
  BY Numbers DEF TypeOK, SessionType, Stored

\* Whether or not a touch was due, a page answered at a time keeps the session
\* for the idle time less one touch interval from then on.
LEMMA PageKeepsSession ==
  ASSUME NEW idle \in Nat, NEW absolute \in Nat, NEW seen \in Nat, NEW before \in Nat, NEW at \in Nat,
         idle >= Earlier(absolute, before + IdleTicks - TouchTicks + 1),
         idle >= Earlier(absolute, seen + IdleTicks), at < seen + TouchTicks
  PROVE  idle >= Earlier(absolute, Later(before, at) + IdleTicks - TouchTicks + 1)
  BY Numbers DEF Earlier, Later

LEMMA OpenPageStep ==
  ASSUME IndInv, NEW p \in Processes, NEW s \in Sessions, OpenPage(p, s)
  PROVE  IndInv'
<1>1. /\ Stored(s) /\ session[s].revoked = None
      /\ now < session[s].idle /\ now < session[s].absolute
      /\ now \in 0..MaxTime /\ now \in Nat /\ now \in Times /\ UNCHANGED <<now, key, session>>
  <2>1. session[s].idle \in Nat /\ session[s].absolute \in Nat
    BY SessionColumns DEF OpenPage, Usable, IndInv
  <2> QED BY <2>1, Numbers DEF OpenPage, Usable, IndInv, TypeOK
<1>2. CASE Start(p, "touch", NoKey, s) /\ UNCHANGED served
  <2>1. now \in 0..now /\ "touch" \in ProcessStates
    BY <1>1 DEF ProcessStates
  <2>2. process' = [process EXCEPT ![p] = [pc |-> "touch", at |-> now, key |-> NoKey, session |-> s]]
    BY <1>2 DEF Start
  <2>3. UNCHANGED <<now, key, session, served>>
    BY <1>1, <1>2
  <2> QED BY <1>1, <2>1, <2>2, <2>3, StartStep
<1>3. CASE ~TouchDue(s, now) /\ Answer(p, s, now)
  <2>1. /\ session[s].idle \in Nat /\ session[s].absolute \in Nat /\ session[s].seen \in Nat
        /\ served[s] \in Nat /\ served[s] \in Times
    BY <1>1, SessionColumns, Numbers DEF IndInv
  <2>2. session[s].idle >= Earlier(session[s].absolute, session[s].seen + IdleTicks)
    BY <1>1 DEF IndInv, SessionSound, Stored
  <2>3. session[s].idle >= Earlier(session[s].absolute, Later(served[s], now) + IdleTicks - TouchTicks + 1)
    <3>1. now < session[s].seen + TouchTicks
      BY <1>1, <1>3, <2>1, Numbers DEF TouchDue
    <3>2. session[s].idle >= Earlier(session[s].absolute, served[s] + IdleTicks - TouchTicks + 1)
      BY <1>1 DEF IndInv, StaysSignedIn
    <3> QED BY <1>1, <2>1, <2>2, <3>1, <3>2, PageKeepsSession
  <2>4. Later(served[s], now) \in Times /\ served' = [served EXCEPT ![s] = Later(served[s], now)] /\ Done(p)
    BY <1>1, <1>3, <2>1 DEF Answer, Later
  <2>5. TypeOK'
    BY <1>1, <2>4, IdleProcess DEF IndInv, TypeOK, Done, Stored
  <2>6. StaysSignedIn'
    BY <1>1, <2>3, <2>4 DEF IndInv, TypeOK, StaysSignedIn, Stored
  <2>7. \A t \in Sessions : SessionSound(session[t])'
    BY <1>1 DEF IndInv, SessionSound
  <2>8. \A q \in Processes \ {p} : ProcessSound(process[q])'
    <3>1. \A q \in Processes \ {p} : process'[q] = process[q]
      BY <2>4 DEF Done, IndInv, TypeOK
    <3> QED BY <1>1, <3>1 DEF IndInv, ProcessSound, Stored
  <2> QED BY <1>1, <2>4, <2>5, <2>6, <2>7, <2>8, CommitStep
<1> QED BY <1>2, <1>3 DEF OpenPage

\* A change of one stored session that keeps its key and creation, and does not
\* revoke one that is locked, disturbs no other process if its ends only grow.
LEMMA OtherProcesses ==
  ASSUME IndInv, NEW p \in Processes, NEW s \in Sessions, NEW row, Done(p), UNCHANGED <<now, key>>,
         session' = [session EXCEPT ![s] = row], row \in SessionType, Stored(s),
         row.key = session[s].key, row.created = session[s].created,
         row.idle >= session[s].idle, row.absolute = session[s].absolute,
         row.revoked = session[s].revoked \/ ~SessionLocked(s)
  PROVE  \A q \in Processes \ {p} : ProcessSound(process[q])'
<1> SUFFICES ASSUME NEW q \in Processes \ {p} PROVE ProcessSound(process[q])'
  OBVIOUS
<1>1. process'[q] = process[q] /\ process[q] \in ProcessType
  BY DEF Done, IndInv, TypeOK
<1>2. \A t \in Sessions : session'[t] = IF t = s THEN row ELSE session[t]
  BY DEF IndInv, TypeOK
<1>3. \A t \in Sessions : Stored(t) => Stored(t)' /\ session'[t].created = session[t].created
  BY <1>2 DEF Stored
<1>4. process[q].pc = "changing" => session'[process[q].session].revoked = None
  BY <1>2 DEF IndInv, ProcessSound, SessionLocked
<1>5. ASSUME process[q].pc = "touch"
      PROVE  process[q].at < session'[process[q].session].idle /\ process[q].at < session'[process[q].session].absolute
  <2>1. session[s].idle \in Nat /\ session[s].absolute \in Nat /\ row.idle \in Int
    BY SessionColumns, Numbers DEF IndInv, SessionType
  <2>2. process[q].at \in Nat /\ process[q].session \in Sessions
    BY <1>1, <1>5, Numbers DEF ProcessType, IndInv, ProcessSound
  <2> QED BY <1>2, <1>5, <2>1, <2>2 DEF IndInv, ProcessSound
<1>6. ProcessSound(process[q])
  BY DEF IndInv
<1> QED BY <1>1, <1>3, <1>4, <1>5, <1>6 DEF ProcessSound

\* What a matching touch writes: the idle end only grows, up to the absolute one.
LEMMA TouchedEnds ==
  ASSUME NEW idle \in Nat, NEW absolute \in Nat, NEW seen \in Nat, NEW before \in Nat, NEW at \in Nat,
         at < idle, idle <= absolute, seen + TouchTicks <= at,
         idle >= Earlier(absolute, before + IdleTicks - TouchTicks + 1),
         NEW new, new = Earlier(absolute, Later(idle, at + IdleTicks))
  PROVE  /\ new \in Nat /\ new >= idle /\ new <= absolute /\ Later(seen, at) = at
         /\ new >= Earlier(absolute, at + IdleTicks)
         /\ new >= Earlier(absolute, Later(before, at) + IdleTicks - TouchTicks + 1)
  BY Numbers DEF Earlier, Later

LEMMA TouchStep ==
  ASSUME IndInv, NEW p \in Processes, Touch(p)
  PROVE  IndInv'
<1> DEFINE s == process[p].session
           at == process[p].at
           row == Touched(s, at)
<1>1. /\ s \in Sessions /\ Stored(s) /\ at \in Nat /\ at <= now /\ at \in Times /\ at <= MaxTime
      /\ at < session[s].idle /\ at < session[s].absolute /\ now \in Nat
  BY Numbers DEF IndInv, TypeOK, ProcessType, Touch, At, ProcessSound
<1>2. /\ session' = [session EXCEPT ![s] = row] /\ served' = [served EXCEPT ![s] = Later(served[s], at)]
      /\ Done(p) /\ UNCHANGED <<now, key>> /\ ~SessionLocked(s)
  BY DEF Touch, Answer
<1>3. /\ session[s] \in SessionType /\ session[s].key \in Keys /\ SessionTimes(session[s])
      /\ session[s].idle \in Nat /\ session[s].absolute \in Nat /\ session[s].seen \in Nat
      /\ session[s].created \in Nat /\ served[s] \in Times /\ served[s] \in Nat
      /\ session[s].idle <= session[s].absolute /\ SessionSound(session[s])
      /\ session[s].idle \in Times /\ session[s].absolute \in Times
  <2>1. /\ session[s] \in SessionType /\ session[s].key \in Keys /\ SessionTimes(session[s])
        /\ SessionSound(session[s])
    BY <1>1, SessionColumns DEF IndInv
  <2>2. /\ session[s].idle \in Nat /\ session[s].absolute \in Nat /\ session[s].seen \in Nat
        /\ session[s].created \in Nat /\ session[s].idle <= session[s].absolute
        /\ session[s].idle \in Times /\ session[s].absolute \in Times
    BY <2>1, Numbers DEF SessionTimes, SessionType
  <2>3. served[s] \in Times /\ served[s] \in Nat
    BY <1>1, SessionColumns, Numbers DEF IndInv
  <2> QED BY <2>1, <2>2, <2>3
<1> DEFINE new == Earlier(session[s].absolute, Later(session[s].idle, at + IdleTicks))
<1> HIDE DEF s, at
<1>4. /\ row \in SessionType /\ row.key = session[s].key /\ row.created = session[s].created
      /\ row.idle >= session[s].idle /\ row.absolute = session[s].absolute
      /\ row.revoked = session[s].revoked /\ SessionTimes(row) /\ SessionSound(row)
      /\ row.revoked = None =>
           row.idle >= Earlier(row.absolute, Later(served[s], at) + IdleTicks - TouchTicks + 1)
  <2>1. CASE Usable(s, at) /\ TouchDue(s, at)
    <3>1. session[s].idle >= Earlier(session[s].absolute, served[s] + IdleTicks - TouchTicks + 1)
      BY <1>1, <2>1 DEF IndInv, StaysSignedIn, Usable
    <3>2. /\ new \in Nat /\ new >= session[s].idle /\ new <= session[s].absolute
          /\ Later(session[s].seen, at) = at /\ new >= Earlier(session[s].absolute, at + IdleTicks)
          /\ new >= Earlier(session[s].absolute, Later(served[s], at) + IdleTicks - TouchTicks + 1)
      <4>1. session[s].seen + TouchTicks <= at
        BY <2>1 DEF TouchDue
      <4>2. new = Earlier(session[s].absolute, Later(session[s].idle, at + IdleTicks))
        OBVIOUS
      <4> HIDE DEF new
      <4>3. PICK idle \in Nat, absolute \in Nat, seen \in Nat, before \in Nat :
              /\ idle = session[s].idle /\ absolute = session[s].absolute
              /\ seen = session[s].seen /\ before = served[s]
        BY <1>3
      <4>4. /\ at \in Nat /\ at < idle /\ idle <= absolute /\ seen + TouchTicks <= at
            /\ idle >= Earlier(absolute, before + IdleTicks - TouchTicks + 1)
            /\ new = Earlier(absolute, Later(idle, at + IdleTicks))
        BY <1>1, <1>3, <3>1, <4>1, <4>2, <4>3
      <4>5. /\ new \in Nat /\ new >= idle /\ new <= absolute /\ Later(seen, at) = at
            /\ new >= Earlier(absolute, at + IdleTicks)
            /\ new >= Earlier(absolute, Later(before, at) + IdleTicks - TouchTicks + 1)
        BY <4>4, TouchedEnds
      <4> QED BY <4>3, <4>5
    <3>3. row = [session[s] EXCEPT !.seen = at, !.idle = new]
      BY <2>1, <3>2 DEF Touched
    <3> HIDE DEF row, new
    <3>4. /\ row \in SessionType /\ row.key = session[s].key /\ row.created = session[s].created
          /\ row.idle = new /\ row.seen = at /\ row.absolute = session[s].absolute
          /\ row.revoked = session[s].revoked
      <4>1. new \in Times
        BY <1>3, <3>2, Numbers
      <4> QED BY <1>1, <1>3, <3>3, <4>1 DEF SessionType
    <3>5. SessionTimes(row)
      <4>1. /\ session[s].created <= session[s].seen /\ session[s].created < session[s].absolute
            /\ session[s].revoked = None /\ session[s].seen + TouchTicks <= at
        BY <1>3, <2>1 DEF SessionTimes, Usable, TouchDue
      <4>2. \A a, b, c \in Nat : a <= b /\ b + TouchTicks <= c => a <= c
        BY Numbers
      <4>3. session[s].created <= at
        BY <1>1, <1>3, <4>1, <4>2
      <4>4. at < new
        BY <1>1, <1>3, <3>2
      <4> QED BY <3>2, <3>4, <4>1, <4>3, <4>4 DEF SessionTimes
    <3>6. SessionSound(row)
      BY <1>3, <3>2, <3>4 DEF SessionSound
    <3> QED BY <3>2, <3>4, <3>5, <3>6
  <2>2. CASE ~(Usable(s, at) /\ TouchDue(s, at))
    <3>1. row = session[s]
      BY <2>2 DEF Touched
    <3>2. ASSUME session[s].revoked = None
          PROVE  session[s].idle >= Earlier(session[s].absolute, Later(served[s], at) + IdleTicks - TouchTicks + 1)
      <4>1. at < session[s].seen + TouchTicks
        <5>1. Usable(s, at)
          BY <1>1, <1>3, <3>2 DEF Usable
        <5>2. ~TouchDue(s, at)
          BY <2>2, <5>1, Zenon
        <5> HIDE DEF row
        <5>3. session[s].seen \in Nat /\ TouchTicks \in Nat /\ at \in Nat
          BY <1>1, <1>3, Numbers
        <5> QED BY <5>2, <5>3 DEF TouchDue
      <4>2. session[s].idle >= Earlier(session[s].absolute, served[s] + IdleTicks - TouchTicks + 1)
        BY <1>1, <3>2 DEF IndInv, StaysSignedIn
      <4>3. session[s].idle >= Earlier(session[s].absolute, session[s].seen + IdleTicks)
        BY <1>3, <3>2, Numbers DEF SessionSound
      <4> QED BY <1>1, <1>3, <4>1, <4>2, <4>3, PageKeepsSession
    <3> HIDE DEF row
    <3> QED BY <1>3, <3>1, <3>2
  <2> QED BY <2>1, <2>2
<1> HIDE DEF row
<1>5. \A t \in Sessions : /\ session'[t] = IF t = s THEN row ELSE session[t]
                          /\ served'[t] = IF t = s THEN Later(served[s], at) ELSE served[t]
  BY <1>2 DEF IndInv, TypeOK
<1>6. TypeOK'
  <2>1. Later(served[s], at) \in Times
    BY <1>1, <1>3 DEF Later
  <2> QED BY <1>1, <1>2, <1>4, <1>5, <2>1, IdleProcess DEF IndInv, TypeOK, Stored, Done
<1>7. StaysSignedIn'
  BY <1>1, <1>4, <1>5 DEF IndInv, StaysSignedIn, Stored
<1>8. \A t \in Sessions : SessionSound(session[t])'
  <2>1. \A t \in Sessions : SessionSound(session'[t])
    BY <1>4, <1>5 DEF IndInv
  <2> QED BY <1>2, <2>1 DEF SessionSound
<1>9. \A q \in Processes \ {p} : ProcessSound(process[q])'
  BY <1>1, <1>2, <1>4, OtherProcesses
<1> QED BY <1>2, <1>6, <1>7, <1>8, <1>9, CommitStep

LEMMA LogoutStep ==
  ASSUME IndInv, NEW p \in Processes, Logout(p)
  PROVE  IndInv'
<1> DEFINE s == process[p].session
           at == process[p].at
           row == [session[s] EXCEPT !.revoked = IF @ = None THEN at ELSE @]
<1>1. /\ s \in Sessions /\ Stored(s) /\ at \in Nat /\ at \in Times /\ session[s].created <= at
  BY Numbers DEF IndInv, TypeOK, ProcessType, Logout, At, ProcessSound
<1>2. /\ session' = [session EXCEPT ![s] = row] /\ Done(p) /\ UNCHANGED <<now, key, served>>
      /\ ~SessionLocked(s)
  BY DEF Logout
<1>3. /\ session[s] \in SessionType /\ session[s].key \in Keys /\ SessionTimes(session[s])
      /\ SessionSound(session[s]) /\ session[s].idle \in Nat
  BY <1>1, SessionColumns DEF IndInv
<1> HIDE DEF s, at
<1>4. /\ row \in SessionType /\ row.key = session[s].key /\ row.created = session[s].created
      /\ row.seen = session[s].seen /\ row.idle = session[s].idle /\ row.absolute = session[s].absolute
      /\ row.revoked # None /\ (row.revoked = session[s].revoked \/ row.revoked = at)
  BY <1>1, <1>3, Numbers DEF SessionType
<1> HIDE DEF row
<1>5. SessionTimes(row) /\ SessionSound(row)
  BY <1>1, <1>3, <1>4 DEF SessionTimes, SessionSound
<1>6. \A t \in Sessions : session'[t] = IF t = s THEN row ELSE session[t]
  BY <1>2 DEF IndInv, TypeOK
<1>7. TypeOK'
  BY <1>1, <1>2, <1>4, <1>5, <1>6, IdleProcess DEF IndInv, TypeOK, Stored, Done
<1>8. StaysSignedIn'
  BY <1>2, <1>4, <1>6 DEF IndInv, StaysSignedIn, Stored
<1>9. \A t \in Sessions : SessionSound(session[t])'
  <2>1. \A t \in Sessions : SessionSound(session'[t])
    BY <1>5, <1>6 DEF IndInv
  <2> QED BY <1>2, <2>1 DEF SessionSound
<1>10. \A q \in Processes \ {p} : ProcessSound(process[q])'
  <2>1. row.idle >= session[s].idle
    BY <1>3, <1>4
  <2> QED BY <1>1, <1>2, <1>4, <2>1, OtherProcesses
<1> QED BY <1>2, <1>7, <1>8, <1>9, <1>10, CommitStep

-----------------------------------------------------------------------------
(* Revocation *)

\* A key and its live sessions end together. Nobody else holds the key, and
\* nobody holds one of the sessions, so no process is disturbed.
LEMMA EndOfKey ==
  ASSUME IndInv, NEW p \in Processes, NEW k \in Keys, NEW at \in Times,
         process[p].pc \in {"revoking", "rotating"}, process[p].key = k,
         SessionsFree(k), RevocationFits(k, at), RevokeSessions(k, at),
         Done(p), UNCHANGED <<now, served>>,
         key' \in [Keys -> KeyType], key'[k].issued,
         \A j \in Keys : j # k /\ key[j].issued => key'[j] = key[j]
  PROVE  IndInv'
<1> DEFINE revoked(s) == [session[s] EXCEPT !.revoked = at]
<1>1. \A s \in Sessions : session'[s] = IF s \in OfKey(k) THEN revoked(s) ELSE session[s]
  BY DEF RevokeSessions
<1>2. ASSUME NEW s \in OfKey(k)
      PROVE  /\ s \in Sessions /\ Stored(s) /\ session[s].revoked = None /\ ~SessionLocked(s)
             /\ revoked(s) \in SessionType /\ revoked(s).key = session[s].key
             /\ revoked(s).created = session[s].created /\ revoked(s).revoked = at /\ at # None
             /\ revoked(s).idle = session[s].idle /\ revoked(s).absolute = session[s].absolute
             /\ SessionTimes(revoked(s)) /\ SessionSound(revoked(s))
  <2>1. s \in Sessions /\ Stored(s) /\ session[s].revoked = None /\ session[s].created <= at
    BY Numbers DEF OfKey, Stored, RevocationFits
  <2>2. session[s] \in SessionType /\ SessionTimes(session[s]) /\ session[s].created \in Nat
    BY <2>1, SessionColumns DEF IndInv
  <2>3. /\ revoked(s) \in SessionType /\ revoked(s).key = session[s].key
        /\ revoked(s).created = session[s].created /\ revoked(s).seen = session[s].seen
        /\ revoked(s).idle = session[s].idle /\ revoked(s).absolute = session[s].absolute
        /\ revoked(s).revoked = at /\ at # None
    BY <2>2, Numbers DEF SessionType
  <2>4. SessionSound(session[s])
    BY <2>1 DEF IndInv
  <2> QED BY <2>1, <2>2, <2>3, <2>4 DEF SessionTimes, SessionSound, SessionsFree
<1> HIDE DEF revoked
<1>3. \A s \in Sessions : /\ session'[s] \in SessionType /\ session'[s].key = session[s].key
                          /\ session'[s].created = session[s].created
                          /\ session'[s].idle = session[s].idle
                          /\ session'[s].absolute = session[s].absolute
  BY <1>1, <1>2 DEF IndInv, TypeOK
<1>4. session' \in [Sessions -> SessionType]
  <2>1. session' = [s \in Sessions |-> session'[s]]
    BY DEF RevokeSessions
  <2> QED BY <1>3, <2>1
<1>5. TypeOK'
  <2>1. \A s \in Sessions : session'[s].key # NoKey => SessionTimes(session'[s])
    BY <1>1, <1>2 DEF IndInv, TypeOK, Stored
  <2> QED BY <1>4, <2>1, IdleProcess DEF IndInv, TypeOK, Stored, Done
<1>6. StaysSignedIn'
  <2>1. \A s \in Sessions : session'[s].revoked = None => session'[s] = session[s]
    BY <1>1, <1>2
  <2> QED BY <2>1 DEF IndInv, StaysSignedIn, Stored
<1>7. ASSUME NEW s \in Sessions
      PROVE  SessionSound(session[s])'
  <2>1. CASE s \in OfKey(k)
    BY <1>1, <1>2, <2>1 DEF SessionSound
  <2>2. CASE s \notin OfKey(k)
    <3>1. session'[s] = session[s] /\ SessionSound(session[s]) /\ session[s].key \in Keys \cup {NoKey}
      BY <1>1, <2>2 DEF IndInv, TypeOK, SessionType
    <3>2. session[s].revoked = None => session[s].key # k
      BY <2>2 DEF OfKey
    <3> QED BY <3>1, <3>2 DEF SessionSound
  <2> QED BY <2>1, <2>2
<1>8. ASSUME NEW q \in Processes \ {p}
      PROVE  ProcessSound(process[q])'
  <2>1. process'[q] = process[q] /\ ProcessSound(process[q]) /\ Exclusive(process[p], process[q])
    BY DEF IndInv, TypeOK, Done
  <2>2. \A j \in Keys : key[j].issued => key'[j].issued
    OBVIOUS
  <2>3. process[q].pc \in {"insert", "revoking", "rotating"} => process[q].key # k
    BY <2>1 DEF Exclusive
  <2>4. process[q].pc = "changing" => process[q].session \notin OfKey(k)
    BY <1>2 DEF SessionLocked
  <2>5. ASSUME process[q].pc = "touch"
        PROVE  /\ process[q].at < session'[process[q].session].idle
               /\ process[q].at < session'[process[q].session].absolute
    BY <1>3, <2>1, <2>5 DEF ProcessSound
  <2> QED BY <1>1, <1>3, <2>1, <2>2, <2>3, <2>4, <2>5 DEF ProcessSound, Stored
<1> QED BY <1>5, <1>6, <1>7, <1>8, CommitStep

\* What the process that ends a key knows about it.
LEMMA KeyHolder ==
  ASSUME IndInv, NEW p \in Processes, process[p].pc \in {"revoking", "rotating"}
  PROVE  /\ process[p].key \in Keys /\ key[process[p].key].issued /\ process[p].at \in Times
         /\ key[process[p].key] \in KeyType
  BY Numbers DEF IndInv, TypeOK, ProcessType, ProcessSound

LEMMA RevokeStep ==
  ASSUME IndInv, NEW p \in Processes, Revoke(p)
  PROVE  IndInv'
<1> DEFINE k == process[p].key
           at == process[p].at
<1>1. CASE RevocationFits(k, at)
  <2>1. k \in Keys /\ key[k].issued /\ at \in Times /\ key[k] \in KeyType /\ key \in [Keys -> KeyType]
    BY KeyHolder DEF Revoke, At, IndInv, TypeOK
  <2>2. key' = [key EXCEPT ![k].revoked = at] /\ RevokeSessions(k, at) /\ SessionsFree(k)
        /\ Done(p) /\ UNCHANGED <<now, served>> /\ process[p].pc = "revoking"
    BY <1>1 DEF Revoke, At
  <2> HIDE DEF k, at
  <2>3. key' \in [Keys -> KeyType] /\ key'[k].issued /\ \A j \in Keys : j # k => key'[j] = key[j]
    BY <2>1, <2>2 DEF KeyType
  <2> QED BY <1>1, <2>1, <2>2, <2>3, EndOfKey DEF k
<1>2. CASE ~RevocationFits(k, at)
  BY <1>2, DoneStep DEF Revoke
<1> QED BY <1>1, <1>2

LEMMA RotateStep ==
  ASSUME IndInv, NEW p \in Processes, NEW new \in Keys, NEW e \in Expiries, Rotate(p, new, e)
  PROVE  IndInv'
<1> DEFINE k == process[p].key
           at == process[p].at
<1>1. CASE e > at /\ RevocationFits(k, at)
  <2>1. k \in Keys /\ key[k].issued /\ at \in Times /\ key[k] \in KeyType /\ key \in [Keys -> KeyType]
    BY KeyHolder DEF Rotate, At, IndInv, TypeOK
  <2>2. key' = [key EXCEPT ![k].revoked = at, ![new] = Issued(e)] /\ RevokeSessions(k, at)
        /\ SessionsFree(k) /\ Done(p) /\ UNCHANGED <<now, served>> /\ process[p].pc = "rotating"
        /\ ~key[new].issued
    BY <1>1 DEF Rotate, At
  <2>3. Issued(e) \in KeyType
    BY Numbers DEF Issued, KeyType
  <2> HIDE DEF k, at
  <2>4. k # new
    BY <2>1, <2>2
  <2>5. key' \in [Keys -> KeyType] /\ key'[k].issued
        /\ \A j \in Keys : j # k /\ key[j].issued => key'[j] = key[j]
    BY <2>1, <2>2, <2>3, <2>4 DEF KeyType
  <2> QED BY <1>1, <2>1, <2>2, <2>5, EndOfKey DEF k
<1>2. CASE ~(e > at /\ RevocationFits(k, at))
  BY <1>2, DoneStep DEF Rotate
<1> QED BY <1>1, <1>2

-----------------------------------------------------------------------------
(* The invariant and what follows from it *)

LEMMA InitInv == Init => IndInv
<1> SUFFICES ASSUME Init PROVE IndInv
  OBVIOUS
<1>1. PICK e \in Expiries : key = [k \in Keys |-> IF k = FirstKey THEN Issued(e) ELSE Unissued]
  BY DEF Init
<1>2. key \in [Keys -> KeyType]
  BY <1>1, Numbers DEF KeyType, Issued, Unissued
<1>3. NotStored \in SessionType /\ NotStored.key = NoKey
  BY Numbers DEF NotStored, SessionType
<1>4. \A s \in Sessions : session[s] = NotStored
  BY DEF Init
<1>5. TypeOK
  BY <1>2, <1>3, <1>4, IdleProcess, Numbers DEF Init, TypeOK, Stored
<1>6. StaysSignedIn /\ \A s \in Sessions : SessionSound(session[s])
  BY <1>3, <1>4 DEF StaysSignedIn, Stored, SessionSound
<1>7. now \in Nat /\ \A p \in Processes : process[p] = Idle
  BY DEF Init
<1> QED BY <1>5, <1>6, <1>7, IdleProcess, IdleSound DEF IndInv

LEMMA NextInv == IndInv /\ [Next]_vars => IndInv'
<1> SUFFICES ASSUME IndInv, [Next]_vars PROVE IndInv'
  OBVIOUS
<1>1. CASE UNCHANGED vars
  BY <1>1 DEF vars, IndInv, TypeOK, Stored, StaysSignedIn, ProcessSound, Exclusive, SessionSound
<1>2. CASE Tick
  BY <1>2, TickStep
<1>3. CASE \E k \in Keys, t \in Expiries : IssueKey(k, t)
  BY <1>3, IssueKeyStep
<1>4. ASSUME NEW p \in Requests, RequestStep(p)
      PROVE  IndInv'
  <2>1. p \in Processes
    BY DEF Processes
  <2>2. CASE \E k \in Keys : BeginLogin(p, k)
    BY <2>1, <2>2, BeginLoginStep
  <2>3. CASE LockKeyForLogin(p)
    BY <2>1, <2>3, LockKeyForLoginStep
  <2>4. CASE \E s \in Sessions : InsertSession(p, s) \/ OpenPage(p, s) \/ Authenticate(p, s)
    BY <2>1, <2>4, InsertSessionStep, OpenPageStep, AuthenticateStep
  <2>5. CASE Touch(p)
    BY <2>1, <2>5, TouchStep
  <2>6. CASE BeginChange(p) \/ BeginLogout(p)
    BY <2>1, <2>6, BeginUnsafeStep
  <2>7. CASE LockSession(p)
    BY <2>1, <2>7, LockSessionStep
  <2>8. CASE CommitChange(p)
    BY <2>1, <2>8, DoneStep DEF CommitChange
  <2>9. CASE Logout(p)
    BY <2>1, <2>9, LogoutStep
  <2> QED BY <1>4, <2>2, <2>3, <2>4, <2>5, <2>6, <2>7, <2>8, <2>9 DEF RequestStep
<1>5. ASSUME NEW p \in Commands, CommandStep(p)
      PROVE  IndInv'
  <2>1. p \in Processes
    BY DEF Processes
  <2>2. CASE \E k \in Keys : BeginRevoke(p, k) \/ BeginRotate(p, k)
    BY <2>1, <2>2, BeginRevokeStep
  <2>3. CASE LockKey(p)
    BY <2>1, <2>3, LockKeyStep
  <2>4. CASE Revoke(p)
    BY <2>1, <2>4, RevokeStep
  <2>5. CASE \E k \in Keys, t \in Expiries : Rotate(p, k, t)
    BY <2>1, <2>5, RotateStep
  <2> QED BY <1>5, <2>2, <2>3, <2>4, <2>5 DEF CommandStep
<1>6. CASE \E p \in Processes : RollBack(p)
  BY <1>6, DoneStep DEF RollBack
<1> QED BY <1>1, <1>2, <1>3, <1>4, <1>5, <1>6 DEF Next

\* The row locks, the times read before them and the checks under them keep keys,
\* sessions and running transactions consistent.
THEOREM SessionsInvariant == Spec => []IndInv
  BY InitInv, NextInv, PTL DEF Spec

\* The columns hold what their types and CHECK constraints allow.
THEOREM TypeCorrect == Spec => []TypeOK
<1>1. IndInv => TypeOK
  BY DEF IndInv
<1> QED BY <1>1, SessionsInvariant, PTL

\* No browser session is accepted after its key: login takes the key's lock, and
\* revocation takes the sessions with it.
THEOREM SessionEndsWithItsKey == Spec => []NoSessionOutlivesItsKey
<1>1. ASSUME IndInv
      PROVE  NoSessionOutlivesItsKey
  <2> SUFFICES ASSUME NEW s \in Sessions, Usable(s, now)
               PROVE  KeyUsable(session[s].key, now)
    BY DEF NoSessionOutlivesItsKey
  <2>1. Stored(s) /\ session[s].revoked = None /\ session[s].absolute > now
    BY DEF Usable
  <2>2. /\ key[session[s].key].issued /\ key[session[s].key].revoked = None
        /\ session[s].absolute <= key[session[s].key].expires
    BY <1>1, <2>1 DEF IndInv, SessionSound, Stored
  <2>3. session[s].absolute \in Nat /\ session[s].key \in Keys
    BY <1>1, <2>1, SessionColumns DEF IndInv
  <2>4. key[session[s].key].expires \in Nat /\ now \in Nat
    BY <1>1, <2>3, Numbers DEF IndInv, TypeOK, KeyType
  <2> QED BY <2>1, <2>2, <2>3, <2>4 DEF KeyUsable
<1> QED BY <1>1, SessionsInvariant, PTL

\* Touches applied out of order never shorten a session below its last page.
THEOREM ActiveSessionsStay == Spec => []StaysSignedIn
<1>1. IndInv => StaysSignedIn
  BY DEF IndInv
<1> QED BY <1>1, SessionsInvariant, PTL

\* A logout or a revocation waits for the change that holds the session's lock.
THEOREM ChangesUnderLiveSessions == Spec => []ChangeUnderLiveSession
<1>1. ASSUME IndInv
      PROVE  ChangeUnderLiveSession
  <2> SUFFICES ASSUME NEW p \in Processes, process[p].pc = "changing"
               PROVE  /\ session[process[p].session].revoked = None
                      /\ key[session[process[p].session].key].revoked = None
    BY DEF ChangeUnderLiveSession, At
  <2>1. ProcessSound(process[p])
    BY <1>1 DEF IndInv
  <2>2. /\ process[p].session \in Sessions /\ Stored(process[p].session)
        /\ session[process[p].session].revoked = None
    BY <2>1 DEF ProcessSound
  <2> QED BY <1>1, <2>2 DEF IndInv, SessionSound, Stored
<1> QED BY <1>1, SessionsInvariant, PTL

-----------------------------------------------------------------------------
(* The detection rules: events and their order *)

LEMMA EventFacts ==
  /\ IsFiniteSet(EventUniverse)
  /\ \A e \in EventUniverse : e.id \in Nat /\ e.at \in Nat
  /\ \A e, f \in EventUniverse : e.id = f.id => e = f
BY RulesAssumption DEF RulesAssumption

\* The natural numbers are well-founded: a set of them has a least one.
LEMMA LeastNatural ==
  ASSUME NEW S, S \subseteq Nat, S # {}
  PROVE  \E m \in S : \A k \in S : m <= k
<1> DEFINE less == OpToRel(<, Nat)
<1>1. IsWellFoundedOn(less, Nat)
  BY NatLessThanWellFounded, Zenon
<1>2. \A x, y \in Nat : x < y => <<x, y>> \in less
  BY Zenon DEF OpToRel
<1> HIDE DEF less
<1>3. PICK m \in S : \A k \in S : <<k, m>> \notin less
  BY <1>1, WFMin, Zenon
<1>4. ASSUME NEW k \in S
      PROVE  m <= k
  <2>1. ~(k < m)
    BY <1>2, <1>3
  <2> QED BY <2>1
<1> QED BY <1>4

\* The least of a set of natural numbers that has an element.
LEMMA MinFacts ==
  ASSUME NEW S, S \subseteq Nat, S # {}
  PROVE  Min(S) \in S /\ \A k \in S : Min(S) <= k
<1>1. \E m \in S : \A k \in S : m <= k
  BY LeastNatural
<1> QED BY <1>1, Zenon DEF Min

\* Events are in a strict total order.
LEMMA OrderOfEvents ==
  /\ \A e, f \in EventUniverse : e # f => ComesAfter(e, f) \/ ComesAfter(f, e)
  /\ \A e, f \in EventUniverse : ComesAfter(e, f) => e # f /\ ~ComesAfter(f, e)
  /\ \A e, f, g \in EventUniverse : ComesAfter(e, f) /\ ComesAfter(f, g) => ComesAfter(e, g)
<1>1. \A e, f \in EventUniverse : e # f => e.id # f.id
  BY EventFacts
<1>2. \A e \in EventUniverse : e.id \in Nat /\ e.at \in Nat
  BY EventFacts
<1>3. \A e, f \in EventUniverse : e # f => ComesAfter(e, f) \/ ComesAfter(f, e)
  BY <1>1, <1>2 DEF ComesAfter
<1>4. \A e, f \in EventUniverse : ComesAfter(e, f) => e # f /\ ~ComesAfter(f, e)
  BY <1>2 DEF ComesAfter
<1>5. \A e, f, g \in EventUniverse : ComesAfter(e, f) /\ ComesAfter(f, g) => ComesAfter(e, g)
  BY <1>2 DEF ComesAfter
<1> QED BY <1>3, <1>4, <1>5

\* Of two events of a set, the earlier one has more events behind it.
LEMMA EarlierHasMore ==
  ASSUME NEW S, S \subseteq EventUniverse, NEW a \in S, NEW b \in S, ComesAfter(a, b)
  PROVE  Cardinality({f \in S : ComesAfter(f, a)}) < Cardinality({f \in S : ComesAfter(f, b)})
<1> DEFINE behindA == {f \in S : ComesAfter(f, a)}
           behindB == {f \in S : ComesAfter(f, b)}
<1>1. IsFiniteSet(S)
  BY EventFacts, FS_Subset
<1>2. IsFiniteSet(behindA) /\ IsFiniteSet(behindB)
  BY <1>1, FS_Subset
<1>3. behindA \subseteq behindB
  BY OrderOfEvents
<1>4. a \in behindB /\ a \notin behindA
  BY OrderOfEvents
<1> HIDE DEF behindA, behindB
<1>5. Cardinality(behindA) <= Cardinality(behindB) /\ Cardinality(behindA) # Cardinality(behindB)
  BY <1>2, <1>3, <1>4, FS_Subset
<1>6. Cardinality(behindA) \in Nat /\ Cardinality(behindB) \in Nat
  BY <1>2, FS_CardinalityType
<1>7. Cardinality(behindA) < Cardinality(behindB)
  BY <1>5, <1>6
<1> QED BY <1>7 DEF behindA, behindB

\* The n latest events are n, if there are as many.
LEMMA LatestSize ==
  ASSUME NEW S, S \subseteq EventUniverse, NEW n \in Nat, Cardinality(S) >= n
  PROVE  Cardinality(Latest(S, n)) = n
<1> DEFINE rank == [e \in S |-> Cardinality({f \in S : ComesAfter(f, e)})]
           N    == Cardinality(S)
           low  == [e \in Latest(S, n) |-> rank[e]]
<1>1. IsFiniteSet(S) /\ N \in Nat
  BY EventFacts, FS_Subset, FS_CardinalityType
<1>2. ASSUME NEW e \in S PROVE rank[e] \in 0 .. N - 1
  <2>1. {f \in S : ComesAfter(f, e)} \subseteq S \ {e}
    BY OrderOfEvents
  <2>2. IsFiniteSet(S \ {e}) /\ Cardinality(S \ {e}) = N - 1
    BY <1>1, FS_RemoveElement
  <2>3. /\ IsFiniteSet({f \in S : ComesAfter(f, e)})
        /\ Cardinality({f \in S : ComesAfter(f, e)}) <= N - 1
    BY <2>1, <2>2, FS_Subset
  <2>4. Cardinality({f \in S : ComesAfter(f, e)}) \in Nat
    BY <2>3, FS_CardinalityType
  <2> QED BY <1>1, <2>3, <2>4
<1>3. ASSUME NEW a \in S, NEW b \in S, a # b PROVE rank[a] # rank[b]
  <2>1. CASE ComesAfter(a, b)
    <3>1. rank[a] < rank[b]
      BY <2>1, EarlierHasMore
    <3> QED BY <3>1, <1>1, <1>2
  <2>2. CASE ComesAfter(b, a)
    <3>1. rank[b] < rank[a]
      BY <2>2, EarlierHasMore
    <3> QED BY <3>1, <1>1, <1>2
  <2> QED BY <1>3, <2>1, <2>2, OrderOfEvents
<1>4. rank \in Injection(S, 0 .. N - 1)
  BY <1>2, <1>3 DEF Injection, IsInjective
<1>5. IsFiniteSet(0 .. N - 1) /\ Cardinality(0 .. N - 1) = N
  <2>1. PICK m \in Nat : m = N
    BY <1>1
  <2>2. IsFiniteSet(0 .. m - 1) /\ Cardinality(0 .. m - 1) = m
    BY FS_Interval
  <2> QED BY <2>1, <2>2
<1>6. rank \in Surjection(S, 0 .. N - 1)
  BY <1>4, <1>5, FS_Injection
<1>7. \A e \in S : e \in Latest(S, n) <=> rank[e] < n
  BY DEF Latest
<1>8. Latest(S, n) \subseteq S
  BY DEF Latest
<1> HIDE DEF rank, N
<1>9. low \in [Latest(S, n) -> 0 .. n - 1]
  BY <1>1, <1>2, <1>7, <1>8
<1>10. low \in Injection(Latest(S, n), 0 .. n - 1)
  BY <1>3, <1>8, <1>9 DEF Injection, IsInjective
<1>11. low \in Surjection(Latest(S, n), 0 .. n - 1)
  <2>1. ASSUME NEW k \in 0 .. n - 1 PROVE \E e \in Latest(S, n) : low[e] = k
    <3>1. k \in 0 .. N - 1 /\ k < n
      BY <1>1 DEF N
    <3>2. PICK e \in S : rank[e] = k
      BY <1>6, <3>1 DEF Surjection
    <3>3. e \in Latest(S, n)
      BY <1>7, <3>1, <3>2
    <3> QED BY <3>2, <3>3
  <2> QED BY <1>9, <2>1 DEF Surjection
<1>12. IsFiniteSet(0 .. n - 1) /\ Cardinality(0 .. n - 1) = n
  BY FS_Interval
<1> HIDE DEF low
<1> QED BY <1>10, <1>11, <1>12, FS_Injection

\* If n of the events lie after a time, the n latest do.
LEMMA LatestAbove ==
  ASSUME NEW S, S \subseteq EventUniverse, NEW D \in SUBSET S, NEW n \in Nat, Cardinality(D) >= n,
         NEW x \in Int, \A d \in D : d.at > x, NEW e \in Latest(S, n)
  PROVE  e.at > x
<1> SUFFICES ASSUME ~(e.at > x) PROVE FALSE
  OBVIOUS
<1>1. e \in S /\ Cardinality({f \in S : ComesAfter(f, e)}) < n
  BY DEF Latest
<1>2. D \subseteq {f \in S : ComesAfter(f, e)}
  BY <1>1, EventFacts DEF ComesAfter
<1>3. IsFiniteSet({f \in S : ComesAfter(f, e)})
  BY EventFacts, FS_Subset
<1>4. Cardinality(D) <= Cardinality({f \in S : ComesAfter(f, e)})
  BY <1>2, <1>3, FS_Subset
<1>5. Cardinality(D) \in Nat /\ Cardinality({f \in S : ComesAfter(f, e)}) \in Nat
  BY <1>2, <1>3, FS_Subset, FS_CardinalityType
<1> QED BY <1>1, <1>4, <1>5

-----------------------------------------------------------------------------
(* The search for a sequence *)

\* The search from the last step down to the first is well defined: there is a
\* function that obeys it, else a shortest search that none obeys.
LEMMA TakenSteps ==
  ASSUME NEW c, NEW t, NEW S, NEW n \in Nat \ {0}, n = Len(c.steps)
  PROVE  /\ Taken(c, t, S)[n] = TakeLast(c.steps[n], t, S)
         /\ \A i \in 1 .. n - 1 : Taken(c, t, S)[i] = TakeStep(c.steps[i], S, Taken(c, t, S)[i + 1])
<1> DEFINE Value(i, f) == IF i = n THEN TakeLast(c.steps[i], t, S) ELSE TakeStep(c.steps[i], S, f[i + 1])
           Obeys(k, f) == f = [i \in n - k .. n |-> Value(i, f)]
           Open == {k \in 0 .. n - 1 : ~ \E f : Obeys(k, f)}
<1>1. Open = {}
  <2> SUFFICES ASSUME Open # {} PROVE FALSE
    OBVIOUS
  <2>1. Open \subseteq Nat
    OBVIOUS
  <2>2. PICK k \in Open : \A j \in Open : k <= j
    <3> HIDE DEF Open
    <3> QED BY <2>1, LeastNatural
  <2>3. k \in 0 .. n - 1 /\ ~ \E f : Obeys(k, f)
    BY <2>2
  <2>4. k # 0
    <3>1. Obeys(0, [i \in n - 0 .. n |-> TakeLast(c.steps[i], t, S)])
      OBVIOUS
    <3> QED BY <2>3, <3>1
  <2>5. k - 1 \in 0 .. n - 1
    BY <2>3, <2>4
  <2>6. PICK f : Obeys(k - 1, f)
    <3>1. k - 1 \notin Open
      <4> HIDE DEF Open
      <4> QED BY <2>2, <2>3
    <3> HIDE DEF Obeys
    <3> QED BY <2>5, <3>1
  <2> DEFINE g == [i \in n - k .. n |-> Value(i, f)]
  <2>7. \A i \in n - k + 1 .. n : g[i] = f[i]
    <3>1. \A i \in n - (k - 1) .. n : f[i] = Value(i, f)
      <4> HIDE DEF Value
      <4> QED BY <2>6
    <3>2. \A i \in n - k + 1 .. n : i \in n - (k - 1) .. n /\ i \in n - k .. n
      BY <2>3
    <3> HIDE DEF Value
    <3> QED BY <3>1, <3>2
  <2>8. \A i \in n - k .. n : Value(i, g) = Value(i, f)
    <3> SUFFICES ASSUME NEW i \in n - k .. n PROVE Value(i, g) = Value(i, f)
      OBVIOUS
    <3> HIDE DEF g
    <3>1. CASE i = n
      BY <3>1, Zenon
    <3>2. CASE i # n
      <4>1. i + 1 \in n - k + 1 .. n
        <5> HIDE DEF Value
        <5> QED BY <2>3, <3>2
      <4>2. g[i + 1] = f[i + 1]
        BY <2>7, <4>1, Zenon
      <4> QED BY <4>2, Zenon
    <3> QED BY <3>1, <3>2
  <2>9. Obeys(k, g)
    <3> HIDE DEF Value
    <3> QED BY <2>8
  <2> QED BY <2>3, <2>9
<1>2. PICK f : f = [i \in 1 .. n |-> Value(i, f)]
  <2>1. n - 1 \in 0 .. n - 1 /\ n - (n - 1) = 1
    OBVIOUS
  <2>2. \E f : Obeys(n - 1, f)
    <3> HIDE DEF Obeys
    <3> QED BY <1>1, <2>1
  <2> HIDE DEF Value
  <2> QED BY <2>1, <2>2
<1>3. Taken(c, t, S) = CHOOSE g : g = [i \in 1 .. n |-> Value(i, g)]
  BY Zenon DEF Taken
<1>4. Taken(c, t, S) = [i \in 1 .. n |-> Value(i, Taken(c, t, S))]
  <2> HIDE DEF Value
  <2> QED BY <1>2, <1>3, Zenon
<1>5. \A i \in 1 .. n : Taken(c, t, S)[i] = Value(i, Taken(c, t, S))
  <2> HIDE DEF Value
  <2> QED BY <1>4, Zenon
<1>6. Taken(c, t, S)[n] = TakeLast(c.steps[n], t, S)
  BY <1>5
<1>7. ASSUME NEW i \in 1 .. n - 1
      PROVE  Taken(c, t, S)[i] = TakeStep(c.steps[i], S, Taken(c, t, S)[i + 1])
  <2>1. i \in 1 .. n /\ i # n
    OBVIOUS
  <2> QED BY <1>5, <2>1
<1> QED BY <1>6, <1>7

\* What the schema promises of a sequence.
LEMMA SequenceParameters ==
  ASSUME NEW r \in RuleUniverse, r.condition.kind = "sequence"
  PROVE  /\ r.condition.window \in Nat /\ Len(r.condition.steps) \in Nat \ {0}
         /\ \A i \in 1 .. Len(r.condition.steps) : r.condition.steps[i].repeat \in Nat \ {0}
BY RulesAssumption DEF RulesAssumption

\* The times of some events: natural numbers, with a least one.
LEMMA LeastTime ==
  ASSUME NEW D, D \subseteq EventUniverse, D # {}
  PROVE  /\ \E d \in D : Earliest(D) = d.at
         /\ \A d \in D : Earliest(D) <= d.at
<1> DEFINE times == {e.at : e \in D}
<1>1. times \subseteq Nat /\ times # {}
  BY EventFacts
<1>2. Min(times) \in times /\ \A k \in times : Min(times) <= k
  <2> HIDE DEF times
  <2> QED BY <1>1, MinFacts
<1> QED BY <1>2 DEF Earliest

\* Some events have a latest time.
LEMMA GreatestTime ==
  ASSUME NEW D, D \subseteq EventUniverse, D # {}, NEW x \in Nat, \A d \in D : d.at <= x
  PROVE  \E d \in D : \A e \in D : e.at <= d.at
<1> DEFINE lags == {x - e.at : e \in D}
<1>1. \A d \in D : d.at \in Nat
  BY EventFacts
<1>2. lags \subseteq Nat /\ lags # {}
  BY <1>1
<1>3. PICK m \in lags : \A k \in lags : m <= k
  <2> HIDE DEF lags
  <2> QED BY <1>2, LeastNatural
<1>4. PICK d \in D : m = x - d.at
  OBVIOUS
<1>5. ASSUME NEW e \in D PROVE e.at <= d.at
  <2>1. x - d.at <= x - e.at
    BY <1>3, <1>4
  <2> QED BY <1>1, <2>1
<1> QED BY <1>5

\* The events a search has chosen for step i.
ChosenFor(c, t, S, i) ==
  IF i = Len(c.steps)
  THEN {t} \cup Latest({e \in S \ {t} : Matches(e, c.steps[i])}, c.steps[i].repeat - 1)
  ELSE ChosenBefore({e \in S : Matches(e, c.steps[i])}, Taken(c, t, S)[i + 1].bound, c.steps[i].repeat)

\* A step is complete when the steps after it are and enough was chosen for it.
LEMMA StepTaken ==
  ASSUME NEW c, NEW t, NEW S, NEW n \in Nat \ {0}, n = Len(c.steps), NEW i \in 1 .. n
  PROVE  /\ Taken(c, t, S)[i].complete <=>
              /\ i < n => Taken(c, t, S)[i + 1].complete
              /\ Cardinality(ChosenFor(c, t, S, i)) = c.steps[i].repeat
         /\ Taken(c, t, S)[i].complete =>
              /\ Taken(c, t, S)[i].bound = Earliest(ChosenFor(c, t, S, i))
              /\ ChosenFor(c, t, S, i) \subseteq Taken(c, t, S)[i].events
              /\ i < n => Taken(c, t, S)[i + 1].events \subseteq Taken(c, t, S)[i].events
<1> DEFINE D == ChosenFor(c, t, S, i)
           acc == Taken(c, t, S)[i + 1]
<1>1. CASE i = n
  <2>1. Taken(c, t, S)[i] = TakeLast(c.steps[i], t, S)
    BY <1>1, TakenSteps
  <2>2. Taken(c, t, S)[i] = [complete |-> Cardinality(D) = c.steps[i].repeat, events |-> D,
                             bound |-> Earliest(D)]
    BY <1>1, <2>1, Zenon DEF TakeLast, ChosenFor
  <2>3. ~(i < n)
    BY <1>1
  <2> HIDE DEF D
  <2>4. /\ Taken(c, t, S)[i].complete <=> Cardinality(D) = c.steps[i].repeat
        /\ Taken(c, t, S)[i].bound = Earliest(D)
        /\ Taken(c, t, S)[i].events = D
    <3>1. PICK enough \in BOOLEAN : enough = (Cardinality(D) = c.steps[i].repeat)
      OBVIOUS
    <3>2. Taken(c, t, S)[i] = [complete |-> enough, events |-> D, bound |-> Earliest(D)]
      BY <2>2, <3>1, Zenon
    <3>3. /\ Taken(c, t, S)[i].complete = enough
          /\ Taken(c, t, S)[i].bound = Earliest(D)
          /\ Taken(c, t, S)[i].events = D
      BY <3>2
    <3> QED BY <3>1, <3>3, Zenon
  <2> QED BY <2>3, <2>4 DEF D
<1>2. CASE i # n
  <2>1. i \in 1 .. n - 1 /\ i < n
    BY <1>2
  <2>2. Taken(c, t, S)[i] = TakeStep(c.steps[i], S, acc)
    BY <2>1, TakenSteps
  <2>3. Taken(c, t, S)[i] = IF acc.complete /\ Cardinality(D) = c.steps[i].repeat
                              THEN [complete |-> TRUE, events |-> acc.events \cup D,
                                    bound |-> Earliest(D)]
                              ELSE [complete |-> FALSE, events |-> {}, bound |-> 0]
    BY <1>2, <2>2, Zenon DEF TakeStep, ChosenFor
  <2> HIDE DEF D, acc
  <2>4. CASE acc.complete /\ Cardinality(D) = c.steps[i].repeat
    <3>1. /\ Taken(c, t, S)[i].complete
          /\ Taken(c, t, S)[i].events = acc.events \cup D
          /\ Taken(c, t, S)[i].bound = Earliest(D)
      BY <2>3, <2>4
    <3> QED BY <2>1, <2>4, <3>1 DEF D, acc
  <2>5. CASE ~(acc.complete /\ Cardinality(D) = c.steps[i].repeat)
    <3>1. ~Taken(c, t, S)[i].complete
      BY <2>3, <2>5
    <3> QED BY <2>1, <2>5, <3>1 DEF D, acc
  <2> QED BY <2>4, <2>5
<1> QED BY <1>1, <1>2

LEMMA CompleteStep ==
  ASSUME NEW c, NEW t, NEW S, Len(c.steps) \in Nat \ {0}, NEW i \in 1 .. Len(c.steps),
         Taken(c, t, S)[i].complete
  PROVE  /\ Cardinality(ChosenFor(c, t, S, i)) = c.steps[i].repeat
         /\ Taken(c, t, S)[i].bound = Earliest(ChosenFor(c, t, S, i))
         /\ ChosenFor(c, t, S, i) \subseteq Taken(c, t, S)[i].events
<1>1. PICK n \in Nat \ {0} : n = Len(c.steps)
  OBVIOUS
<1>2. i \in 1 .. n
  BY <1>1
<1>3. /\ Taken(c, t, S)[i].complete =>
           /\ i < n => Taken(c, t, S)[i + 1].complete
           /\ Cardinality(ChosenFor(c, t, S, i)) = c.steps[i].repeat
      /\ Taken(c, t, S)[i].complete =>
           /\ Taken(c, t, S)[i].bound = Earliest(ChosenFor(c, t, S, i))
           /\ ChosenFor(c, t, S, i) \subseteq Taken(c, t, S)[i].events
  BY <1>1, <1>2, StepTaken
<1> QED BY <1>3

LEMMA StepCompletes ==
  ASSUME NEW c, NEW t, NEW S, Len(c.steps) \in Nat \ {0}, NEW i \in 1 .. Len(c.steps),
         i < Len(c.steps) => Taken(c, t, S)[i + 1].complete,
         Cardinality(ChosenFor(c, t, S, i)) = c.steps[i].repeat
  PROVE  Taken(c, t, S)[i].complete
<1>1. PICK n \in Nat \ {0} : n = Len(c.steps)
  OBVIOUS
<1>2. i \in 1 .. n /\ (i < n => Taken(c, t, S)[i + 1].complete)
  BY <1>1
<1>3. Taken(c, t, S)[i].complete <=>
        /\ i < n => Taken(c, t, S)[i + 1].complete
        /\ Cardinality(ChosenFor(c, t, S, i)) = c.steps[i].repeat
  BY <1>1, <1>2, StepTaken
<1> QED BY <1>2, <1>3

\* A finished search has chosen enough for every step, all of it evidence.
LEMMA FinishedSearch ==
  ASSUME NEW c, NEW t, NEW S, NEW n \in Nat \ {0}, n = Len(c.steps), Taken(c, t, S)[1].complete
  PROVE  \A i \in 1 .. n : /\ Taken(c, t, S)[i].complete
                           /\ Taken(c, t, S)[i].events \subseteq Taken(c, t, S)[1].events
<1> DEFINE Reached(i) == /\ Taken(c, t, S)[i].complete
                         /\ Taken(c, t, S)[i].events \subseteq Taken(c, t, S)[1].events
           Open == {i \in 1 .. n : ~Reached(i)}
<1>1. Open = {}
  <2> SUFFICES ASSUME Open # {} PROVE FALSE
    OBVIOUS
  <2>1. Open \subseteq Nat
    OBVIOUS
  <2>2. PICK i \in Open : \A j \in Open : i <= j
    <3> HIDE DEF Open
    <3> QED BY <2>1, LeastNatural
  <2>3. i \in 1 .. n /\ ~Reached(i)
    OBVIOUS
  <2>4. i # 1
    BY <2>3
  <2>5. i - 1 \in 1 .. n /\ (i - 1) + 1 = i /\ i - 1 < n
    BY <2>3, <2>4
  <2>6. i - 1 \notin Open
    <3> HIDE DEF Open
    <3> QED BY <2>2, <2>3
  <2>7. Reached(i - 1)
    <3> HIDE DEF Reached
    <3> QED BY <2>5, <2>6
  <2>8. /\ Taken(c, t, S)[i].complete
        /\ Taken(c, t, S)[i].events \subseteq Taken(c, t, S)[i - 1].events
    BY <2>5, <2>7, StepTaken
  <2> QED BY <2>3, <2>7, <2>8
<1> QED BY <1>1

\* What a search finds lies in periods of its own: each is closed by the latest
\* event chosen for its step.
LEMMA SearchSound ==
  ASSUME NEW r \in RuleUniverse, r.condition.kind = "sequence", NEW t \in EventUniverse,
         NEW H, H \subseteq EventUniverse, NEW G, G \subseteq EventUniverse,
         Matches(t, LastStep(r.condition)), HasAll(t, r.correlation),
         SequenceOf(r, t, H) # {}, SequenceOf(r, t, H) \subseteq G
  PROVE  Occurs(r, t, G)
<1> DEFINE c == r.condition
           S == SequenceCandidates(r, t, H)
           SG == SequenceCandidates(r, t, G)
           n == Len(c.steps)
           T == Taken(c, t, S)
           D(i) == ChosenFor(c, t, S, i)
           During(i, cut) == {e \in SG : /\ Matches(e, c.steps[i])
                                        /\ (i > 1 => e.at > cut[i - 1])
                                        /\ (i < n => e.at <= cut[i])}
<1>1. /\ c.window \in Nat /\ n \in Nat \ {0}
      /\ \A i \in 1 .. n : c.steps[i].repeat \in Nat \ {0}
  BY SequenceParameters
<1>2. T[1].complete /\ T[1].events \subseteq G
  BY DEF SequenceOf, IfMatch
<1>3. \A i \in 1 .. n : T[i].complete /\ T[i].events \subseteq T[1].events
  <2> HIDE DEF T, S
  <2> QED BY <1>1, <1>2, FinishedSearch DEF T
<1>4. ASSUME NEW i \in 1 .. n
      PROVE  /\ Cardinality(D(i)) = c.steps[i].repeat /\ D(i) \subseteq G
             /\ T[i].bound = Earliest(D(i))
  <2> HIDE DEF S, c
  <2>1. /\ Cardinality(D(i)) = c.steps[i].repeat /\ T[i].bound = Earliest(D(i))
        /\ D(i) \subseteq T[i].events
    BY <1>1, <1>3, CompleteStep
  <2> QED BY <2>1, <1>2, <1>3
<1>5. ASSUME NEW i \in 1 .. n
      PROVE  D(i) \subseteq {e \in SG : Matches(e, c.steps[i])} /\ D(i) # {} /\ D(i) \subseteq EventUniverse
  <2>1. \A e \in D(i) : (e \in S \/ e = t) /\ Matches(e, c.steps[i])
    BY DEF ChosenFor, ChosenBefore, Latest, LastStep
  <2>2. Within(t, t, c.window) /\ SameGroup(t, t, r.correlation)
    BY <1>1, EventFacts DEF Within, SameGroup
  <2>3. \A e \in D(i) : Within(e, t, c.window) /\ SameGroup(e, t, r.correlation)
    BY <2>1, <2>2 DEF SequenceCandidates
  <2>4. D(i) # {}
    BY <1>1, <1>4, FS_EmptySet
  <2> HIDE DEF D
  <2> QED BY <1>4, <2>1, <2>3, <2>4 DEF SequenceCandidates
<1>6. ASSUME NEW i \in 1 .. n, i < n, NEW d \in D(i), NEW e \in D(i + 1)
      PROVE  d.at < e.at
  <2>1. i + 1 \in 1 .. n /\ i # n
    BY <1>6
  <2>2. d.at < T[i + 1].bound
    BY <2>1 DEF ChosenFor, ChosenBefore, Latest
  <2>3. T[i + 1].bound <= e.at /\ \E f \in D(i + 1) : T[i + 1].bound = f.at
    <3> HIDE DEF D, T
    <3> QED BY <1>4, <1>5, <2>1, LeastTime
  <2>4. d \in EventUniverse /\ e \in EventUniverse
    <3> HIDE DEF D
    <3> QED BY <1>5, <2>1
  <2>5. d.at \in Nat /\ e.at \in Nat /\ T[i + 1].bound \in Nat
    <3> HIDE DEF D, T
    <3> QED BY <1>5, <2>1, <2>3, <2>4, EventFacts
  <2> QED BY <2>2, <2>3, <2>5
<1>7. \A i \in 1 .. n : \E d \in D(i) : \A e \in D(i) : e.at <= d.at
  <2> SUFFICES ASSUME NEW i \in 1 .. n
               PROVE  \E d \in D(i) : \A e \in D(i) : e.at <= d.at
    OBVIOUS
  <2>1. \A e \in D(i) : e.at <= t.at
    BY <1>5 DEF SequenceCandidates, Within
  <2>2. t.at \in Nat
    BY EventFacts
  <2> HIDE DEF D
  <2> QED BY <1>5, <2>1, <2>2, GreatestTime
<1> DEFINE final == [i \in 1 .. n |-> CHOOSE d \in D(i) : \A e \in D(i) : e.at <= d.at]
           cut == [i \in 1 .. n - 1 |-> final[i].at]
<1>8. \A i \in 1 .. n : final[i] \in D(i) /\ \A e \in D(i) : e.at <= final[i].at
  <2> HIDE DEF D
  <2> QED BY <1>7
<1> HIDE DEF final
<1>9. cut \in [1 .. n - 1 -> {e.at : e \in SG}]
  <2>1. ASSUME NEW i \in 1 .. n - 1 PROVE final[i] \in SG
    <3>1. i \in 1 .. n
      OBVIOUS
    <3> HIDE DEF D, SG
    <3> QED BY <1>5, <1>8, <3>1
  <2> HIDE DEF SG
  <2> QED BY <2>1
<1>10. ASSUME NEW i \in 1 .. n PROVE D(i) \subseteq During(i, cut)
  <2>1. ASSUME NEW e \in D(i), i > 1 PROVE e.at > cut[i - 1]
    <3>1. i - 1 \in 1 .. n /\ i - 1 \in 1 .. n - 1 /\ i - 1 < n /\ (i - 1) + 1 = i
      BY <2>1, <1>1
    <3>2. final[i - 1] \in D(i - 1)
      BY <1>8, <3>1
    <3>3. final[i - 1].at < e.at
      <4> HIDE DEF D
      <4> QED BY <1>6, <3>1, <3>2
    <3>4. cut[i - 1] = final[i - 1].at
      BY <3>1
    <3>5. e.at \in Nat /\ final[i - 1].at \in Nat
      <4> HIDE DEF D
      <4> QED BY <1>5, <3>1, <3>2, EventFacts
    <3> QED BY <3>3, <3>4, <3>5
  <2>2. ASSUME NEW e \in D(i), i < n PROVE e.at <= cut[i]
    BY <1>8, <2>2
  <2> HIDE DEF D, SG, cut
  <2> QED BY <1>5, <2>1, <2>2
<1>11. ASSUME NEW i \in 1 .. n PROVE Cardinality(During(i, cut)) >= c.steps[i].repeat
  <2>1. IsFiniteSet(During(i, cut))
    <3>1. During(i, cut) \subseteq EventUniverse
      BY DEF SequenceCandidates
    <3> HIDE DEF During
    <3> QED BY <3>1, EventFacts, FS_Subset
  <2> HIDE DEF During, D, cut
  <2>2. Cardinality(D(i)) <= Cardinality(During(i, cut))
    BY <1>10, <2>1, FS_Subset
  <2>3. Cardinality(D(i)) = c.steps[i].repeat
    BY <1>4
  <2> QED BY <2>2, <2>3, <1>1, <2>1, FS_CardinalityType
<1>12. t \in During(n, cut)
  <2>1. t \in D(n) /\ n \in 1 .. n
    BY <1>1 DEF ChosenFor
  <2> HIDE DEF During, D
  <2> QED BY <1>10, <2>1
<1>13. \E x \in [1 .. n - 1 -> {e.at : e \in SG}] :
         (\A i \in 1 .. n : Cardinality(During(i, x)) >= c.steps[i].repeat) /\ t \in During(n, x)
  <2> HIDE DEF During, cut, SG
  <2> QED BY <1>9, <1>11, <1>12
<1> QED BY <1>13, Zenon DEF Occurs

\* What has happened is found: whatever periods it lies in, the search of every
\* step ends after the period of the step before.
LEMMA SearchComplete ==
  ASSUME NEW r \in RuleUniverse, r.condition.kind = "sequence", NEW t \in EventUniverse,
         NEW H, H \subseteq EventUniverse, NEW G, G \subseteq EventUniverse,
         Matches(t, LastStep(r.condition)), HasAll(t, r.correlation), Occurs(r, t, G),
         \A e \in G, i \in 1 .. Len(r.condition.steps) :
           Matches(e, r.condition.steps[i]) /\ Within(e, t, r.condition.window) => e \in H
  PROVE  SequenceOf(r, t, H) # {}
<1> DEFINE c == r.condition
           S == SequenceCandidates(r, t, H)
           SG == SequenceCandidates(r, t, G)
           n == Len(c.steps)
           T == Taken(c, t, S)
           D(i) == ChosenFor(c, t, S, i)
           During(i, cut) == {e \in SG : /\ Matches(e, c.steps[i])
                                        /\ (i > 1 => e.at > cut[i - 1])
                                        /\ (i < n => e.at <= cut[i])}
<1>1. /\ c.window \in Nat /\ n \in Nat \ {0}
      /\ \A i \in 1 .. n : c.steps[i].repeat \in Nat \ {0}
  BY SequenceParameters
<1>2. PICK cut \in [1 .. n - 1 -> {e.at : e \in SG}] :
        /\ \A i \in 1 .. n : Cardinality(During(i, cut)) >= c.steps[i].repeat
        /\ t \in During(n, cut)
  BY Zenon DEF Occurs
<1>3. \A i \in 1 .. n - 1 : cut[i] \in Nat
  <2>1. \A e \in SG : e.at \in Nat
    BY EventFacts DEF SequenceCandidates
  <2> HIDE DEF SG
  <2> QED BY <2>1
<1>4. ASSUME NEW i \in 1 .. n
      PROVE  /\ During(i, cut) \subseteq {e \in S : Matches(e, c.steps[i])}
             /\ IsFiniteSet(During(i, cut)) /\ During(i, cut) \subseteq EventUniverse
  <2>1. During(i, cut) \subseteq {e \in S : Matches(e, c.steps[i])}
    BY DEF SequenceCandidates
  <2>2. During(i, cut) \subseteq EventUniverse
    BY DEF SequenceCandidates
  <2> HIDE DEF During
  <2> QED BY <2>1, <2>2, EventFacts, FS_Subset
<1> DEFINE Reached(i) == T[i].complete /\ (i > 1 => T[i].bound > cut[i - 1])
           Open == {k \in 0 .. n - 1 : ~Reached(n - k)}
<1>5. ASSUME NEW i \in 1 .. n, i < n => Reached(i + 1)
      PROVE  Cardinality(D(i)) = c.steps[i].repeat /\ (i > 1 => \A e \in D(i) : e.at > cut[i - 1])
  <2> DEFINE B == During(i, cut)
  <2>1. /\ B \subseteq {e \in S : Matches(e, c.steps[i])} /\ B \subseteq EventUniverse /\ IsFiniteSet(B)
        /\ Cardinality(B) >= c.steps[i].repeat /\ Cardinality(B) \in Nat
        /\ c.steps[i].repeat \in Nat /\ c.steps[i].repeat > 0
        /\ i > 1 => \A d \in B : d.at > cut[i - 1]
    <3>1. i > 1 => \A d \in B : d.at > cut[i - 1]
      OBVIOUS
    <3> HIDE DEF During, S
    <3> QED BY <1>1, <1>2, <1>4, <3>1, FS_CardinalityType
  <2>2. i > 1 => cut[i - 1] \in Int
    BY <1>1, <1>3
  <2>3. CASE i = n
    <3> DEFINE M == {e \in S \ {t} : Matches(e, c.steps[i])}
               m == c.steps[i].repeat - 1
    <3>1. M \subseteq EventUniverse /\ m \in Nat
      BY <2>1 DEF SequenceCandidates
    <3>2. B \ {t} \subseteq M
      <4> HIDE DEF B, S
      <4> QED BY <2>1
    <3>3. t \in B
      BY <1>2, <2>3
    <3>4. Cardinality(B \ {t}) >= m
      <4> HIDE DEF B
      <4>1. Cardinality(B \ {t}) = Cardinality(B) - 1
        BY <2>1, <3>3, FS_RemoveElement
      <4> QED BY <2>1, <4>1
    <3>5. IsFiniteSet(M) /\ Cardinality(M) >= m
      <4> HIDE DEF M, B, m
      <4>1. IsFiniteSet(M) /\ Cardinality(B \ {t}) <= Cardinality(M)
        BY <3>1, <3>2, EventFacts, FS_Subset
      <4>2. Cardinality(B \ {t}) \in Nat /\ Cardinality(M) \in Nat
        BY <2>1, <4>1, FS_Subset, FS_CardinalityType
      <4> QED BY <3>1, <3>4, <4>1, <4>2
    <3>6. Cardinality(Latest(M, m)) = m /\ t \notin Latest(M, m) /\ IsFiniteSet(Latest(M, m))
      <4>1. Latest(M, m) \subseteq M /\ t \notin M
        BY DEF Latest
      <4> HIDE DEF M, m
      <4> QED BY <3>1, <3>5, <4>1, LatestSize, FS_Subset
    <3>7. D(i) = {t} \cup Latest(M, m)
      BY <2>3 DEF ChosenFor
    <3>8. Cardinality(D(i)) = c.steps[i].repeat
      <4> HIDE DEF M, D
      <4>1. PICK L : L = Latest(M, m)
        OBVIOUS
      <4>2. Cardinality(L \cup {t}) = m + 1
        BY <3>6, <4>1, FS_AddElement
      <4>3. D(i) = L \cup {t}
        BY <3>7, <4>1
      <4> QED BY <2>1, <4>2, <4>3
    <3>9. ASSUME i > 1, NEW e \in D(i) PROVE e.at > cut[i - 1]
      <4>1. CASE e = t
        BY <2>1, <3>3, <3>9, <4>1
      <4>2. CASE e \in Latest(M, m)
        <5> HIDE DEF M, m, B, D
        <5>1. \A d \in B \ {t} : d.at > cut[i - 1]
          BY <2>1, <3>9
        <5>2. cut[i - 1] \in Int /\ B \ {t} \in SUBSET M
          BY <2>2, <3>2, <3>9
        <5> QED BY <3>1, <3>4, <4>2, <5>1, <5>2, LatestAbove
      <4> QED BY <3>7, <3>9, <4>1, <4>2
    <3> QED BY <3>8, <3>9
  <2>4. CASE i # n
    <3> DEFINE M == {e \in {f \in S : Matches(f, c.steps[i])} : e.at < T[i + 1].bound}
               m == c.steps[i].repeat
    <3>1. M \subseteq EventUniverse
      BY DEF SequenceCandidates
    <3>2. B \subseteq M
      <4>1. i < n /\ i + 1 > 1 /\ (i + 1) - 1 = i /\ i \in 1 .. n - 1 /\ i + 1 \in 1 .. n
        BY <2>4, <1>1
      <4>2. T[i + 1].complete /\ T[i + 1].bound > cut[i] /\ cut[i] \in Nat
        BY <1>3, <1>5, <4>1
      <4>3. T[i + 1].bound \in Nat
        <5>1. D(i + 1) \subseteq EventUniverse
          BY DEF ChosenFor, ChosenBefore, Latest, SequenceCandidates
        <5>2. T[i + 1].bound = Earliest(D(i + 1)) /\ Cardinality(D(i + 1)) = c.steps[i + 1].repeat
          <6> HIDE DEF S, c
          <6>1. PICK j \in 1 .. n : j = i + 1
            BY <4>1
          <6>2. T[j].complete
            BY <4>2, <6>1
          <6>3. T[j].bound = Earliest(D(j)) /\ Cardinality(D(j)) = c.steps[j].repeat
            BY <1>1, <6>2, CompleteStep
          <6> QED BY <6>1, <6>3
        <5>3. D(i + 1) # {}
          <6> HIDE DEF D
          <6> QED BY <1>1, <4>1, <5>2, FS_EmptySet
        <5> HIDE DEF D, T
        <5> QED BY <5>1, <5>2, <5>3, LeastTime, EventFacts
      <4>4. \A d \in B : d.at <= cut[i]
        BY <4>1
      <4>5. \A d \in B : d.at \in Nat
        <5> HIDE DEF B
        <5> QED BY <2>1, EventFacts
      <4> HIDE DEF B, T, S
      <4> QED BY <2>1, <4>2, <4>3, <4>4, <4>5
    <3>3. IsFiniteSet(M) /\ Cardinality(M) >= m
      <4> HIDE DEF M, B
      <4>1. IsFiniteSet(M) /\ Cardinality(B) <= Cardinality(M)
        BY <3>1, <3>2, EventFacts, FS_Subset
      <4>2. Cardinality(M) \in Nat
        BY <4>1, FS_CardinalityType
      <4> QED BY <2>1, <4>1, <4>2
    <3>4. D(i) = Latest(M, m)
      BY <2>4 DEF ChosenFor, ChosenBefore
    <3>5. Cardinality(D(i)) = c.steps[i].repeat
      <4> HIDE DEF M, D
      <4> QED BY <2>1, <3>1, <3>3, <3>4, LatestSize
    <3>6. ASSUME i > 1, NEW e \in D(i) PROVE e.at > cut[i - 1]
      <4>1. e \in Latest(M, m)
        BY <3>4, <3>6
      <4> HIDE DEF M, B, D
      <4> QED BY <2>1, <2>2, <3>1, <3>2, <3>6, <4>1, LatestAbove
    <3> QED BY <3>5, <3>6
  <2> QED BY <2>3, <2>4
<1>6. ASSUME NEW i \in 1 .. n, i < n => Reached(i + 1)
      PROVE  Reached(i)
  <2>1. Cardinality(D(i)) = c.steps[i].repeat /\ (i > 1 => \A e \in D(i) : e.at > cut[i - 1])
    <3> HIDE DEF D, Reached
    <3> QED BY <1>5, <1>6
  <2>2. i < n => T[i + 1].complete
    BY <1>6
  <2>3. T[i].complete /\ T[i].bound = Earliest(D(i))
    <3> HIDE DEF S, c
    <3>1. T[i].complete
      BY <1>1, <2>1, <2>2, StepCompletes
    <3> QED BY <1>1, <3>1, CompleteStep
  <2>4. D(i) \subseteq EventUniverse
    BY DEF ChosenFor, ChosenBefore, Latest, SequenceCandidates
  <2>5. D(i) # {}
    <3> HIDE DEF D
    <3> QED BY <1>1, <2>1, FS_EmptySet
  <2>6. \E e \in D(i) : T[i].bound = e.at
    <3> HIDE DEF D, T
    <3> QED BY <2>3, <2>4, <2>5, LeastTime
  <2> HIDE DEF D, T
  <2> QED BY <2>1, <2>3, <2>6
<1>7. Open = {}
  <2> SUFFICES ASSUME Open # {} PROVE FALSE
    OBVIOUS
  <2>1. Open \subseteq Nat
    OBVIOUS
  <2>2. PICK k \in Open : \A j \in Open : k <= j
    <3> HIDE DEF Open
    <3> QED BY <2>1, LeastNatural
  <2>3. k \in 0 .. n - 1 /\ ~Reached(n - k)
    BY <2>2
  <2>4. n - k \in 1 .. n /\ (n - k < n => k - 1 \in 0 .. n - 1 /\ n - (k - 1) = (n - k) + 1)
    BY <2>3, <1>1
  <2>5. n - k < n => k - 1 \notin Open
    <3> HIDE DEF Open
    <3> QED BY <2>2, <2>3, <2>4
  <2>6. n - k < n => Reached((n - k) + 1)
    <3> HIDE DEF Reached
    <3> QED BY <2>4, <2>5
  <2> HIDE DEF Reached
  <2> QED BY <1>6, <2>3, <2>4, <2>6
<1>8. T[1].complete
  <2>1. n - 1 \in 0 .. n - 1 /\ n - (n - 1) = 1
    BY <1>1
  <2>2. Reached(1)
    <3> HIDE DEF Reached
    <3> QED BY <1>7, <2>1
  <2> QED BY <2>2
<1>9. D(1) # {} /\ D(1) \subseteq T[1].events
  <2>1. D(1) \subseteq T[1].events /\ Cardinality(D(1)) = c.steps[1].repeat /\ 1 \in 1 .. n
    <3> HIDE DEF S, c
    <3>1. PICK j \in 1 .. n : j = 1
      BY <1>1
    <3>2. T[j].complete
      BY <1>8, <3>1
    <3>3. D(j) \subseteq T[j].events /\ Cardinality(D(j)) = c.steps[j].repeat
      BY <1>1, <3>2, CompleteStep
    <3> QED BY <3>1, <3>3
  <2> HIDE DEF D
  <2> QED BY <1>1, <2>1, FS_EmptySet
<1>10. SequenceOf(r, t, H) = T[1].events
  BY <1>8 DEF SequenceOf, IfMatch
<1> HIDE DEF D, T
<1> QED BY <1>9, <1>10

-----------------------------------------------------------------------------
(* Evidence of a match *)

\* A search takes nothing but the trigger and its candidates.
LEMMA TakenFromCandidates ==
  ASSUME NEW c, NEW t, NEW S, NEW n \in Nat \ {0}, n = Len(c.steps)
  PROVE  Taken(c, t, S)[1].events \subseteq S \cup {t}
<1> DEFINE Inside(i) == Taken(c, t, S)[i].events \subseteq S \cup {t}
           Open == {k \in 0 .. n - 1 : ~Inside(n - k)}
<1>1. Inside(n)
  <2> DEFINE last == {t} \cup Latest({e \in S \ {t} : Matches(e, c.steps[n])}, c.steps[n].repeat - 1)
  <2>1. Taken(c, t, S)[n] = TakeLast(c.steps[n], t, S)
    BY TakenSteps
  <2>2. last \subseteq S \cup {t}
    BY DEF Latest
  <2>3. PICK enough : Taken(c, t, S)[n] = [complete |-> enough, events |-> last, bound |-> Earliest(last)]
    BY <2>1, Zenon DEF TakeLast
  <2> HIDE DEF last
  <2>4. Taken(c, t, S)[n].events = last
    BY <2>3
  <2> QED BY <2>2, <2>4
<1>2. ASSUME NEW i \in 1 .. n - 1, Inside(i + 1)
      PROVE  Inside(i)
  <2> DEFINE acc    == Taken(c, t, S)[i + 1]
             chosen == ChosenBefore({e \in S : Matches(e, c.steps[i])}, acc.bound, c.steps[i].repeat)
  <2>1. Taken(c, t, S)[i] = TakeStep(c.steps[i], S, acc)
    BY TakenSteps
  <2>2. chosen \subseteq S
    BY DEF ChosenBefore, Latest
  <2>3. Taken(c, t, S)[i] = IF acc.complete /\ Cardinality(chosen) = c.steps[i].repeat
                              THEN [complete |-> TRUE, events |-> acc.events \cup chosen,
                                    bound |-> Earliest(chosen)]
                              ELSE [complete |-> FALSE, events |-> {}, bound |-> 0]
    BY <2>1, Zenon DEF TakeStep
  <2>4. Taken(c, t, S)[i].events = acc.events \cup chosen \/ Taken(c, t, S)[i].events = {}
    <3> HIDE DEF acc, chosen
    <3> QED BY <2>3
  <2> HIDE DEF chosen
  <2> QED BY <1>2, <2>2, <2>4
<1>3. Open = {}
  <2> SUFFICES ASSUME Open # {} PROVE FALSE
    OBVIOUS
  <2>1. Open \subseteq Nat
    OBVIOUS
  <2>2. PICK k \in Open : \A j \in Open : k <= j
    <3> HIDE DEF Open
    <3> QED BY <2>1, LeastNatural
  <2>3. k \in 0 .. n - 1 /\ ~Inside(n - k)
    BY <2>2
  <2>4. k # 0
    <3>1. k = 0 => n - k = n
      OBVIOUS
    <3> HIDE DEF Inside
    <3> QED BY <1>1, <2>3, <3>1
  <2>5. n - k \in 1 .. n - 1 /\ k - 1 \in 0 .. n - 1 /\ n - (k - 1) = (n - k) + 1
    BY <2>3, <2>4
  <2>6. k - 1 \notin Open
    <3> HIDE DEF Open
    <3> QED BY <2>2, <2>3, <2>5
  <2>7. Inside((n - k) + 1)
    <3> HIDE DEF Inside
    <3> QED BY <2>5, <2>6
  <2> HIDE DEF Inside
  <2> QED BY <1>2, <2>3, <2>5, <2>7
<1>4. n - 1 \in 0 .. n - 1 /\ n - (n - 1) = 1
  OBVIOUS
<1>5. Inside(1)
  <2> HIDE DEF Inside
  <2> QED BY <1>3, <1>4
<1> QED BY <1>5

\* The evidence of a sequence is the trigger and events of the history.
LEMMA SequenceFromHistory ==
  ASSUME NEW r \in RuleUniverse, r.condition.kind = "sequence", NEW t, NEW H
  PROVE  SequenceOf(r, t, H) \subseteq H \cup {t}
<1>1. PICK n \in Nat \ {0} : n = Len(r.condition.steps)
  BY SequenceParameters
<1>2. Taken(r.condition, t, SequenceCandidates(r, t, H))[1].events
        \subseteq SequenceCandidates(r, t, H) \cup {t}
  BY <1>1, TakenFromCandidates
<1> QED BY <1>2 DEF SequenceOf, IfMatch, SequenceCandidates

\* The history of a sequence holds every stored event its steps can match.
LEMMA SequenceHistory ==
  ASSUME NEW r \in RuleUniverse, r.condition.kind = "sequence", NEW t, NEW G
  PROVE  /\ LoadHistory(r, t, G) \subseteq G
         /\ \A e \in G, i \in 1 .. Len(r.condition.steps) :
              Matches(e, r.condition.steps[i]) /\ Within(e, t, r.condition.window)
                => e \in LoadHistory(r, t, G)
<1>1. DOMAIN r.condition.steps = 1 .. Len(r.condition.steps)
  BY RulesAssumption DEF RulesAssumption
<1>2. LoadHistory(r, t, G) = {e \in G : /\ e.type \in {r.condition.steps[i].type :
                                                          i \in DOMAIN r.condition.steps}
                                        /\ Within(e, t, r.condition.window)}
  BY DEF LoadHistory, HistoryTypes
<1>3. ASSUME NEW e \in G, NEW i \in 1 .. Len(r.condition.steps),
             Matches(e, r.condition.steps[i]), Within(e, t, r.condition.window)
      PROVE  e \in LoadHistory(r, t, G)
  <2>1. e.type = r.condition.steps[i].type
    BY <1>3 DEF Matches
  <2> QED BY <1>1, <1>2, <1>3, <2>1
<1> QED BY <1>2, <1>3

\* Evidence is never made up: what a rule finds is stored.
LEMMA EvidenceStored ==
  ASSUME NEW r \in RuleUniverse, NEW t, NEW G, t \in G
  PROVE  EvaluateRule(r, t, LoadHistory(r, t, G)) \subseteq G
<1>1. PICK H : H = LoadHistory(r, t, G)
  OBVIOUS
<1>2. H \subseteq G
  BY <1>1 DEF LoadHistory
<1>3. r.condition.kind \in {"single", "threshold", "distinct", "sequence", "first_seen"}
  BY RulesAssumption DEF RulesAssumption
<1>4. CASE r.condition.kind = "single"
  BY <1>1, <1>4 DEF EvaluateRule
<1>5. CASE r.condition.kind = "threshold"
  <2>1. Threshold(r.condition, t, H) \subseteq H
    BY DEF Threshold, IfMatch
  <2>2. EvaluateRule(r, t, H) \subseteq Threshold(r.condition, t, H)
    BY <1>5 DEF EvaluateRule
  <2> QED BY <1>1, <1>2, <2>1, <2>2
<1>6. CASE r.condition.kind = "distinct"
  <2>1. Distinct(r.condition, t, H) \subseteq H
    BY DEF Distinct, IfMatch
  <2>2. EvaluateRule(r, t, H) \subseteq Distinct(r.condition, t, H)
    BY <1>6 DEF EvaluateRule
  <2> QED BY <1>1, <1>2, <2>1, <2>2
<1>7. CASE r.condition.kind = "sequence"
  <2>1. SequenceOf(r, t, H) \subseteq H \cup {t}
    BY <1>7, SequenceFromHistory
  <2>2. EvaluateRule(r, t, H) \subseteq SequenceOf(r, t, H)
    BY <1>7 DEF EvaluateRule
  <2> QED BY <1>1, <1>2, <2>1, <2>2
<1>8. CASE r.condition.kind = "first_seen"
  <2>1. FirstSeen(r.condition, t, H) \subseteq H \cup {t}
    BY DEF FirstSeen, IfMatch
  <2>2. EvaluateRule(r, t, H) \subseteq FirstSeen(r.condition, t, H)
    BY <1>8 DEF EvaluateRule
  <2> QED BY <1>1, <1>2, <2>1, <2>2
<1> QED BY <1>3, <1>4, <1>5, <1>6, <1>7, <1>8

\* What one new event changes: the buckets of the rules it triggers gain the
\* evidence found, every other incident stays as it was.
LEMMA IngestStep ==
  ASSUME NEW e, Ingest({e})
  PROVE  /\ rulesStored' = rulesStored \cup {e}
         /\ \A b \in DOMAIN rulesFound' :
              \/ /\ b \in DOMAIN rulesFound
                 /\ rulesFound'[b] = rulesFound[b]
              \/ \E r \in RuleUniverse :
                   /\ b = <<r.rule_key, Group(e, r.correlation)>>
                   /\ HasAll(e, r.correlation)
                   /\ EvaluateRule(r, e, LoadHistory(r, e, rulesStored')) # {}
                   /\ {f.id : f \in EvaluateRule(r, e, LoadHistory(r, e, rulesStored'))}
                        \subseteq rulesFound'[b]
         /\ \A b \in DOMAIN rulesFound' : \A i \in rulesFound'[b] :
              \/ b \in DOMAIN rulesFound /\ i \in rulesFound[b]
              \/ \E r \in RuleUniverse :
                   i \in {f.id : f \in EvaluateRule(r, e, LoadHistory(r, e, rulesStored'))}
<1> DEFINE matches == RunDetection(RuleUniverse, {e}, rulesStored \cup {e})
           hits == {m \in matches : m[2] # {}}
           NewLinks(b) == UNION {{f.id : f \in m[2]} : m \in {h \in hits : h[1] = b}}
<1>1. rulesStored' = rulesStored \cup {e} /\ rulesFound' = Persisted(rulesFound, matches)
  BY DEF Ingest
<1>2. rulesFound' = [b \in DOMAIN rulesFound \cup {m[1] : m \in hits} |->
                       (IF b \in DOMAIN rulesFound THEN rulesFound[b] ELSE {}) \cup NewLinks(b)]
  <2> HIDE DEF matches
  <2> QED BY <1>1, Zenon DEF Persisted
<1>3. ASSUME NEW m \in matches
      PROVE  \E r \in RuleUniverse :
               /\ m = <<<<r.rule_key, Group(e, r.correlation)>>,
                        EvaluateRule(r, e, LoadHistory(r, e, rulesStored'))>>
               /\ HasAll(e, r.correlation)
  <2>1. PICK p \in RuleUniverse \X {e} :
          m = MatchOf(p[1], p[2], rulesStored \cup {e}) /\ HasAll(p[2], p[1].correlation)
    BY DEF RunDetection
  <2>2. p[1] \in RuleUniverse /\ p[2] = e
    OBVIOUS
  <2> QED BY <1>1, <2>1, <2>2, Zenon DEF MatchOf
<1> HIDE DEF matches
<1>4. ASSUME NEW m \in hits
      PROVE  /\ \E r \in RuleUniverse :
                  /\ m[1] = <<r.rule_key, Group(e, r.correlation)>>
                  /\ m[2] = EvaluateRule(r, e, LoadHistory(r, e, rulesStored'))
                  /\ HasAll(e, r.correlation)
             /\ m[2] # {}
  <2>1. PICK r \in RuleUniverse :
               /\ m = <<<<r.rule_key, Group(e, r.correlation)>>,
                        EvaluateRule(r, e, LoadHistory(r, e, rulesStored'))>>
               /\ HasAll(e, r.correlation)
    BY <1>3
  <2>2. /\ m[1] = <<r.rule_key, Group(e, r.correlation)>>
        /\ m[2] = EvaluateRule(r, e, LoadHistory(r, e, rulesStored'))
    BY <2>1
  <2> QED BY <2>1, <2>2
<1> HIDE DEF hits
<1>5. ASSUME NEW b \in DOMAIN rulesFound'
      PROVE  /\ b \in DOMAIN rulesFound \cup {m[1] : m \in hits}
             /\ rulesFound'[b] = (IF b \in DOMAIN rulesFound THEN rulesFound[b] ELSE {}) \cup NewLinks(b)
  <2> HIDE DEF NewLinks
  <2> QED BY <1>2
<1>6. ASSUME NEW b \in DOMAIN rulesFound', ~ \E m \in hits : m[1] = b
      PROVE  b \in DOMAIN rulesFound /\ rulesFound'[b] = rulesFound[b]
  <2>1. NewLinks(b) = {}
    BY <1>6
  <2>2. b \in DOMAIN rulesFound
    BY <1>5, <1>6
  <2> HIDE DEF NewLinks
  <2> QED BY <1>5, <2>1, <2>2
<1>7. ASSUME NEW b \in DOMAIN rulesFound', NEW m \in hits, m[1] = b
      PROVE  \E r \in RuleUniverse :
                   /\ b = <<r.rule_key, Group(e, r.correlation)>>
                   /\ HasAll(e, r.correlation)
                   /\ EvaluateRule(r, e, LoadHistory(r, e, rulesStored')) # {}
                   /\ {f.id : f \in EvaluateRule(r, e, LoadHistory(r, e, rulesStored'))}
                        \subseteq rulesFound'[b]
  <2>1. {f.id : f \in m[2]} \subseteq NewLinks(b)
    BY <1>7
  <2>2. NewLinks(b) \subseteq rulesFound'[b]
    <3> HIDE DEF NewLinks
    <3> QED BY <1>5
  <2>3. PICK r \in RuleUniverse : /\ m[1] = <<r.rule_key, Group(e, r.correlation)>>
                                  /\ m[2] = EvaluateRule(r, e, LoadHistory(r, e, rulesStored'))
                                  /\ HasAll(e, r.correlation)
    BY <1>4
  <2> HIDE DEF NewLinks
  <2> QED BY <1>4, <1>7, <2>1, <2>2, <2>3
<1>8. ASSUME NEW b \in DOMAIN rulesFound', NEW i \in rulesFound'[b]
      PROVE  \/ b \in DOMAIN rulesFound /\ i \in rulesFound[b]
             \/ \E r \in RuleUniverse :
                  i \in {f.id : f \in EvaluateRule(r, e, LoadHistory(r, e, rulesStored'))}
  <2>1. (b \in DOMAIN rulesFound /\ i \in rulesFound[b]) \/ i \in NewLinks(b)
    <3> HIDE DEF NewLinks
    <3> QED BY <1>5
  <2>2. ASSUME i \in NewLinks(b) PROVE \E m \in hits : i \in {f.id : f \in m[2]}
    BY <2>2
  <2> QED BY <1>4, <2>1, <2>2
<1> QED BY <1>1, <1>6, <1>7, <1>8

-----------------------------------------------------------------------------
(* Stored events and links *)

\* Links point to stored events.
RulesInvariant ==
  /\ rulesStored \subseteq EventUniverse
  /\ \A b \in DOMAIN rulesFound : rulesFound[b] \subseteq {e.id : e \in rulesStored}

\* RulesInvariant: no transaction links an event that is not stored.
THEOREM LinksAreStored == RulesSpec => []RulesInvariant
<1>1. RulesInit => RulesInvariant
  BY DEF RulesInit, RulesInvariant
<1>2. RulesInvariant /\ [RulesNext]_rulesVars => RulesInvariant'
  <2> SUFFICES ASSUME RulesInvariant, [RulesNext]_rulesVars PROVE RulesInvariant'
    OBVIOUS
  <2>1. CASE UNCHANGED rulesVars
    BY <2>1 DEF RulesInvariant, rulesVars
  <2>2. ASSUME NEW e \in EventUniverse \ rulesStored, Ingest({e}) PROVE RulesInvariant'
    <3>1. rulesStored' = rulesStored \cup {e}
      BY <2>2, IngestStep
    <3>2. ASSUME NEW b \in DOMAIN rulesFound', NEW i \in rulesFound'[b]
          PROVE  i \in {f.id : f \in rulesStored'}
      <4>1. CASE b \in DOMAIN rulesFound /\ i \in rulesFound[b]
        <5>1. i \in {f.id : f \in rulesStored}
          BY <4>1 DEF RulesInvariant
        <5> QED BY <3>1, <5>1
      <4>2. ASSUME NEW r \in RuleUniverse,
                   i \in {f.id : f \in EvaluateRule(r, e, LoadHistory(r, e, rulesStored'))}
            PROVE  i \in {f.id : f \in rulesStored'}
        <5>1. EvaluateRule(r, e, LoadHistory(r, e, rulesStored')) \subseteq rulesStored'
          BY <3>1, EvidenceStored
        <5> QED BY <4>2, <5>1
      <4> QED BY <2>2, <4>1, <4>2, IngestStep
    <3> QED BY <3>1, <3>2 DEF RulesInvariant
  <2> QED BY <2>1, <2>2 DEF RulesNext
<1> QED BY <1>1, <1>2, PTL DEF RulesSpec

\* SequenceComplete (DetectionRules): the backward search of _evaluate_sequence,
\* which keeps only the latest events of each step, finds a sequence exactly
\* when one has happened, for every rule of the schema and every history.
THEOREM SearchMissesNothing == RulesSpec => []SequenceComplete
<1>1. ASSUME rulesStored \subseteq EventUniverse PROVE SequenceComplete
  <2> SUFFICES ASSUME NEW r \in RuleUniverse, NEW t \in rulesStored, r.condition.kind = "sequence",
                      CanTrigger(r, t), HasAll(t, r.correlation)
               PROVE  SequenceOf(r, t, LoadHistory(r, t, rulesStored)) # {}
                        <=> Occurs(r, t, rulesStored)
    BY DEF SequenceComplete
  <2>1. PICK G, H : G = rulesStored /\ H = LoadHistory(r, t, rulesStored)
    OBVIOUS
  <2>2. /\ H \subseteq G
        /\ \A e \in G, i \in 1 .. Len(r.condition.steps) :
             Matches(e, r.condition.steps[i]) /\ Within(e, t, r.condition.window) => e \in H
    BY <2>1, SequenceHistory
  <2>3. Matches(t, LastStep(r.condition))
    BY DEF CanTrigger
  <2>4. t \in G /\ G \subseteq EventUniverse /\ H \subseteq EventUniverse /\ t \in EventUniverse
    BY <1>1, <2>1, <2>2
  <2>5. SequenceOf(r, t, H) \subseteq G
    BY <2>2, <2>4, SequenceFromHistory
  <2>6. SequenceOf(r, t, H) # {} => Occurs(r, t, G)
    BY <2>3, <2>4, <2>5, SearchSound
  <2>7. Occurs(r, t, G) => SequenceOf(r, t, H) # {}
    BY <2>2, <2>3, <2>4, SearchComplete
  <2> QED BY <2>1, <2>6, <2>7
<1>2. RulesInvariant => SequenceComplete
  BY <1>1 DEF RulesInvariant
<1> QED BY <1>2, LinksAreStored, PTL

-----------------------------------------------------------------------------
(* Evidence on its own *)

\* The incidents of a rule that counts distinct values are told apart by fields
\* the rule groups by.  The schema does not ask for it; the shipped rules do it.
CountsPerIncident ==
  \A r \in RuleUniverse : r.condition.kind = "distinct" =>
    \A i \in DOMAIN r.correlation :
      \E j \in DOMAIN r.condition.group : r.correlation[i] = r.condition.group[j]

\* What the schema promises of the rules that are not sequences.
LEMMA RuleParameters ==
  ASSUME NEW r \in RuleUniverse
  PROVE  /\ r.condition.kind \in {"single", "threshold", "distinct", "sequence", "first_seen"}
         /\ r.condition.kind # "single" => r.condition.window \in Nat
         /\ r.condition.kind \in {"threshold", "distinct"} => r.condition.threshold \in Nat
         /\ r.condition.kind = "distinct" => r.condition.minimum \in Nat
BY RulesAssumption DEF RulesAssumption

\* What a match says of its trigger.
LEMMA TriggerOfMatch ==
  ASSUME NEW r, NEW t, NEW H, EvaluateRule(r, t, H) # {}
  PROVE  r.enabled /\ CanTrigger(r, t) /\ HasAll(t, r.correlation)
BY DEF EvaluateRule

\* A condition that is no sequence finds all it can match in its history.
LEMMA PlainHistory ==
  ASSUME NEW r \in RuleUniverse, r.condition.kind \in {"threshold", "distinct", "first_seen"},
         NEW t, NEW G
  PROVE  /\ LoadHistory(r, t, G) \subseteq G
         /\ \A e \in G : Matches(e, r.condition) /\ Within(e, t, r.condition.window)
              => e \in LoadHistory(r, t, G)
BY DEF LoadHistory, HistoryTypes, Matches

\* An event lies in its own window and in its own group.
LEMMA OwnWindow ==
  ASSUME NEW t \in EventUniverse, NEW w \in Nat
  PROVE  Within(t, t, w)
<1>1. t.at \in Nat
  BY EventFacts
<1> QED BY <1>1 DEF Within

LEMMA ThresholdAgain ==
  ASSUME NEW r \in RuleUniverse, r.condition.kind = "threshold", NEW G, G \subseteq EventUniverse,
         NEW t \in G, NEW F, F \subseteq G,
         EvaluateRule(r, t, LoadHistory(r, t, G)) # {},
         EvaluateRule(r, t, LoadHistory(r, t, G)) \subseteq F
  PROVE  t \in F /\ EvaluateRule(r, t, F) # {}
<1> DEFINE c == r.condition
           X == {e \in LoadHistory(r, t, G) : Within(e, t, c.window) /\ Matches(e, c) /\ SameGroup(e, t, c.group)}
           Y == {e \in F : Within(e, t, c.window) /\ Matches(e, c) /\ SameGroup(e, t, c.group)}
<1>1. r.enabled /\ CanTrigger(r, t) /\ HasAll(t, r.correlation)
  BY TriggerOfMatch
<1>2. \A H : EvaluateRule(r, t, H) = Threshold(c, t, H)
  BY <1>1 DEF EvaluateRule
<1>3. /\ HasAll(t, c.group) /\ Cardinality(X) >= c.threshold
      /\ Threshold(c, t, LoadHistory(r, t, G)) = X
  <2>1. Threshold(c, t, LoadHistory(r, t, G)) =
          IF HasAll(t, c.group) /\ Cardinality(X) >= c.threshold THEN X ELSE {}
    BY Zenon DEF Threshold, IfMatch
  <2> HIDE DEF X
  <2> QED BY <1>2, <2>1
<1>4. X \subseteq F
  <2> HIDE DEF X
  <2> QED BY <1>2, <1>3
<1>5. \A e \in G : Matches(e, c) /\ Within(e, t, c.window) => e \in LoadHistory(r, t, G)
  BY PlainHistory
<1>6. X = Y
  BY <1>4, <1>5
<1>7. t \in X
  <2>1. Matches(t, c)
    BY <1>1 DEF CanTrigger
  <2>2. Within(t, t, c.window)
    BY RuleParameters, OwnWindow
  <2>3. SameGroup(t, t, c.group)
    BY <1>3 DEF SameGroup
  <2> QED BY <1>5, <2>1, <2>2, <2>3
<1>8. Threshold(c, t, F) = IF HasAll(t, c.group) /\ Cardinality(Y) >= c.threshold THEN Y ELSE {}
  BY Zenon DEF Threshold, IfMatch
<1> HIDE DEF X, Y
<1> QED BY <1>2, <1>3, <1>4, <1>6, <1>7, <1>8

LEMMA FirstSeenAgain ==
  ASSUME NEW r \in RuleUniverse, r.condition.kind = "first_seen", NEW G, G \subseteq EventUniverse,
         NEW t \in G, NEW F, F \subseteq G,
         EvaluateRule(r, t, LoadHistory(r, t, G)) # {},
         EvaluateRule(r, t, LoadHistory(r, t, G)) \subseteq F
  PROVE  t \in F /\ EvaluateRule(r, t, F) # {}
<1> DEFINE c == r.condition
           Baseline(H) == {e \in H \ {t} : /\ Within(e, t, c.window)
                                           /\ Matches(e, c)
                                           /\ SameGroup(e, t, c.scope)}
           X == Baseline(LoadHistory(r, t, G))
           Y == Baseline(F)
           New(B) == /\ Has(t, c.value) /\ HasAll(t, c.scope)
                     /\ Cardinality(B) >= c.required
                     /\ \A e \in B : Has(e, c.value) => e.fields[c.value] # t.fields[c.value]
<1>1. r.enabled /\ CanTrigger(r, t) /\ HasAll(t, r.correlation)
  BY TriggerOfMatch
<1>2. \A H : EvaluateRule(r, t, H) = FirstSeen(c, t, H)
  BY <1>1 DEF EvaluateRule
<1>3. New(X) /\ FirstSeen(c, t, LoadHistory(r, t, G)) = X \cup {t}
  <2>1. FirstSeen(c, t, LoadHistory(r, t, G)) = IF New(X) THEN X \cup {t} ELSE {}
    BY DEF FirstSeen, IfMatch
  <2> HIDE DEF X, New
  <2> QED BY <1>2, <2>1
<1>4. X \subseteq F /\ t \in F
  <2> HIDE DEF X, New
  <2> QED BY <1>2, <1>3
<1>5. \A e \in G : Matches(e, c) /\ Within(e, t, c.window) => e \in LoadHistory(r, t, G)
  BY PlainHistory
<1>6. X = Y
  BY <1>4, <1>5
<1>7. FirstSeen(c, t, F) = IF New(Y) THEN Y \cup {t} ELSE {}
  BY DEF FirstSeen, IfMatch
<1> HIDE DEF X, Y, New
<1> QED BY <1>2, <1>3, <1>4, <1>6, <1>7

\* A trigger without the counted field is no evidence; the latest event of the
\* evidence takes its place.
LEMMA DistinctAgain ==
  ASSUME CountsPerIncident,
         NEW r \in RuleUniverse, r.condition.kind = "distinct", NEW G, G \subseteq EventUniverse,
         NEW t \in G, NEW F, F \subseteq G,
         EvaluateRule(r, t, LoadHistory(r, t, G)) # {},
         EvaluateRule(r, t, LoadHistory(r, t, G)) \subseteq F
  PROVE  \E u \in F : /\ HasAll(u, r.correlation) /\ Group(u, r.correlation) = Group(t, r.correlation)
                      /\ EvaluateRule(r, u, F) # {}
<1> DEFINE c == r.condition
           Counted(u, H) == {e \in H : /\ Within(e, u, c.window)
                                       /\ Matches(e, c)
                                       /\ SameGroup(e, u, c.group)
                                       /\ Has(e, c.counted)}
           Values(B) == {e.fields[c.counted] : e \in B}
           Enough(B) == Cardinality(B) >= c.minimum /\ Cardinality(Values(B)) >= c.threshold
           X == Counted(t, LoadHistory(r, t, G))
<1>1. r.enabled /\ CanTrigger(r, t) /\ HasAll(t, r.correlation)
  BY TriggerOfMatch
<1>2. EvaluateRule(r, t, LoadHistory(r, t, G)) = Distinct(c, t, LoadHistory(r, t, G))
  BY <1>1 DEF EvaluateRule
<1>3. \A u, H : Distinct(c, u, H) = IF HasAll(u, c.group) /\ Enough(Counted(u, H)) THEN Counted(u, H) ELSE {}
  BY Zenon DEF Distinct, IfMatch
<1>4. HasAll(t, c.group) /\ Enough(X) /\ X # {} /\ X \subseteq F
  <2>1. Distinct(c, t, LoadHistory(r, t, G)) = IF HasAll(t, c.group) /\ Enough(X) THEN X ELSE {}
    BY <1>3, Zenon
  <2> HIDE DEF X, Enough
  <2> QED BY <1>2, <2>1
<1>5. c.window \in Nat /\ c.minimum \in Nat /\ c.threshold \in Nat
  BY RuleParameters
<1>6. X \subseteq EventUniverse /\ t.at \in Nat /\ \A e \in X : e.at \in Nat
  <2>1. X \subseteq EventUniverse
    BY <1>4
  <2> HIDE DEF X
  <2> QED BY <2>1, EventFacts
<1>7. \A e \in X : e.at <= t.at /\ e.at >= t.at - c.window
  BY DEF Within
<1>8. PICK u \in X : \A e \in X : e.at <= u.at
  <2> HIDE DEF X
  <2> QED BY <1>4, <1>6, <1>7, GreatestTime
<1>9. HasAll(u, c.group) /\ Group(u, c.group) = Group(t, c.group) /\ Matches(u, c)
  BY DEF SameGroup
<1>10. X \subseteq Counted(u, F)
  <2>1. ASSUME NEW e \in X PROVE Within(e, u, c.window)
    <3>1. e.at <= u.at /\ e.at >= t.at - c.window /\ u.at <= t.at
      <4> HIDE DEF X
      <4> QED BY <1>7, <1>8
    <3>2. e.at \in Nat /\ u.at \in Nat
      <4> HIDE DEF X
      <4> QED BY <1>6
    <3> HIDE DEF X, c
    <3> QED BY <1>5, <1>6, <3>1, <3>2 DEF Within
  <2>2. \A e \in X : Matches(e, c) /\ Has(e, c.counted)
    OBVIOUS
  <2>3. \A e \in X : SameGroup(e, u, c.group)
    BY <1>9 DEF SameGroup
  <2> HIDE DEF X
  <2> QED BY <1>4, <2>1, <2>2, <2>3
<1>11. Enough(Counted(u, F))
  <2>1. IsFiniteSet(Counted(u, F))
    <3>1. Counted(u, F) \subseteq EventUniverse
      OBVIOUS
    <3> HIDE DEF Counted
    <3> QED BY <3>1, EventFacts, FS_Subset
  <2> HIDE DEF X, Counted
  <2>2. IsFiniteSet(Values(Counted(u, F)))
    <3> DEFINE B == Counted(u, F)
    <3>1. [e \in B |-> e.fields[c.counted]] \in Surjection(B, Values(B))
      <4> HIDE DEF B
      <4> QED BY DEF Surjection
    <3> HIDE DEF Values
    <3> QED BY <2>1, <3>1, FS_Surjection
  <2>3. Values(X) \subseteq Values(Counted(u, F))
    BY <1>10
  <2> HIDE DEF Values
  <2>4. /\ Cardinality(X) <= Cardinality(Counted(u, F))
        /\ Cardinality(Values(X)) <= Cardinality(Values(Counted(u, F)))
    BY <1>10, <2>1, <2>2, <2>3, FS_Subset
  <2>5. /\ Cardinality(X) \in Nat /\ Cardinality(Counted(u, F)) \in Nat
        /\ Cardinality(Values(X)) \in Nat /\ Cardinality(Values(Counted(u, F))) \in Nat
    BY <1>10, <2>1, <2>2, <2>3, FS_Subset, FS_CardinalityType
  <2> QED BY <1>4, <1>5, <2>4, <2>5
<1>12. HasAll(u, r.correlation) /\ Group(u, r.correlation) = Group(t, r.correlation)
  <2>1. ASSUME NEW i \in DOMAIN r.correlation
        PROVE  Has(u, r.correlation[i]) /\ u.fields[r.correlation[i]] = t.fields[r.correlation[i]]
    <3>1. PICK j \in DOMAIN c.group : r.correlation[i] = c.group[j]
      BY DEF CountsPerIncident
    <3>2. Group(u, c.group)[j] = u.fields[c.group[j]] /\ Group(t, c.group)[j] = t.fields[c.group[j]]
      BY <3>1 DEF Group
    <3>3. Has(u, c.group[j])
      BY <1>9, <3>1 DEF HasAll
    <3> QED BY <1>9, <3>1, <3>2, <3>3
  <2> QED BY <2>1 DEF HasAll, Group
<1>13. EvaluateRule(r, u, F) = Distinct(c, u, F)
  BY <1>1, <1>9, <1>12 DEF EvaluateRule, CanTrigger
<1>14. Distinct(c, u, F) = Counted(u, F)
  <2> HIDE DEF Counted, Enough
  <2> QED BY <1>3, <1>9, <1>11
<1>15. u \in F /\ Counted(u, F) # {}
  <2> HIDE DEF X, Counted
  <2> QED BY <1>4, <1>10
<1> HIDE DEF Counted
<1> QED BY <1>12, <1>13, <1>14, <1>15

LEMMA SequenceAgain ==
  ASSUME NEW r \in RuleUniverse, r.condition.kind = "sequence", NEW G, G \subseteq EventUniverse,
         NEW t \in G, NEW F, F \subseteq G,
         EvaluateRule(r, t, LoadHistory(r, t, G)) # {},
         EvaluateRule(r, t, LoadHistory(r, t, G)) \subseteq F
  PROVE  t \in F /\ EvaluateRule(r, t, F) # {}
<1>1. r.enabled /\ CanTrigger(r, t) /\ HasAll(t, r.correlation)
  BY TriggerOfMatch
<1>2. \A H : EvaluateRule(r, t, H) = SequenceOf(r, t, H)
  BY <1>1 DEF EvaluateRule
<1>3. PICK H : H = LoadHistory(r, t, G) /\ H \subseteq EventUniverse
  BY SequenceHistory
<1>4. SequenceOf(r, t, H) # {} /\ SequenceOf(r, t, H) \subseteq F
  BY <1>2, <1>3
<1>5. Matches(t, LastStep(r.condition)) /\ F \subseteq EventUniverse /\ t \in EventUniverse
  BY <1>1 DEF CanTrigger
<1>6. Occurs(r, t, F)
  BY <1>1, <1>3, <1>4, <1>5, SearchSound
<1>7. SequenceOf(r, t, F) # {}
  BY <1>1, <1>5, <1>6, SearchComplete
<1>8. t \in SequenceOf(r, t, H)
  <2> DEFINE c == r.condition
             S == SequenceCandidates(r, t, H)
  <2>1. PICK n \in Nat \ {0} : n = Len(c.steps)
    BY SequenceParameters
  <2>2. Taken(c, t, S)[1].complete /\ SequenceOf(r, t, H) = Taken(c, t, S)[1].events
    BY <1>4 DEF SequenceOf, IfMatch
  <2> HIDE DEF S, c
  <2>3. n \in 1 .. n /\ Taken(c, t, S)[n].complete
        /\ Taken(c, t, S)[n].events \subseteq Taken(c, t, S)[1].events
    BY <2>1, <2>2, FinishedSearch
  <2>4. ChosenFor(c, t, S, n) \subseteq Taken(c, t, S)[n].events
    BY <2>1, <2>3, CompleteStep
  <2>5. t \in ChosenFor(c, t, S, n)
    BY <2>1 DEF ChosenFor
  <2> QED BY <2>2, <2>3, <2>4, <2>5
<1> QED BY <1>2, <1>4, <1>7, <1>8

\* Whatever a rule finds in its history it still finds in any part of the
\* history that holds the evidence, at an event of the same incident.
LEMMA EvidenceAgain ==
  ASSUME CountsPerIncident,
         NEW r \in RuleUniverse, NEW G, G \subseteq EventUniverse, NEW t \in G, NEW F, F \subseteq G,
         EvaluateRule(r, t, LoadHistory(r, t, G)) # {},
         EvaluateRule(r, t, LoadHistory(r, t, G)) \subseteq F
  PROVE  \E u \in F : /\ HasAll(u, r.correlation) /\ Group(u, r.correlation) = Group(t, r.correlation)
                      /\ EvaluateRule(r, u, F) # {}
<1>1. r.enabled /\ CanTrigger(r, t) /\ HasAll(t, r.correlation)
  BY TriggerOfMatch
<1>2. CASE r.condition.kind = "distinct"
  BY <1>2, DistinctAgain
<1>3. CASE r.condition.kind = "single"
  <2>1. \A H : EvaluateRule(r, t, H) = {t}
    BY <1>1, <1>3 DEF EvaluateRule
  <2>2. t \in F /\ EvaluateRule(r, t, F) # {}
    BY <2>1
  <2> QED BY <1>1, <2>2
<1>4. CASE r.condition.kind = "threshold"
  <2>1. t \in F /\ EvaluateRule(r, t, F) # {}
    BY <1>4, ThresholdAgain
  <2> QED BY <1>1, <2>1
<1>5. CASE r.condition.kind = "sequence"
  <2>1. t \in F /\ EvaluateRule(r, t, F) # {}
    BY <1>5, SequenceAgain
  <2> QED BY <1>1, <2>1
<1>6. CASE r.condition.kind = "first_seen"
  <2>1. t \in F /\ EvaluateRule(r, t, F) # {}
    BY <1>6, FirstSeenAgain
  <2> QED BY <1>1, <2>1
<1> QED BY <1>2, <1>3, <1>4, <1>5, <1>6, RuleParameters

\* The same for one bucket, whose evidence is what its links point to.
Justified(b) ==
  LET evidence == {e \in rulesStored : e.id \in rulesFound[b]}
  IN  \E r \in RuleUniverse, t \in evidence :
        /\ r.rule_key = b[1]
        /\ HasAll(t, r.correlation) /\ Group(t, r.correlation) = b[2]
        /\ EvaluateRule(r, t, evidence) # {}

LEMMA IngestJustifies ==
  ASSUME CountsPerIncident, RulesInvariant, RulesInvariant',
         \A b \in DOMAIN rulesFound : Justified(b),
         NEW e \in EventUniverse \ rulesStored, Ingest({e}), NEW b \in DOMAIN rulesFound'
  PROVE  Justified(b)'
<1> DEFINE new == {f \in rulesStored' : f.id \in rulesFound'[b]}
<1>1. rulesStored' = rulesStored \cup {e}
  BY IngestStep
<1>2. CASE b \in DOMAIN rulesFound /\ rulesFound'[b] = rulesFound[b]
  <2>1. ~ \E f \in rulesStored : f.id = e.id
    BY EventFacts DEF RulesInvariant
  <2>2. e.id \notin rulesFound[b]
    BY <1>2, <2>1 DEF RulesInvariant
  <2>3. new = {f \in rulesStored : f.id \in rulesFound[b]}
    BY <1>1, <1>2, <2>2
  <2> QED BY <1>2, <2>3 DEF Justified
<1>3. ASSUME NEW r \in RuleUniverse, b = <<r.rule_key, Group(e, r.correlation)>>,
             HasAll(e, r.correlation),
             EvaluateRule(r, e, LoadHistory(r, e, rulesStored')) # {},
             {f.id : f \in EvaluateRule(r, e, LoadHistory(r, e, rulesStored'))} \subseteq rulesFound'[b]
      PROVE  Justified(b)'
  <2>1. PICK G, F : G = rulesStored' /\ F = new
    OBVIOUS
  <2>2. e \in G /\ G \subseteq EventUniverse /\ F \subseteq G
    BY <1>1, <2>1 DEF RulesInvariant
  <2>3. EvaluateRule(r, e, LoadHistory(r, e, G)) \subseteq G
    BY <2>2, EvidenceStored
  <2>4. EvaluateRule(r, e, LoadHistory(r, e, G)) \subseteq F
    BY <1>3, <2>1, <2>3
  <2>5. EvaluateRule(r, e, LoadHistory(r, e, G)) # {}
    BY <1>3, <2>1
  <2>6. PICK u \in F : /\ HasAll(u, r.correlation) /\ Group(u, r.correlation) = Group(e, r.correlation)
                       /\ EvaluateRule(r, u, F) # {}
    BY <2>2, <2>4, <2>5, EvidenceAgain
  <2>7. b[1] = r.rule_key /\ b[2] = Group(e, r.correlation)
    BY <1>3
  <2> QED BY <2>1, <2>6, <2>7 DEF Justified
<1> QED BY <1>2, <1>3, IngestStep

\* EvidenceSuffices (DetectionRules): whatever the order the events arrive in,
\* the links of every incident keep a complete reason for it, for all rules
\* that tell their incidents apart by what they count by.
THEOREM IncidentsKeepTheirReason ==
  ASSUME CountsPerIncident
  PROVE  RulesSpec => []EvidenceSuffices
<1>1. EvidenceSuffices <=> \A b \in DOMAIN rulesFound : Justified(b)
  BY Zenon DEF EvidenceSuffices, Justified
<1>2. RulesInit => EvidenceSuffices
  BY DEF RulesInit, EvidenceSuffices
<1>3. RulesInvariant /\ RulesInvariant' /\ EvidenceSuffices /\ [RulesNext]_rulesVars => EvidenceSuffices'
  <2> SUFFICES ASSUME RulesInvariant, RulesInvariant', EvidenceSuffices, [RulesNext]_rulesVars
               PROVE  EvidenceSuffices'
    OBVIOUS
  <2>1. CASE UNCHANGED rulesVars
    BY <2>1 DEF EvidenceSuffices, rulesVars
  <2>2. ASSUME NEW e \in EventUniverse \ rulesStored, Ingest({e}) PROVE EvidenceSuffices'
    <3>1. \A b \in DOMAIN rulesFound' : Justified(b)'
      BY <1>1, <2>2, IngestJustifies
    <3> QED BY <3>1, Zenon DEF EvidenceSuffices, Justified
  <2> QED BY <2>1, <2>2 DEF RulesNext
<1> QED BY <1>2, <1>3, LinksAreStored, PTL DEF RulesSpec

-----------------------------------------------------------------------------
(* The shipped catalog is finite *)

\* A finite set has only finitely many images.
LEMMA FiniteImage ==
  ASSUME NEW f, IsFiniteSet(DOMAIN f)
  PROVE  IsFiniteSet({f[x] : x \in DOMAIN f})
<1>1. [x \in DOMAIN f |-> f[x]] \in Surjection(DOMAIN f, {f[x] : x \in DOMAIN f})
  BY DEF Surjection
<1> QED BY <1>1, FS_Surjection

\* SetToSeq lists a finite set.
LEMMA Listed ==
  ASSUME NEW S, IsFiniteSet(S)
  PROVE  /\ SetToSeq(S) \in Seq(S)
         /\ \A x \in S : \E i \in 1 .. Len(SetToSeq(S)) : SetToSeq(S)[i] = x
<1>1. PICK n \in Nat : ExistsBijection(1 .. n, S)
  BY FS_NatBijection
<1>2. Cardinality(S) = n
  BY <1>1, FS_CountingElements
<1>3. PICK g : g \in Bijection(1 .. n, S)
  BY <1>1 DEF ExistsBijection
<1>4. g \in [1 .. n -> S] /\ IsInjective(g)
  BY <1>3 DEF Bijection, Injection
<1>5. SetToSeq(S) \in [1 .. n -> S] /\ IsInjective(SetToSeq(S))
  BY <1>2, <1>4 DEF SetToSeq
<1>6. PICK q : q = SetToSeq(S)
  OBVIOUS
<1>7. q \in Injection(1 .. n, S)
  BY <1>5, <1>6 DEF Injection
<1>8. q \in Surjection(1 .. n, S)
  <2>1. IsFiniteSet(1 .. n) /\ Cardinality(1 .. n) = n
    <3>1. IsFiniteSet(1 .. n) /\ Cardinality(1 .. n) = IF 1 > n THEN 0 ELSE n - 1 + 1
      BY FS_Interval
    <3> QED BY <3>1
  <2> QED BY <1>2, <1>7, <2>1, FS_Injection
<1>9. q \in Seq(S) /\ Len(q) = n
  BY <1>5, <1>6
<1> QED BY <1>6, <1>8, <1>9 DEF Surjection

LEMMA ListOfNothing == SetToSeq({}) = <<>>
<1>1. IsFiniteSet({})
  BY FS_EmptySet
<1>2. SetToSeq({}) \in Seq({})
  BY <1>1, Listed
<1> QED BY <1>2

\* The shipped rules and their manifests are finite.
LEMMA ShippedKeys ==
  /\ Len(ShippedRules) = 13 /\ DOMAIN ShippedRules = 1 .. 13
  /\ \A i \in 1 .. 13 : ShippedRules[i].rule_key \in
       {"critical_systemd_unit_stopped", "cron_job_changed", "nginx_error_spike",
        "nginx_failed_requests_by_ip", "privileged_group_membership_changed",
        "ssh_bruteforce_by_ip", "ssh_login_from_new_ip", "ssh_password_spray_by_ip",
        "ssh_root_login_success", "ssh_success_after_failures", "sudo_auth_failures",
        "system_file_changed", "user_account_created"}
<1>1. Len(ShippedRules) = 13 /\ DOMAIN ShippedRules = 1 .. 13
  BY DEF ShippedRules
<1>2. /\ ShippedRules[1].rule_key = "critical_systemd_unit_stopped"
      /\ ShippedRules[2].rule_key = "cron_job_changed"
      /\ ShippedRules[3].rule_key = "nginx_error_spike"
      /\ ShippedRules[4].rule_key = "nginx_failed_requests_by_ip"
      /\ ShippedRules[5].rule_key = "privileged_group_membership_changed"
  BY DEF ShippedRules
<1>3. /\ ShippedRules[6].rule_key = "ssh_bruteforce_by_ip"
      /\ ShippedRules[7].rule_key = "ssh_login_from_new_ip"
      /\ ShippedRules[8].rule_key = "ssh_password_spray_by_ip"
      /\ ShippedRules[9].rule_key = "ssh_root_login_success"
  BY DEF ShippedRules
<1>4. /\ ShippedRules[10].rule_key = "ssh_success_after_failures"
      /\ ShippedRules[11].rule_key = "sudo_auth_failures"
      /\ ShippedRules[12].rule_key = "system_file_changed"
      /\ ShippedRules[13].rule_key = "user_account_created"
  BY DEF ShippedRules
<1> QED BY <1>1, <1>2, <1>3, <1>4

LEMMA CountedFinite ==
  ASSUME NEW c, NEW n \in Nat \ {0}, NEW w \in Nat
  PROVE  CountedOffsets(c, n, w) \in Seq(Int)
<1>1. UpToZero(n) \in Seq(Int) /\ UpToZero(n - 1) \in Seq(Int)
  BY DEF UpToZero
<1>2. <<-w>> \o UpToZero(n - 1) \in Seq(Int)
  BY <1>1
<1> QED BY <1>1, <1>2, SMT DEF CountedOffsets

LEMMA SpecsFinite ==
  ASSUME NEW c, NEW o
  PROVE  /\ IsFiniteSet(DOMAIN UnitStoppedSpecs(c, o)) /\ IsFiniteSet(DOMAIN CronJobSpecs(c, o))
         /\ IsFiniteSet(DOMAIN ErrorSpikeSpecs(c, o)) /\ IsFiniteSet(DOMAIN FailedRequestsSpecs(c, o))
         /\ IsFiniteSet(DOMAIN PrivilegedGroupSpecs(c, o)) /\ IsFiniteSet(DOMAIN BruteforceSpecs(c, o))
         /\ IsFiniteSet(DOMAIN FirstSeenSpecs(c, o)) /\ IsFiniteSet(DOMAIN PasswordSpraySpecs(c, o))
         /\ IsFiniteSet(DOMAIN RootLoginSpecs(c, o)) /\ IsFiniteSet(DOMAIN SequenceSpecs(c, o))
         /\ IsFiniteSet(DOMAIN SudoSpecs(c, o)) /\ IsFiniteSet(DOMAIN FileChangedSpecs(c, o))
         /\ IsFiniteSet(DOMAIN UserCreatedSpecs(c, o))
<1>1. \A n \in Nat : IsFiniteSet(1 .. n)
  BY FS_Interval
<1>2. \A s \in Seq(Int) : IsFiniteSet(DOMAIN s)
  BY <1>1
<1>4. /\ IsFiniteSet(DOMAIN UnitStoppedSpecs(c, o)) /\ IsFiniteSet(DOMAIN CronJobSpecs(c, o))
      /\ IsFiniteSet(DOMAIN PrivilegedGroupSpecs(c, o)) /\ IsFiniteSet(DOMAIN RootLoginSpecs(c, o))
      /\ IsFiniteSet(DOMAIN FileChangedSpecs(c, o)) /\ IsFiniteSet(DOMAIN UserCreatedSpecs(c, o))
  <2>1. DOMAIN UnitStoppedSpecs(c, o) = 1 .. 1
    BY SMT DEF UnitStoppedSpecs
  <2>2. DOMAIN CronJobSpecs(c, o) = 1 .. 1
    BY SMT DEF CronJobSpecs
  <2>3. DOMAIN PrivilegedGroupSpecs(c, o) = 1 .. 1
    BY SMT DEF PrivilegedGroupSpecs
  <2>4. DOMAIN RootLoginSpecs(c, o) = 1 .. 1
    BY SMT DEF RootLoginSpecs
  <2>5. DOMAIN FileChangedSpecs(c, o) = 1 .. 1
    BY SMT DEF FileChangedSpecs
  <2>6. DOMAIN UserCreatedSpecs(c, o) = 1 .. 1
    BY SMT DEF UserCreatedSpecs
  <2> QED BY <1>1, <2>1, <2>2, <2>3, <2>4, <2>5, <2>6
<1>5. IsFiniteSet(DOMAIN ErrorSpikeSpecs(c, o))
  <2>1. DOMAIN ErrorSpikeSpecs(c, o) = DOMAIN CountedOffsets(c, 15, 120)
    BY DEF ErrorSpikeSpecs
  <2> QED BY <1>2, <2>1, CountedFinite
<1>6. IsFiniteSet(DOMAIN FailedRequestsSpecs(c, o))
  <2>1. DOMAIN FailedRequestsSpecs(c, o) = DOMAIN CountedOffsets(c, 12, 300)
    BY DEF FailedRequestsSpecs
  <2> QED BY <1>2, <2>1, CountedFinite
<1>7. IsFiniteSet(DOMAIN BruteforceSpecs(c, o))
  <2>1. DOMAIN BruteforceSpecs(c, o) = DOMAIN CountedOffsets(c, 8, 300)
    BY DEF BruteforceSpecs
  <2> QED BY <1>2, <2>1, CountedFinite
<1>8. IsFiniteSet(DOMAIN SudoSpecs(c, o))
  <2>1. DOMAIN SudoSpecs(c, o) = DOMAIN CountedOffsets(c, 5, 600)
    BY DEF SudoSpecs
  <2> QED BY <1>2, <2>1, CountedFinite
<1>9. IsFiniteSet(DOMAIN FirstSeenSpecs(c, o))
  <2>1. DOMAIN FirstSeenSpecs(c, o) = 1 .. 2
    BY SMT DEF FirstSeenSpecs
  <2> QED BY <1>1, <2>1
<1>10. IsFiniteSet(DOMAIN PasswordSpraySpecs(c, o))
  <2>1. DOMAIN PasswordSpraySpecs(c, o) = 1 .. 5
    BY DEF PasswordSpraySpecs
  <2> QED BY <1>1, <2>1
<1>11. IsFiniteSet(DOMAIN SequenceSpecs(c, o))
  <2> DEFINE offsets == CASE c = "boundary_exact" -> <<-900, -2, -1>>
                          [] c = "boundary_below" -> <<-2, -1>>
                          [] OTHER -> <<-3, -2, -1>>
             failing == SyntheticActor(o, IF c = "negative" THEN 7 ELSE 0)
             fails == [i \in DOMAIN offsets |->
                         SshEvent("ssh_failed", offsets[i], failing, DocumentationIp(o, 0))]
             login == SshEvent("ssh_login", 0, SyntheticActor(o, 0), DocumentationIp(o, 0))
  <2>1. SequenceSpecs(c, o) = fails \o <<login>>
    BY SMT DEF SequenceSpecs
  <2>2. offsets \in Seq(Int)
    BY SMT
  <2> HIDE DEF offsets, login
  <2>3. PICK X : X = {fails[i] : i \in DOMAIN offsets} \cup {login}
    OBVIOUS
  <2>4. fails \in Seq(X) /\ <<login>> \in Seq(X)
    BY <2>2, <2>3
  <2> HIDE DEF fails
  <2>5. fails \o <<login>> \in Seq(X)
    BY <2>4
  <2>6. DOMAIN SequenceSpecs(c, o) = 1 .. Len(SequenceSpecs(c, o)) /\ Len(SequenceSpecs(c, o)) \in Nat
    BY <2>1, <2>5
  <2> QED BY <1>1, <2>6
<1> QED BY <1>4, <1>5, <1>6, <1>7, <1>8, <1>9, <1>10, <1>11

LEMMA CatalogFinite ==
  /\ IsFiniteSet(EnabledRules)
  /\ \A o \in Scenarios : IsFiniteSet(Catalog[o])
<1>1. IsFiniteSet(EnabledRules)
  <2>1. IsFiniteSet(DOMAIN ShippedRules)
    <3>1. \A n \in Nat : IsFiniteSet(1 .. n)
      BY FS_Interval
    <3>2. IsFiniteSet(1 .. 13)
      BY <3>1
    <3> QED BY <3>2, ShippedKeys
  <2>2. IsFiniteSet(ToSet(ShippedRules))
    BY <2>1, FiniteImage DEF ToSet
  <2> QED BY <2>2, FS_Subset DEF EnabledRules
<1>2. ASSUME NEW o \in Scenarios PROVE IsFiniteSet(Catalog[o])
  <2>1. o \div 4 + 1 \in 1 .. 13
    BY ShippedKeys DEF Scenarios
  <2>2. RuleOf(o).rule_key \in
       {"critical_systemd_unit_stopped", "cron_job_changed", "nginx_error_spike",
        "nginx_failed_requests_by_ip", "privileged_group_membership_changed",
        "ssh_bruteforce_by_ip", "ssh_login_from_new_ip", "ssh_password_spray_by_ip",
        "ssh_root_login_success", "ssh_success_after_failures", "sudo_auth_failures",
        "system_file_changed", "user_account_created"}
    BY <2>1, ShippedKeys DEF RuleOf
  <2>3. IsFiniteSet(DOMAIN EventSpecs(o))
    BY <2>2, SpecsFinite DEF EventSpecs
  <2> DEFINE specs == EventSpecs(o)
             event == [i \in DOMAIN specs |->
                         [id |-> 100 * o + i, at |-> ScenarioAnchor(o) + specs[i].offset,
                          type |-> specs[i].type, fields |-> specs[i].fields]]
  <2>4. Manifest(o) = {event[i] : i \in DOMAIN event}
    BY DEF Manifest
  <2>5. IsFiniteSet(DOMAIN event)
    BY <2>3
  <2> HIDE DEF event
  <2> QED BY <2>4, <2>5, FiniteImage DEF Catalog
<1> QED BY <1>1, <1>2

-----------------------------------------------------------------------------
(* The demo gate: what each phase has made sure of *)

Opened == {"ingested", "delivery", "browser", "replay", "shutdown", "backup", "restore", "verified"}

Delivered == Opened \ {"ingested", "delivery"}

RowType == [bucket : DOMAIN gateIncidents, status : {"pending", "processing", "delivered"},
            attempts : {0, 1}, requests : {0, 1}]

\* One attempt decides a row: it is delivered by exactly one request or not at all.
RowSound(row) ==
  /\ row.attempts = 0 => row.status = "pending" /\ row.requests = 0
  /\ row.status = "delivered" => row.requests = 1

\* Every incident has a row, every row an incident.
OutboxSound ==
  /\ gateOutbox \in Seq(RowType)
  /\ \A i \in 1 .. Len(gateOutbox) : RowSound(gateOutbox[i])
  /\ \A b \in DOMAIN gateIncidents : \E i \in 1 .. Len(gateOutbox) : gateOutbox[i].bucket = b

IsCommitted(o) == \A e \in Catalog[o] : e.id \in gateEvents

\* What each phase has made sure of.
GateInvariant ==
  /\ gatePhase \in {"rules", "provisioning", "manifests", "ingestion", "failed"} \cup Opened
  /\ gateNext \in Nat
  /\ OutboxSound
  /\ gatePhase = "ingestion" => \A o \in Scenarios : o < gateNext => IsCommitted(o)
  /\ gatePhase \in Opened => \A o \in Scenarios : IsCommitted(o)
  /\ gatePhase \in Delivered =>
       \A i \in 1 .. Len(gateOutbox) : gateOutbox[i].status = "delivered"
  /\ gatePhase = "restore" => gateKept.dumped = Snapshot
  /\ gatePhase = "verified" => gateKept.restored = Snapshot /\ gateSessions = {}

LEMMA WiderRows ==
  ASSUME NEW A, NEW B, A \subseteq B, NEW q \in Seq(A)
  PROVE  q \in Seq(B)
OBVIOUS

LEMMA ReplacedRow ==
  ASSUME NEW A, NEW q \in Seq(A), NEW i \in 1 .. Len(q), NEW x \in A
  PROVE  [q EXCEPT ![i] = x] \in Seq(A) /\ Len([q EXCEPT ![i] = x]) = Len(q)
OBVIOUS

LEMMA JoinedRows ==
  ASSUME NEW A, NEW q \in Seq(A), NEW z \in Seq(A), NEW n, n = Len(q), NEW k, k = Len(z)
  PROVE  /\ \A i \in 1 .. n : (q \o z)[i] = q[i]
         /\ \A i \in 1 .. k : (q \o z)[n + i] = z[i]
OBVIOUS

\* Committing a batch keeps what was stored and gives each new incident a row.
LEMMA CommitBatch ==
  ASSUME OutboxSound, NEW o \in Scenarios, Commit(o)
  PROVE  /\ OutboxSound'
         /\ gateEvents \subseteq gateEvents' /\ IsCommitted(o)'
         /\ IsCommitted(o) => gateOutbox' = gateOutbox
<1> DEFINE matches == RunDetection(EnabledRules, Fresh(o), StoredEvents \cup Fresh(o))
           found == Persisted(gateIncidents, matches)
           T == DOMAIN found \ DOMAIN gateIncidents
           opened == SetToSeq(T)
           rows == [i \in DOMAIN opened |-> NewRow(opened[i])]
<1>1. /\ gateEvents' = gateEvents \cup {e.id : e \in Fresh(o)} /\ gateIncidents' = found
      /\ gateOutbox' = gateOutbox \o rows
  BY Zenon DEF Commit
<1>2. IsFiniteSet(matches)
  <2> DEFINE Q == {q \in EnabledRules \X Fresh(o) : /\ q[1].enabled
                                                   /\ CanTrigger(q[1], q[2])
                                                   /\ HasAll(q[2], q[1].correlation)}
             f == [p \in Q |-> MatchOf(p[1], p[2], StoredEvents \cup Fresh(o))]
  <2>1. IsFiniteSet(Fresh(o))
    BY CatalogFinite, FS_Subset DEF Fresh
  <2>2. IsFiniteSet(EnabledRules \X Fresh(o))
    BY <2>1, CatalogFinite, FS_Product
  <2>3. IsFiniteSet(Q)
    BY <2>2, FS_Subset
  <2>4. matches = {f[p] : p \in DOMAIN f}
    BY Zenon DEF RunDetection
  <2>5. DOMAIN f = Q
    OBVIOUS
  <2> HIDE DEF f, Q, matches
  <2> QED BY <2>3, <2>4, <2>5, FiniteImage
<1>3. T \subseteq {m[1] : m \in matches} /\ DOMAIN gateIncidents \subseteq DOMAIN found
  <2>1. DOMAIN found = DOMAIN gateIncidents \cup {m[1] : m \in {h \in matches : h[2] # {}}}
    <3> HIDE DEF matches
    <3> QED BY DEF Persisted
  <2> HIDE DEF matches
  <2> QED BY <2>1
<1>4. IsFiniteSet(T)
  <2> DEFINE f == [m \in matches |-> m[1]]
  <2>1. {m[1] : m \in matches} = {f[m] : m \in DOMAIN f} /\ DOMAIN f = matches
    <3> HIDE DEF matches
    <3> QED OBVIOUS
  <2> HIDE DEF f, T, matches
  <2>2. IsFiniteSet({m[1] : m \in matches})
    BY <1>2, <2>1, FiniteImage
  <2> QED BY <1>3, <2>2, FS_Subset
<1>5. opened \in Seq(T) /\ \A b \in T : \E i \in 1 .. Len(opened) : opened[i] = b
  <2> HIDE DEF T
  <2> QED BY <1>4, Listed
<1>6. IsCommitted(o) => gateOutbox' = gateOutbox
  <2> SUFFICES ASSUME IsCommitted(o) PROVE gateOutbox' = gateOutbox
    OBVIOUS
  <2>1. Fresh(o) = {}
    BY DEF IsCommitted, Fresh
  <2>2. matches = {}
    BY <2>1 DEF RunDetection
  <2>3. T = {}
    <3> HIDE DEF T, matches
    <3> QED BY <1>3, <2>2
  <2>4. opened = <<>>
    BY <2>3, ListOfNothing
  <2> HIDE DEF opened
  <2>5. rows = <<>>
    BY <2>4
  <2> HIDE DEF rows
  <2> QED BY <1>1, <2>5 DEF OutboxSound
<1>7. gateEvents \subseteq gateEvents' /\ IsCommitted(o)'
  BY <1>1 DEF IsCommitted, Fresh
<1>8. OutboxSound'
  <2> HIDE DEF T, opened, found
  <2>1. /\ T \subseteq DOMAIN found /\ DOMAIN gateIncidents \subseteq DOMAIN found
        /\ DOMAIN found \subseteq DOMAIN gateIncidents \cup T
    BY <1>3 DEF T
  <2>2. PICK R : R = [bucket : DOMAIN found, status : {"pending", "processing", "delivered"},
                      attempts : {0, 1}, requests : {0, 1}]
    OBVIOUS
  <2>3. gateOutbox \in Seq(R)
    <3>1. gateOutbox \in Seq(RowType) /\ RowType \subseteq R
      BY <2>1, <2>2 DEF OutboxSound, RowType
    <3> QED BY <3>1, WiderRows
  <2>4. \A b \in T : NewRow(b) \in R /\ RowSound(NewRow(b)) /\ NewRow(b).bucket = b
    BY <2>1, <2>2 DEF NewRow, RowSound
  <2>5. /\ DOMAIN rows = 1 .. Len(opened) /\ Len(opened) \in Nat
        /\ \A i \in 1 .. Len(opened) : rows[i] = NewRow(opened[i]) /\ opened[i] \in T
    BY <1>5
  <2> HIDE DEF rows
  <2>6. rows \in Seq(R) /\ Len(rows) = Len(opened)
    <3>1. rows \in [1 .. Len(opened) -> R]
      <4>1. rows = [i \in 1 .. Len(opened) |-> rows[i]]
        BY <2>5 DEF rows
      <4> QED BY <2>4, <2>5, <4>1
    <3> QED BY <2>5, <3>1
  <2>7. PICK n, k \in Nat : n = Len(gateOutbox) /\ k = Len(rows)
    BY <2>3, <2>6
  <2>8. /\ gateOutbox' \in Seq(R) /\ Len(gateOutbox') = n + k
        /\ \A i \in 1 .. n : gateOutbox'[i] = gateOutbox[i]
        /\ \A i \in 1 .. k : gateOutbox'[n + i] = rows[i]
    <3>1. gateOutbox \o rows \in Seq(R) /\ Len(gateOutbox \o rows) = n + k
      BY <2>3, <2>6, <2>7
    <3>2. /\ \A i \in 1 .. n : (gateOutbox \o rows)[i] = gateOutbox[i]
          /\ \A i \in 1 .. k : (gateOutbox \o rows)[n + i] = rows[i]
      BY <2>3, <2>6, <2>7, JoinedRows
    <3> QED BY <1>1, <3>1, <3>2
  <2>9. ASSUME NEW i \in 1 .. n + k
        PROVE  RowSound(gateOutbox'[i])
    <3>1. CASE i \in 1 .. n
      BY <2>7, <2>8, <3>1 DEF OutboxSound
    <3>2. CASE i \notin 1 .. n
      <4>1. i - n \in 1 .. k /\ n + (i - n) = i
        BY <3>2
      <4>2. gateOutbox'[i] = rows[i - n]
        BY <2>8, <4>1
      <4> QED BY <2>4, <2>5, <2>6, <2>7, <4>1, <4>2
    <3> QED BY <3>1, <3>2
  <2>10. ASSUME NEW b \in DOMAIN found
         PROVE  \E i \in 1 .. n + k : gateOutbox'[i].bucket = b
    <3>1. CASE b \in DOMAIN gateIncidents
      <4>1. PICK i \in 1 .. n : gateOutbox[i].bucket = b
        BY <2>7, <3>1 DEF OutboxSound
      <4>2. i \in 1 .. n + k
        OBVIOUS
      <4> QED BY <2>8, <4>1, <4>2
    <3>2. CASE b \in T
      <4>1. PICK i \in 1 .. k : opened[i] = b
        BY <1>5, <2>6, <2>7, <3>2
      <4>2. rows[i].bucket = b
        BY <2>4, <2>5, <2>6, <2>7, <3>2, <4>1
      <4>3. n + i \in 1 .. n + k
        OBVIOUS
      <4> QED BY <2>8, <4>1, <4>2, <4>3
    <3> QED BY <2>1, <3>1, <3>2
  <2> QED BY <1>1, <2>2, <2>8, <2>9, <2>10 DEF OutboxSound, RowType
<1> QED BY <1>6, <1>7, <1>8

\* Everything a snapshot counts is in the database.
LEMMA SameDatabase ==
  ASSUME UNCHANGED Database
  PROVE  /\ Snapshot' = Snapshot /\ OutboxSound' = OutboxSound
         /\ \A o \in Scenarios : IsCommitted(o)' = IsCommitted(o)
<1>1. /\ gateEvents' = gateEvents /\ gateIncidents' = gateIncidents /\ gateOutbox' = gateOutbox
      /\ gateWritten' = gateWritten /\ gateSessions' = gateSessions
  BY DEF Database
<1>2. Snapshot' = Snapshot
  BY <1>1, Zenon DEF Snapshot, RowsWith, Links
<1>3. OutboxSound' = OutboxSound
  BY <1>1, Zenon DEF OutboxSound, RowType
<1>4. \A o \in Scenarios : IsCommitted(o)' = IsCommitted(o)
  BY <1>1, Zenon DEF IsCommitted
<1> QED BY <1>2, <1>3, <1>4

\* A batch of a delivery or of the replay.
LEMMA SendStep ==
  ASSUME GateInvariant, GateSend \/ GateRetry \/ GateRefused
  PROVE  GateInvariant'
<1>1. /\ gatePhase \in {"ingestion", "replay"} /\ gateNext \in Scenarios /\ gateNext \in Nat
      /\ gateKept' = gateKept
      /\ \/ gatePhase' = gatePhase /\ gateNext' = gateNext + 1 /\ Commit(gateNext)
         \/ /\ gatePhase' = gatePhase \/ gatePhase' = "failed"
            /\ gateNext' = gateNext
            /\ Commit(gateNext) \/ UNCHANGED Database
  BY DEF GateInvariant, GateSend, GateRetry, GateRefused, Sending, Fail
<1>2. Scenarios \subseteq Nat
  BY ShippedKeys DEF Scenarios
<1>3. OutboxSound' /\ gateEvents \subseteq gateEvents'
  BY <1>1, CommitBatch, SameDatabase DEF GateInvariant, Database
<1>4. \A o \in Scenarios : IsCommitted(o) => IsCommitted(o)'
  BY <1>3 DEF IsCommitted
<1>5. gatePhase' = "ingestion" => \A o \in Scenarios : o < gateNext' => IsCommitted(o)'
  <2> SUFFICES ASSUME gatePhase' = "ingestion", NEW o \in Scenarios, o < gateNext'
               PROVE  IsCommitted(o)'
    OBVIOUS
  <2>1. gatePhase = "ingestion"
    BY <1>1
  <2>2. CASE o < gateNext
    BY <1>4, <2>1, <2>2 DEF GateInvariant
  <2>3. CASE ~(o < gateNext)
    <3>1. gateNext' = gateNext + 1 /\ Commit(gateNext) /\ o = gateNext
      BY <1>1, <1>2, <2>3
    <3> QED BY <1>1, <3>1, CommitBatch DEF GateInvariant
  <2> QED BY <2>2, <2>3
<1>6. gatePhase' \in Opened =>
        /\ \A o \in Scenarios : IsCommitted(o)'
        /\ \A i \in 1 .. Len(gateOutbox') : gateOutbox'[i].status = "delivered"
  <2> SUFFICES ASSUME gatePhase' \in Opened
               PROVE  /\ \A o \in Scenarios : IsCommitted(o)'
                      /\ \A i \in 1 .. Len(gateOutbox') : gateOutbox'[i].status = "delivered"
    OBVIOUS
  <2>1. gatePhase = "replay"
    BY <1>1 DEF Opened
  <2>2. \A o \in Scenarios : IsCommitted(o)
    BY <2>1 DEF GateInvariant, Opened
  <2>3. gateOutbox' = gateOutbox
    BY <1>1, <2>2, CommitBatch DEF GateInvariant, Database
  <2> QED BY <1>4, <2>1, <2>2, <2>3 DEF GateInvariant, Delivered, Opened
<1>7. gatePhase' \in {"ingestion", "replay", "failed"} /\ gateNext' \in Nat
  BY <1>1
<1> QED BY <1>1, <1>3, <1>5, <1>6, <1>7 DEF GateInvariant, Opened, Delivered

\* An attempt decides the first row that was not tried.
LEMMA AttemptStep ==
  ASSUME GateInvariant, GateDeliver \/ GateDeliveryFails
  PROVE  GateInvariant'
<1>1. PICK i, status, requests :
        /\ i = Min(Due) /\ requests \in {0, 1} /\ status \in {"pending", "processing", "delivered"}
        /\ status = "delivered" => requests = 1
        /\ Attempted(i, status, requests)
  BY DEF GateDeliver, GateDeliveryFails
<1>2. /\ gatePhase = "delivery" /\ Due # {} /\ gatePhase' = gatePhase /\ gateNext' = gateNext
      /\ gateEvents' = gateEvents /\ gateIncidents' = gateIncidents /\ gateKept' = gateKept
  BY DEF GateDeliver, GateDeliveryFails
<1>3. PICK n \in Nat : n = Len(gateOutbox) /\ DOMAIN gateOutbox = 1 .. n
  BY DEF GateInvariant, OutboxSound
<1>4. Due \subseteq 1 .. n /\ \A k \in Due : gateOutbox[k].attempts = 0
  BY <1>3 DEF Due
<1>5. i \in Due
  <2>1. Due \subseteq Nat
    BY <1>4
  <2> QED BY <1>1, <1>2, <2>1, MinFacts
<1> DEFINE row == gateOutbox[i]
           new == [bucket |-> row.bucket, status |-> status, attempts |-> row.attempts + 1,
                   requests |-> row.requests + requests]
<1>6. gateOutbox' = [gateOutbox EXCEPT ![i] = new]
  BY <1>1 DEF Attempted
<1>7. row \in RowType /\ RowSound(row) /\ row.attempts = 0 /\ row.requests = 0
  <2>1. i \in 1 .. Len(gateOutbox)
    BY <1>3, <1>4, <1>5
  <2>2. gateOutbox \in Seq(RowType) /\ RowSound(gateOutbox[i])
    BY <2>1 DEF GateInvariant, OutboxSound
  <2>3. gateOutbox[i] \in RowType
    BY <2>1, <2>2
  <2>4. row.attempts = 0
    BY <1>4, <1>5
  <2>5. row.requests = 0
    BY <2>2, <2>4 DEF RowSound
  <2> QED BY <2>2, <2>3, <2>4, <2>5
<1>8. new \in RowType /\ RowSound(new) /\ new.bucket = row.bucket
  BY <1>1, <1>7 DEF RowType, RowSound
<1> HIDE DEF new
<1>9. gateOutbox' \in Seq(RowType) /\ Len(gateOutbox') = n
  <2>1. i \in 1 .. Len(gateOutbox) /\ gateOutbox \in Seq(RowType)
    BY <1>3, <1>4, <1>5 DEF GateInvariant, OutboxSound
  <2> QED BY <1>3, <1>6, <1>8, <2>1, ReplacedRow
<1>10. \A k \in 1 .. n : gateOutbox'[k] = IF k = i THEN new ELSE gateOutbox[k]
  BY <1>3, <1>6
<1>11. OutboxSound'
  <2>1. RowType' = RowType
    BY <1>2 DEF RowType
  <2>2. \A k \in 1 .. n : RowSound(gateOutbox'[k]) /\ gateOutbox'[k].bucket = gateOutbox[k].bucket
    BY <1>3, <1>8, <1>10 DEF GateInvariant, OutboxSound
  <2>3. \A k \in 1 .. Len(gateOutbox') : RowSound(gateOutbox'[k])
    BY <1>9, <2>2
  <2>4. \A b \in DOMAIN gateIncidents' : \E k \in 1 .. Len(gateOutbox') : gateOutbox'[k].bucket = b
    BY <1>2, <1>3, <1>9, <2>2 DEF GateInvariant, OutboxSound
  <2>5. gateOutbox' \in Seq(RowType')
    BY <1>9, <2>1
  <2> QED BY <2>3, <2>4, <2>5 DEF OutboxSound, RowSound
<1>12. \A o \in Scenarios : IsCommitted(o)' = IsCommitted(o)
  BY <1>2, Zenon DEF IsCommitted
<1> QED BY <1>2, <1>11, <1>12 DEF GateInvariant, Opened, Delivered

\* A check ends the run or lets it go on.
LEMMA CheckedPhase ==
  ASSUME NEW condition, NEW phase, Checked(condition, phase)
  PROVE  /\ gateNext' = 0
         /\ (gatePhase' = phase /\ condition) \/ gatePhase' = "failed"
BY Zenon DEF Checked, Enter

\* The checks before the catalog is sent, and the provisioning.
LEMMA PrepareStep ==
  ASSUME GateInvariant, GateVerifyRules \/ GateProvision \/ GateMaterialize
  PROVE  GateInvariant'
<1>1. /\ gateNext' = 0 /\ gatePhase' \in {"provisioning", "manifests", "ingestion", "failed"}
      /\ gateEvents' = gateEvents /\ gateIncidents' = gateIncidents /\ gateOutbox' = gateOutbox
  <2>1. CASE GateVerifyRules
    <3>1. gateNext' = 0 /\ gatePhase' \in {"provisioning", "failed"} /\ UNCHANGED Database
      BY <2>1, CheckedPhase DEF GateVerifyRules
    <3> QED BY <3>1 DEF Database
  <2>2. CASE GateProvision
    BY <2>2 DEF GateProvision, Enter
  <2>3. CASE GateMaterialize
    <3>1. gateNext' = 0 /\ gatePhase' \in {"ingestion", "failed"} /\ UNCHANGED Database
      BY <2>3, CheckedPhase DEF GateMaterialize
    <3> QED BY <3>1 DEF Database
  <2> QED BY <2>1, <2>2, <2>3
<1>2. OutboxSound'
  BY <1>1 DEF GateInvariant, OutboxSound, RowType, RowSound
<1>3. Scenarios \subseteq Nat
  BY ShippedKeys DEF Scenarios
<1>4. \A o \in Scenarios : ~(o < gateNext')
  BY <1>1, <1>3
<1> QED BY <1>1, <1>2, <1>4 DEF GateInvariant, Opened, Delivered

\* When the last scenario is sent, every scenario is stored.
LEMMA SummaryStep ==
  ASSUME GateInvariant, GateIngestionSummary \/ GateVerifyIngestion
  PROVE  GateInvariant'
<1>1. /\ gateNext' = 0 /\ UNCHANGED Database
      /\ \/ gatePhase' = "failed"
         \/ gatePhase = "ingestion" /\ gateNext \notin Scenarios /\ gatePhase' = "ingested"
         \/ gatePhase = "ingested" /\ gatePhase' = "delivery"
  BY CheckedPhase DEF GateIngestionSummary, GateVerifyIngestion
<1>2. gatePhase' \in {"ingested", "delivery"} => \A o \in Scenarios : IsCommitted(o)
  <2>1. CASE gatePhase = "ingestion" /\ gateNext \notin Scenarios
    <3>1. Scenarios = 0 .. 51
      BY ShippedKeys DEF Scenarios
    <3>2. gateNext \in Nat /\ gateNext \notin 0 .. 51
      BY <2>1, <3>1 DEF GateInvariant
    <3>3. \A o \in Scenarios : o < gateNext
      BY <3>1, <3>2
    <3> QED BY <2>1, <3>3 DEF GateInvariant
  <2>2. CASE gatePhase = "ingested"
    BY <2>2 DEF GateInvariant, Opened
  <2> QED BY <1>1, <2>1, <2>2
<1> QED BY <1>1, <1>2, SameDatabase DEF GateInvariant, Opened, Delivered

\* Every row is delivered before the browser begins.
LEMMA DeliveredStep ==
  ASSUME GateInvariant, GateVerifyDelivery
  PROVE  GateInvariant'
<1>1. /\ gateNext' = 0 /\ UNCHANGED Database /\ gatePhase = "delivery"
      /\ (gatePhase' = "browser" /\ ExactDelivery) \/ gatePhase' = "failed"
  BY CheckedPhase DEF GateVerifyDelivery
<1>2. gatePhase' = "browser" => \A i \in 1 .. Len(gateOutbox) : gateOutbox[i].status = "delivered"
  <2>1. DOMAIN gateOutbox = 1 .. Len(gateOutbox)
    BY DEF GateInvariant, OutboxSound
  <2> QED BY <1>1, <2>1 DEF ExactDelivery
<1>3. gateOutbox' = gateOutbox
  BY <1>1 DEF Database
<1> QED BY <1>1, <1>2, <1>3, SameDatabase DEF GateInvariant, Opened, Delivered

\* The browser writes; the rows stay delivered, the events stored.
LEMMA BrowserStep ==
  ASSUME GateInvariant, GateBrowse \/ GateBrowseFails
  PROVE  GateInvariant'
<1>1. /\ gatePhase = "browser" /\ gateNext' \in Nat
      /\ gatePhase' = gatePhase \/ gatePhase' = "failed"
      /\ gateEvents' = gateEvents /\ gateIncidents' = gateIncidents /\ gateOutbox' = gateOutbox
  <2>1. gateEvents' = gateEvents /\ gateIncidents' = gateIncidents /\ gateOutbox' = gateOutbox
    BY DEF GateBrowse, GateBrowseFails, BrowserEffect, Database
  <2>2. gateNext \in Nat
    BY DEF GateInvariant
  <2> QED BY <2>1, <2>2 DEF GateBrowse, GateBrowseFails, Fail
<1>2. OutboxSound'
  BY <1>1 DEF GateInvariant, OutboxSound, RowType, RowSound
<1>3. \A o \in Scenarios : IsCommitted(o)' = IsCommitted(o)
  BY <1>1, Zenon DEF IsCommitted
<1> QED BY <1>1, <1>2, <1>3 DEF GateInvariant, Opened, Delivered

\* The checks after the browser, the dump and the restore.
LEMMA ClosingStep ==
  ASSUME GateInvariant,
         GateVerifyBrowser \/ GateVerifyReplay \/ GateShutdown \/ GateBackup \/ GateRestore \/ GateFails
  PROVE  GateInvariant'
<1>1. UNCHANGED Database
  BY DEF GateVerifyBrowser, GateVerifyReplay, GateShutdown, GateBackup, GateRestore, GateFails, Database
<1>2. /\ gateNext' \in Nat
      /\ \/ gatePhase' = "failed"
         \/ gatePhase = "browser" /\ gatePhase' = "replay"
         \/ gatePhase = "replay" /\ gatePhase' = "shutdown"
         \/ gatePhase = "shutdown" /\ gatePhase' = "backup"
         \/ gatePhase = "backup" /\ gatePhase' = "restore" /\ GateBackup
         \/ gatePhase = "restore" /\ gatePhase' = "verified" /\ GateRestore /\ gateSessions = {}
  <2>1. CASE GateVerifyBrowser
    <3>1. /\ gatePhase = "browser" /\ gateNext' = 0
          /\ gatePhase' = "replay" \/ gatePhase' = "failed"
      BY <2>1, Zenon DEF GateVerifyBrowser, Checked, Enter
    <3> QED BY <3>1
  <2>2. CASE GateVerifyReplay
    <3>1. /\ gatePhase = "replay" /\ gateNext' = 0
          /\ gatePhase' = "shutdown" \/ gatePhase' = "failed"
      BY <2>2, Zenon DEF GateVerifyReplay, Checked, Enter
    <3> QED BY <3>1
  <2>3. CASE GateShutdown \/ GateBackup
    BY <2>3 DEF GateShutdown, GateBackup, Enter
  <2>4. CASE GateRestore
    <3>1. /\ gatePhase = "restore" /\ gateNext' = 0
          /\ (gatePhase' = "verified" /\ gateSessions = {}) \/ gatePhase' = "failed"
      BY <2>4, Zenon DEF GateRestore, Checked, Enter
    <3> QED BY <2>4, <3>1
  <2>5. CASE GateFails
    BY <2>5 DEF GateFails, Fail, GateInvariant
  <2> QED BY <2>1, <2>2, <2>3, <2>4, <2>5
<1>3. gatePhase' = "restore" => gateKept'.dumped = Snapshot
  <2>1. GateBackup => gateKept'.dumped = Snapshot
    BY DEF GateBackup, Keep, Remember
  <2> QED BY <1>2, <2>1
<1>4. gatePhase' = "verified" => gateKept'.restored = Snapshot /\ gateSessions' = {}
  <2>1. GateRestore => gateKept'.restored = gateKept.dumped
    BY DEF GateRestore, Remember
  <2> QED BY <1>1, <1>2, <2>1 DEF GateInvariant, Database
<1>5. gateOutbox' = gateOutbox
  BY <1>1 DEF Database
<1> QED BY <1>1, <1>2, <1>3, <1>4, <1>5, SameDatabase DEF GateInvariant, Opened, Delivered

\* What each phase has made sure of stays true, whatever fails and how often.
THEOREM GatePhases == GateSpec => []GateInvariant
<1>1. GateInit => GateInvariant
  BY DEF GateInit, GateInvariant, OutboxSound, NoFields, Opened, Delivered
<1>2. GateInvariant /\ [GateNext]_gateVars => GateInvariant'
  <2> SUFFICES ASSUME GateInvariant, [GateNext]_gateVars PROVE GateInvariant'
    OBVIOUS
  <2>1. CASE UNCHANGED gateVars
    <3>1. UNCHANGED Database /\ gatePhase' = gatePhase /\ gateNext' = gateNext
          /\ gateKept' = gateKept /\ gateOutbox' = gateOutbox /\ gateSessions' = gateSessions
      BY <2>1 DEF gateVars, Database
    <3> QED BY <3>1, SameDatabase DEF GateInvariant
  <2>2. CASE GateNext
    BY <2>2, PrepareStep, SendStep, SummaryStep, AttemptStep, DeliveredStep, BrowserStep, ClosingStep
       DEF GateNext
  <2> QED BY <2>1, <2>2
<1> QED BY <1>1, <1>2, PTL DEF GateSpec

\* VerifiedExact (DemoPipeline): a run of run_automated_verification that ends
\* well has shown what it claims, for any number of faults and attempts.
THEOREM VerifiedMeansExact == GateSpec => []VerifiedExact
<1>1. GateInvariant => VerifiedExact
  <2> SUFFICES ASSUME GateInvariant, gatePhase = "verified"
               PROVE  /\ Committed = Scenarios
                      /\ {gateOutbox[i].bucket : i \in DOMAIN gateOutbox} = DOMAIN gateIncidents
                      /\ \A i \in DOMAIN gateOutbox :
                           gateOutbox[i].status = "delivered" /\ gateOutbox[i].requests = 1
                      /\ gateSessions = {}
                      /\ gateKept.restored = Snapshot
    BY Zenon DEF VerifiedExact
  <2>1. gatePhase \in Opened /\ gatePhase \in Delivered
    BY DEF Opened, Delivered
  <2>2. Committed = Scenarios
    BY <2>1 DEF GateInvariant, Committed, IsCommitted
  <2>3. DOMAIN gateOutbox = 1 .. Len(gateOutbox) /\ \A i \in 1 .. Len(gateOutbox) : gateOutbox[i] \in RowType
    BY DEF GateInvariant, OutboxSound
  <2>4. {gateOutbox[i].bucket : i \in DOMAIN gateOutbox} = DOMAIN gateIncidents
    <3>1. \A i \in DOMAIN gateOutbox : gateOutbox[i].bucket \in DOMAIN gateIncidents
      BY <2>3 DEF RowType
    <3>2. \A b \in DOMAIN gateIncidents : \E i \in DOMAIN gateOutbox : gateOutbox[i].bucket = b
      BY <2>3 DEF GateInvariant, OutboxSound
    <3> QED BY <3>1, <3>2
  <2>5. \A i \in DOMAIN gateOutbox : gateOutbox[i].status = "delivered" /\ gateOutbox[i].requests = 1
    BY <2>1, <2>3 DEF GateInvariant, OutboxSound, RowSound
  <2> QED BY <2>2, <2>4, <2>5 DEF GateInvariant
<1> QED BY <1>1, GatePhases, PTL

-----------------------------------------------------------------------------
(* What the catalog says of a scenario *)

\* Event i of a scenario, as its manifest lists it.
EventAt(o, i) ==
  [id |-> 100 * o + i, at |-> ScenarioAnchor(o) + EventSpecs(o)[i].offset,
   type |-> EventSpecs(o)[i].type, fields |-> EventSpecs(o)[i].fields]

\* The bucket of the incident a matching scenario opens: that of its last event.
LastEvent(o) == EventAt(o, EvidenceCount[o \div 4 + 1])

BucketOf(o) == <<RuleOf(o).rule_key, Group(LastEvent(o), RuleOf(o).correlation)>>

\* What a rule makes of one event of a scenario that is alone in the database.
ResultOf(o, r, t) == EvaluateRule(r, t, LoadHistory(r, t, Catalog[o]))

\* No rule makes anything of the scenario.
Quiet(o) == \A r \in EnabledRules, t \in Catalog[o] : ResultOf(o, r, t) = {}

\* What any rule makes of the scenario is the one incident the catalog promises,
\* with all its events, and some rule makes it.
Yields(o) ==
  /\ \A r \in EnabledRules, t \in Catalog[o] :
       ResultOf(o, r, t) # {} =>
         /\ ResultOf(o, r, t) = Catalog[o]
         /\ <<r.rule_key, Group(t, r.correlation)>> = BucketOf(o)
  /\ \E r \in EnabledRules, t \in Catalog[o] : ResultOf(o, r, t) # {}

-----------------------------------------------------------------------------
(* What the shipped rules make of the events of one scenario *)

\* One entry of the shipped rules.
Rule(name, correlation, condition) ==
  [rule_key |-> name, enabled |-> TRUE, correlation |-> correlation, condition |-> condition]

\* The thirteen files of detection-rules.
LEMMA TheRules ==
  /\ ShippedRules[1] = Rule("critical_systemd_unit_stopped", <<"unit">>,
                            Single("unit_stopped", [unit |-> CriticalUnits]))
  /\ ShippedRules[2] = Rule("cron_job_changed", <<"actor">>,
                            Single("cron_changed", [action |-> {"replace", "delete"}]))
  /\ ShippedRules[3] = Rule("nginx_error_spike", <<"status">>,
                            CountOver("request_failed", 15, 120, <<"status">>))
  /\ ShippedRules[4] = Rule("nginx_failed_requests_by_ip", <<"source_ip">>,
                            CountOver("request_failed", 12, 300, <<"source_ip">>))
  /\ ShippedRules[5] = Rule("privileged_group_membership_changed", <<"actor", "group", "action">>,
                            Single("group_changed", [group |-> {"sudo", "adm", "wheel"},
                                                     action |-> {"added", "removed"}]))
  /\ ShippedRules[6] = Rule("ssh_bruteforce_by_ip", <<"source_ip">>,
                            CountOver("ssh_failed", 8, 300, <<"source_ip">>))
  /\ ShippedRules[7] = Rule("ssh_login_from_new_ip", <<"actor", "source_ip">>, NewAddress)
  /\ ShippedRules[8] = Rule("ssh_password_spray_by_ip", <<"source_ip">>, SprayCondition)
  /\ ShippedRules[9] = Rule("ssh_root_login_success", <<"actor", "source_ip">>,
                            Single("ssh_login", [actor |-> {RootActor}]))
  /\ ShippedRules[10] = Rule("ssh_success_after_failures", <<"source_ip", "actor">>,
                             SuccessAfterFailures)
  /\ ShippedRules[11] = Rule("sudo_auth_failures", <<"actor">>,
                             CountOver("sudo_failed", 5, 600, <<"actor">>))
  /\ ShippedRules[12] = Rule("system_file_changed", <<"path">>, Single("file_changed", NoFilters))
  /\ ShippedRules[13] = Rule("user_account_created", <<"actor">>, Single("user_created", NoFilters))
<1>1. /\ ShippedRules[1] = Rule("critical_systemd_unit_stopped", <<"unit">>,
                                Single("unit_stopped", [unit |-> CriticalUnits]))
      /\ ShippedRules[2] = Rule("cron_job_changed", <<"actor">>,
                                Single("cron_changed", [action |-> {"replace", "delete"}]))
      /\ ShippedRules[3] = Rule("nginx_error_spike", <<"status">>,
                                CountOver("request_failed", 15, 120, <<"status">>))
  BY DEF ShippedRules, Rule
<1>2. /\ ShippedRules[4] = Rule("nginx_failed_requests_by_ip", <<"source_ip">>,
                                CountOver("request_failed", 12, 300, <<"source_ip">>))
      /\ ShippedRules[5] = Rule("privileged_group_membership_changed", <<"actor", "group", "action">>,
                                Single("group_changed", [group |-> {"sudo", "adm", "wheel"},
                                                         action |-> {"added", "removed"}]))
      /\ ShippedRules[6] = Rule("ssh_bruteforce_by_ip", <<"source_ip">>,
                                CountOver("ssh_failed", 8, 300, <<"source_ip">>))
  BY DEF ShippedRules, Rule
<1>3. /\ ShippedRules[7] = Rule("ssh_login_from_new_ip", <<"actor", "source_ip">>, NewAddress)
      /\ ShippedRules[8] = Rule("ssh_password_spray_by_ip", <<"source_ip">>, SprayCondition)
      /\ ShippedRules[9] = Rule("ssh_root_login_success", <<"actor", "source_ip">>,
                                Single("ssh_login", [actor |-> {RootActor}]))
      /\ ShippedRules[10] = Rule("ssh_success_after_failures", <<"source_ip", "actor">>,
                                 SuccessAfterFailures)
  BY DEF ShippedRules, Rule
<1>4. /\ ShippedRules[11] = Rule("sudo_auth_failures", <<"actor">>,
                                 CountOver("sudo_failed", 5, 600, <<"actor">>))
      /\ ShippedRules[12] = Rule("system_file_changed", <<"path">>, Single("file_changed", NoFilters))
      /\ ShippedRules[13] = Rule("user_account_created", <<"actor">>,
                                 Single("user_created", NoFilters))
  BY DEF ShippedRules, Rule
<1> QED BY <1>1, <1>2, <1>3, <1>4

\* The condition of ssh_success_after_failures.
LEMMA SequenceCondition ==
  /\ SuccessAfterFailures.kind = "sequence" /\ SuccessAfterFailures.window = 900
  /\ Len(SuccessAfterFailures.steps) = 2 /\ DOMAIN SuccessAfterFailures.steps = 1 .. 2
  /\ SuccessAfterFailures.steps[1] = [type |-> "ssh_failed", filters |-> NoFilters, repeat |-> 3]
  /\ SuccessAfterFailures.steps[2] = [type |-> "ssh_login", filters |-> NoFilters, repeat |-> 1]
<1>1. SuccessAfterFailures.steps =
        <<[type |-> "ssh_failed", filters |-> NoFilters, repeat |-> 3],
          [type |-> "ssh_login", filters |-> NoFilters, repeat |-> 1]>>
  BY DEF SuccessAfterFailures
<1>2. SuccessAfterFailures.kind = "sequence" /\ SuccessAfterFailures.window = 900
  BY DEF SuccessAfterFailures
<1> HIDE DEF SuccessAfterFailures
<1> QED BY <1>1, <1>2

\* No shipped rule is disabled.
LEMMA RulesEnabled ==
  /\ \A i \in 1 .. 13 : ShippedRules[i] \in EnabledRules
  /\ \A r \in EnabledRules : \E i \in 1 .. 13 : r = ShippedRules[i]
<1>1. \A i \in 1 .. 13 : ShippedRules[i].enabled = TRUE
  <2>1. /\ ShippedRules[1].enabled = TRUE /\ ShippedRules[2].enabled = TRUE
        /\ ShippedRules[3].enabled = TRUE /\ ShippedRules[4].enabled = TRUE
        /\ ShippedRules[5].enabled = TRUE /\ ShippedRules[6].enabled = TRUE
        /\ ShippedRules[7].enabled = TRUE /\ ShippedRules[8].enabled = TRUE
        /\ ShippedRules[9].enabled = TRUE /\ ShippedRules[10].enabled = TRUE
        /\ ShippedRules[11].enabled = TRUE /\ ShippedRules[12].enabled = TRUE
        /\ ShippedRules[13].enabled = TRUE
    BY TheRules DEF Rule
  <2> QED BY <2>1
<1>2. ToSet(ShippedRules) = {ShippedRules[i] : i \in 1 .. 13}
  BY ShippedKeys DEF ToSet
<1> QED BY <1>1, <1>2 DEF EnabledRules

\* A rule about single events takes the trigger.
LEMMA SingleResult ==
  ASSUME NEW name, NEW fields, NEW type, NEW filters, NEW o, NEW t,
         NEW r, r = Rule(name, fields, Single(type, filters))
  PROVE  ResultOf(o, r, t) =
           IF Matches(t, Single(type, filters)) /\ HasAll(t, fields) THEN {t} ELSE {}
<1>1. /\ r.enabled = TRUE /\ r.correlation = fields /\ r.condition = Single(type, filters)
      /\ r.condition.kind = "single"
  BY DEF Rule, Single
<1>2. CanTrigger(r, t) <=> Matches(t, Single(type, filters))
  BY <1>1 DEF CanTrigger
<1>3. ResultOf(o, r, t) =
        IF ~(r.enabled /\ CanTrigger(r, t) /\ HasAll(t, r.correlation)) THEN {} ELSE {t}
  BY <1>1, SMT DEF ResultOf, EvaluateRule
<1> QED BY <1>1, <1>2, <1>3

\* The events a counting rule counts: those of its type that agree with the
\* trigger in the field it groups by, inside the window.
Counted(o, t, type, window, f) ==
  {e \in Catalog[o] : /\ e.type = type /\ Within(e, t, window)
                      /\ Has(e, f) /\ e.fields[f] = t.fields[f]}

\* Grouping by one field compares that field.
LEMMA OneField ==
  ASSUME NEW e, NEW t, NEW f
  PROVE  /\ HasAll(e, <<f>>) <=> Has(e, f)
         /\ SameGroup(e, t, <<f>>) <=> Has(e, f) /\ e.fields[f] = t.fields[f]
BY DEF SameGroup, Group, HasAll

\* A counting rule takes the counted events if they are enough.
LEMMA CountResult ==
  ASSUME NEW name, NEW type, NEW n \in Nat, NEW window, NEW f, NEW o, NEW t,
         NEW r, r = Rule(name, <<f>>, CountOver(type, n, window, <<f>>))
  PROVE  ResultOf(o, r, t) =
           IF t.type = type /\ Has(t, f) /\ Cardinality(Counted(o, t, type, window, f)) >= n
             THEN Counted(o, t, type, window, f) ELSE {}
<1> DEFINE c == CountOver(type, n, window, <<f>>)
           H == LoadHistory(r, t, Catalog[o])
<1>1. /\ r.enabled = TRUE /\ r.correlation = <<f>> /\ r.condition = c
      /\ c.kind = "threshold" /\ c.type = type /\ c.filters = NoFilters /\ c.threshold = n
      /\ c.window = window /\ c.group = <<f>>
  BY DEF Rule, CountOver
<1> HIDE DEF c
<1>2. \A e : Matches(e, c) <=> e.type = type
  BY <1>1 DEF Matches, NoFilters
<1>3. H = {e \in Catalog[o] : e.type \in {type} /\ Within(e, t, window)}
  BY <1>1 DEF LoadHistory, HistoryTypes
<1>4. {e \in H : Within(e, t, c.window) /\ Matches(e, c) /\ SameGroup(e, t, c.group)}
        = Counted(o, t, type, window, f)
  BY <1>1, <1>2, <1>3, OneField DEF Counted
<1>5. Threshold(c, t, H) =
        IF HasAll(t, <<f>>) /\ Cardinality(Counted(o, t, type, window, f)) >= n
          THEN Counted(o, t, type, window, f) ELSE {}
  BY <1>1, <1>4 DEF Threshold, IfMatch
<1>6. CanTrigger(r, t) <=> t.type = type
  BY <1>1, <1>2 DEF CanTrigger
<1>7. ResultOf(o, r, t) =
        IF ~(r.enabled /\ CanTrigger(r, t) /\ HasAll(t, r.correlation)) THEN {} ELSE Threshold(c, t, H)
  BY <1>1, SMT DEF ResultOf, EvaluateRule
<1> QED BY <1>1, <1>5, <1>6, <1>7, OneField

\* What a counting rule finds when too few events, just enough, or only
\* events that differ in its field are there.
LEMMA CountOutcome ==
  ASSUME NEW name, NEW type, NEW n \in Nat, NEW window, NEW f, NEW o \in Scenarios,
         NEW t \in Catalog[o],
         NEW r, r = Rule(name, <<f>>, CountOver(type, n, window, <<f>>)),
         ResultOf(o, r, t) # {}
  PROVE  /\ t.type = type /\ Has(t, f)
         /\ Cardinality(Catalog[o]) >= n
         /\ Cardinality(Catalog[o]) = n => ResultOf(o, r, t) = Catalog[o]
         /\ n > 1 => \E e \in Catalog[o] \ {t} : /\ e.type = type
                                                /\ Has(e, f) /\ e.fields[f] = t.fields[f]
<1> DEFINE E == Counted(o, t, type, window, f)
<1>1. t.type = type /\ Has(t, f) /\ Cardinality(E) >= n /\ ResultOf(o, r, t) = E
  BY CountResult
<1>2. IsFiniteSet(Catalog[o])
  BY CatalogFinite
<1>3. E \subseteq Catalog[o]
  BY DEF Counted
<1>4. /\ IsFiniteSet(E) /\ Cardinality(E) <= Cardinality(Catalog[o])
      /\ Cardinality(E) = Cardinality(Catalog[o]) => E = Catalog[o]
  <2> HIDE DEF E
  <2> QED BY <1>2, <1>3, FS_Subset
<1>5. Cardinality(E) \in Nat /\ Cardinality(Catalog[o]) \in Nat
  BY <1>2, <1>4, FS_CardinalityType
<1>6. Cardinality(E) >= n /\ Cardinality(E) <= Cardinality(Catalog[o])
  BY <1>1, <1>4
<1>7. Cardinality(Catalog[o]) >= n /\ (Cardinality(Catalog[o]) = n => E = Catalog[o])
  <2> HIDE DEF E
  <2> QED BY <1>4, <1>5, <1>6
<1>8. ASSUME n > 1 PROVE \E e \in Catalog[o] \ {t} : /\ e.type = type
                                                     /\ Has(e, f) /\ e.fields[f] = t.fields[f]
  <2>1. ~(E \subseteq {t})
    <3> SUFFICES ASSUME E \subseteq {t} PROVE FALSE
      OBVIOUS
    <3>1. IsFiniteSet({t}) /\ Cardinality({t}) = 1
      BY FS_Singleton
    <3> HIDE DEF E
    <3>2. Cardinality(E) <= 1
      BY <3>1, FS_Subset
    <3> QED BY <1>5, <1>6, <1>8, <3>2
  <2>2. PICK e \in E : e # t
    <3> HIDE DEF E
    <3> QED BY <2>1
  <2> QED BY <2>2 DEF Counted
<1> QED BY <1>1, <1>7, <1>8

\* A counting rule is met once the whole scenario counts.
LEMMA CountMet ==
  ASSUME NEW name, NEW type, NEW n \in Nat, NEW window, NEW f, NEW o \in Scenarios,
         NEW t \in Catalog[o],
         NEW r, r = Rule(name, <<f>>, CountOver(type, n, window, <<f>>)),
         Cardinality(Catalog[o]) = n,
         \A e \in Catalog[o] : /\ e.type = type /\ Within(e, t, window)
                               /\ Has(e, f) /\ e.fields[f] = t.fields[f]
  PROVE  ResultOf(o, r, t) # {}
<1>1. Counted(o, t, type, window, f) = Catalog[o]
  BY DEF Counted
<1>2. ResultOf(o, r, t) = IF t.type = type /\ Has(t, f) /\ Cardinality(Counted(o, t, type, window, f)) >= n
                            THEN Counted(o, t, type, window, f) ELSE {}
  BY CountResult
<1> QED BY <1>1, <1>2

\* The failed logins from the address of the trigger that name an account.
Sprayed(o, t) == {e \in Counted(o, t, "ssh_failed", 600, "source_ip") : Has(e, "actor")}

\* Five attempts with five names.
LEMMA SprayResult ==
  ASSUME NEW o, NEW t, NEW E, E = Sprayed(o, t)
  PROVE  ResultOf(o, ShippedRules[8], t) =
           IF /\ t.type = "ssh_failed" /\ Has(t, "source_ip") /\ Cardinality(E) >= 5
              /\ Cardinality({e.fields["actor"] : e \in E}) >= 5
             THEN E ELSE {}
<1> DEFINE r == ShippedRules[8]
           c == SprayCondition
           H == LoadHistory(r, t, Catalog[o])
<1>1. /\ r.enabled = TRUE /\ r.correlation = <<"source_ip">> /\ r.condition = c
  BY TheRules DEF Rule
<1>2. /\ c.kind = "distinct" /\ c.type = "ssh_failed" /\ c.filters = NoFilters /\ c.threshold = 5
      /\ c.minimum = 5 /\ c.window = 600 /\ c.group = <<"source_ip">> /\ c.counted = "actor"
  BY DEF SprayCondition
<1> HIDE DEF c, r
<1>3. \A e : Matches(e, c) <=> e.type = "ssh_failed"
  BY <1>2 DEF Matches, NoFilters
<1>4. H = {e \in Catalog[o] : e.type \in {"ssh_failed"} /\ Within(e, t, 600)}
  BY <1>1, <1>2 DEF LoadHistory, HistoryTypes
<1>5. {e \in H : /\ Within(e, t, c.window)
                 /\ Matches(e, c)
                 /\ SameGroup(e, t, c.group)
                 /\ Has(e, c.counted)} = E
  BY <1>2, <1>3, <1>4, OneField DEF Counted, Sprayed
<1>6. Distinct(c, t, H) =
        IF /\ HasAll(t, c.group) /\ Cardinality(E) >= c.minimum
           /\ Cardinality({e.fields[c.counted] : e \in E}) >= c.threshold
          THEN E ELSE {}
  BY <1>5, Zenon DEF Distinct, IfMatch
<1>7. CanTrigger(r, t) <=> t.type = "ssh_failed"
  BY <1>1, <1>2, <1>3 DEF CanTrigger
<1>8. ResultOf(o, r, t) =
        IF ~(r.enabled /\ CanTrigger(r, t) /\ HasAll(t, r.correlation)) THEN {} ELSE Distinct(c, t, H)
  BY <1>1, <1>2, SMT DEF ResultOf, EvaluateRule
<1>9. HasAll(t, <<"source_ip">>) <=> Has(t, "source_ip")
  BY OneField
<1> QED BY <1>1, <1>2, <1>6, <1>7, <1>8, <1>9 DEF r

\* What the spray rule finds tells that five accounts were tried.
LEMMA SprayOutcome ==
  ASSUME NEW o \in Scenarios, NEW t \in Catalog[o], ResultOf(o, ShippedRules[8], t) # {}
  PROVE  /\ t.type = "ssh_failed" /\ Has(t, "source_ip")
         /\ Cardinality(Catalog[o]) = 5 => ResultOf(o, ShippedRules[8], t) = Catalog[o]
         /\ \E e \in Catalog[o] \ {t} : Has(e, "source_ip") /\ e.fields["source_ip"] = t.fields["source_ip"]
         /\ \A A : (IsFiniteSet(A) /\ \A e \in Catalog[o] : Has(e, "actor") => e.fields["actor"] \in A)
                     => Cardinality(A) >= 5
<1>1. PICK E : E = Sprayed(o, t)
  OBVIOUS
<1>2. /\ t.type = "ssh_failed" /\ Has(t, "source_ip") /\ Cardinality(E) >= 5
      /\ Cardinality({e.fields["actor"] : e \in E}) >= 5
      /\ ResultOf(o, ShippedRules[8], t) = E
  BY <1>1, SprayResult
<1>3. IsFiniteSet(Catalog[o]) /\ E \subseteq Catalog[o]
  BY <1>1, CatalogFinite DEF Counted, Sprayed
<1>4. /\ IsFiniteSet(E) /\ Cardinality(E) <= Cardinality(Catalog[o])
      /\ Cardinality(E) = Cardinality(Catalog[o]) => E = Catalog[o]
      /\ Cardinality(E) \in Nat /\ Cardinality(Catalog[o]) \in Nat
  BY <1>3, FS_Subset, FS_CardinalityType
<1>5. Cardinality(Catalog[o]) = 5 => E = Catalog[o]
  BY <1>2, <1>4
<1>6. \E e \in Catalog[o] \ {t} : Has(e, "source_ip") /\ e.fields["source_ip"] = t.fields["source_ip"]
  <2>1. ~(E \subseteq {t})
    <3> SUFFICES ASSUME E \subseteq {t} PROVE FALSE
      OBVIOUS
    <3>1. IsFiniteSet({t}) /\ Cardinality({t}) = 1
      BY FS_Singleton
    <3>2. Cardinality(E) <= 1
      BY <3>1, FS_Subset
    <3> QED BY <1>2, <1>4, <3>2
  <2> QED BY <1>1, <1>3, <2>1 DEF Counted, Sprayed
<1>7. ASSUME NEW A, IsFiniteSet(A),
             \A e \in Catalog[o] : Has(e, "actor") => e.fields["actor"] \in A
      PROVE  Cardinality(A) >= 5
  <2>1. {e.fields["actor"] : e \in E} \subseteq A
    BY <1>1, <1>3, <1>7 DEF Sprayed
  <2>2. PICK B : B = {e.fields["actor"] : e \in E}
    OBVIOUS
  <2>3. /\ IsFiniteSet(B) /\ Cardinality(B) <= Cardinality(A)
        /\ Cardinality(B) \in Nat /\ Cardinality(A) \in Nat
    BY <1>7, <2>1, <2>2, FS_Subset, FS_CardinalityType
  <2> QED BY <1>2, <2>2, <2>3
<1> QED BY <1>2, <1>5, <1>6, <1>7

\* The spray rule is met once all five events count.
LEMMA SprayMet ==
  ASSUME NEW o \in Scenarios, NEW t \in Catalog[o], Cardinality(Catalog[o]) = 5,
         \A e \in Catalog[o] : /\ e.type = "ssh_failed" /\ Within(e, t, 600)
                               /\ Has(e, "source_ip") /\ e.fields["source_ip"] = t.fields["source_ip"]
                               /\ Has(e, "actor"),
         Cardinality({e.fields["actor"] : e \in Catalog[o]}) = 5
  PROVE  ResultOf(o, ShippedRules[8], t) # {}
<1>1. PICK E : E = Sprayed(o, t)
  OBVIOUS
<1>2. E = Catalog[o]
  BY <1>1 DEF Counted, Sprayed
<1>3. Cardinality(E) = 5 /\ Cardinality({e.fields["actor"] : e \in E}) = 5 /\ E # {}
  BY <1>2
<1>4. t.type = "ssh_failed" /\ Has(t, "source_ip")
  OBVIOUS
<1>5. ResultOf(o, ShippedRules[8], t) = E
  BY <1>1, <1>3, <1>4, SprayResult
<1> QED BY <1>3, <1>5

\* Having two fields is having each.
LEMMA TwoFields ==
  ASSUME NEW e, NEW t, NEW f, NEW g
  PROVE  /\ HasAll(e, <<f, g>>) <=> Has(e, f) /\ Has(e, g)
         /\ SameGroup(e, t, <<f, g>>) <=>
              Has(e, f) /\ Has(e, g) /\ e.fields[f] = t.fields[f] /\ e.fields[g] = t.fields[g]
BY DEF SameGroup, Group, HasAll

\* What first_seen finds, its baseline named.
LEMMA FirstSeenOf ==
  ASSUME NEW c, NEW t, NEW H,
         NEW B, B = {e \in H \ {t} : /\ Within(e, t, c.window)
                                     /\ Matches(e, c)
                                     /\ SameGroup(e, t, c.scope)}
  PROVE  FirstSeen(c, t, H) =
           IF /\ Has(t, c.value) /\ HasAll(t, c.scope)
              /\ Cardinality(B) >= c.required
              /\ \A e \in B : Has(e, c.value) => e.fields[c.value] # t.fields[c.value]
             THEN B \cup {t} ELSE {}
BY SMT DEF FirstSeen, IfMatch

\* The other logins of the account.
Baseline(o, t) ==
  {e \in Catalog[o] \ {t} : /\ e.type = "ssh_login" /\ Within(e, t, 2592000)
                            /\ Has(e, "actor") /\ e.fields["actor"] = t.fields["actor"]}

\* A login from an address that earlier logins of the account did not have.
LEMMA NewAddressResult ==
  ASSUME NEW o, NEW t, NEW B, B = Baseline(o, t)
  PROVE  ResultOf(o, ShippedRules[7], t) =
           IF /\ t.type = "ssh_login" /\ Has(t, "source_ip") /\ Has(t, "actor")
              /\ Cardinality(B) >= 1
              /\ \A e \in B : Has(e, "source_ip") => e.fields["source_ip"] # t.fields["source_ip"]
             THEN B \cup {t} ELSE {}
<1> DEFINE r == ShippedRules[7]
           c == NewAddress
           H == LoadHistory(r, t, Catalog[o])
<1>1. /\ r.enabled = TRUE /\ r.correlation = <<"actor", "source_ip">> /\ r.condition = c
  BY TheRules DEF Rule
<1>2. /\ c.kind = "first_seen" /\ c.type = "ssh_login" /\ c.filters = NoFilters
      /\ c.value = "source_ip" /\ c.scope = <<"actor">> /\ c.window = 2592000 /\ c.required = 1
  BY DEF NewAddress
<1> HIDE DEF c, r
<1>3. \A e : Matches(e, c) <=> e.type = "ssh_login"
  BY <1>2 DEF Matches, NoFilters
<1>4. H = {e \in Catalog[o] : e.type \in {"ssh_login"} /\ Within(e, t, 2592000)}
  BY <1>1, <1>2 DEF LoadHistory, HistoryTypes
<1>5. {e \in H \ {t} : /\ Within(e, t, c.window)
                       /\ Matches(e, c)
                       /\ SameGroup(e, t, c.scope)} = B
  BY <1>2, <1>3, <1>4, OneField DEF Baseline
<1>6. FirstSeen(c, t, H) =
        IF /\ Has(t, c.value) /\ HasAll(t, c.scope)
           /\ Cardinality(B) >= c.required
           /\ \A e \in B : Has(e, c.value) => e.fields[c.value] # t.fields[c.value]
          THEN B \cup {t} ELSE {}
  <2> HIDE DEF H
  <2> QED BY <1>5, FirstSeenOf
<1>7. CanTrigger(r, t) <=> t.type = "ssh_login"
  BY <1>1, <1>2, <1>3 DEF CanTrigger
<1>8. ResultOf(o, r, t) =
        IF ~(r.enabled /\ CanTrigger(r, t) /\ HasAll(t, r.correlation)) THEN {} ELSE FirstSeen(c, t, H)
  BY <1>1, <1>2, SMT DEF ResultOf, EvaluateRule
<1>9. HasAll(t, <<"actor">>) <=> Has(t, "actor")
  BY OneField
<1>10. HasAll(t, <<"actor", "source_ip">>) <=> Has(t, "actor") /\ Has(t, "source_ip")
  BY TwoFields
<1> HIDE DEF H
<1> QED BY <1>1, <1>2, <1>6, <1>7, <1>8, <1>9, <1>10 DEF r

\* The smallest of one number.
LEMMA MinOfOne == ASSUME NEW k \in Int PROVE Min({k}) = k
BY DEF Min

\* The latest events of none are none.
LEMMA LatestNone ==
  ASSUME NEW S, IsFiniteSet(S)
  PROVE  Latest(S, 0) = {}
<1>1. ASSUME NEW e \in S PROVE ~(Cardinality({f \in S : ComesAfter(f, e)}) < 0)
  <2>1. Cardinality({f \in S : ComesAfter(f, e)}) \in Nat
    BY FS_Subset, FS_CardinalityType
  <2> QED BY <2>1
<1> QED BY <1>1 DEF Latest

\* Of two steps, the first takes what lies before what the last one took.
LEMMA TwoSteps ==
  ASSUME NEW c, NEW t, NEW S, NEW n \in Nat \ {0}, n = Len(c.steps)
  PROVE  n = 2 => Taken(c, t, S)[1] = TakeStep(c.steps[1], S, TakeLast(c.steps[2], t, S))
<1>1. Taken(c, t, S)[n] = TakeLast(c.steps[n], t, S)
  BY TakenSteps
<1>2. \A i \in 1 .. n - 1 : Taken(c, t, S)[i] = TakeStep(c.steps[i], S, Taken(c, t, S)[i + 1])
  BY TakenSteps
<1> QED BY <1>1, <1>2

\* The failures before a login.
Failures(o, t) ==
  {e \in Catalog[o] : /\ e.type = "ssh_failed" /\ Within(e, t, 900) /\ e.at < t.at
                      /\ Has(e, "source_ip") /\ e.fields["source_ip"] = t.fields["source_ip"]
                      /\ Has(e, "actor") /\ e.fields["actor"] = t.fields["actor"]}

\* A login after three failures of the same account from the same address.
LEMMA SequenceResult ==
  ASSUME NEW o \in Scenarios, NEW t \in Catalog[o], t.at \in Int, NEW D, D = Failures(o, t)
  PROVE  ResultOf(o, ShippedRules[10], t) =
           IF /\ t.type = "ssh_login" /\ Has(t, "source_ip") /\ Has(t, "actor")
              /\ Cardinality(Latest(D, 3)) = 3
             THEN {t} \cup Latest(D, 3) ELSE {}
<1> DEFINE r == ShippedRules[10]
           c == SuccessAfterFailures
           H == LoadHistory(r, t, Catalog[o])
<1>1. r.enabled = TRUE /\ r.correlation = <<"source_ip", "actor">> /\ r.condition = c
  BY TheRules DEF Rule
<1>2. /\ c.kind = "sequence" /\ c.window = 900 /\ Len(c.steps) = 2 /\ DOMAIN c.steps = 1 .. 2
      /\ c.steps[1].type = "ssh_failed" /\ c.steps[1].filters = NoFilters /\ c.steps[1].repeat = 3
      /\ c.steps[2].type = "ssh_login" /\ c.steps[2].filters = NoFilters /\ c.steps[2].repeat = 1
  BY SequenceCondition
<1> HIDE DEF c, r
<1>3. \A e : /\ Matches(e, c.steps[1]) <=> e.type = "ssh_failed"
             /\ Matches(e, c.steps[2]) <=> e.type = "ssh_login"
  BY <1>2 DEF Matches, NoFilters
<1>4. H = {e \in Catalog[o] : e.type \in {"ssh_failed", "ssh_login"} /\ Within(e, t, 900)}
  <2>1. {c.steps[i].type : i \in 1 .. 2} = {"ssh_failed", "ssh_login"}
    BY <1>2
  <2> QED BY <1>1, <1>2, <2>1 DEF LoadHistory, HistoryTypes
<1>5. PICK S : S = SequenceCandidates(r, t, H)
  OBVIOUS
<1>6. {e \in {x \in S : Matches(x, c.steps[1])} : e.at < t.at} = D
  BY <1>1, <1>2, <1>3, <1>4, <1>5, TwoFields DEF SequenceCandidates, Failures
<1>7. S \subseteq Catalog[o] /\ IsFiniteSet(S)
  <2>1. S \subseteq Catalog[o]
    BY <1>4, <1>5 DEF SequenceCandidates
  <2> QED BY <2>1, CatalogFinite, FS_Subset
<1>8. TakeLast(c.steps[2], t, S) = [complete |-> TRUE, events |-> {t}, bound |-> t.at]
  <2>1. Latest({e \in S \ {t} : Matches(e, c.steps[2])}, 0) = {}
    <3>1. IsFiniteSet({e \in S \ {t} : Matches(e, c.steps[2])})
      BY <1>7, FS_Subset
    <3> QED BY <3>1, LatestNone
  <2>2. c.steps[2].repeat - 1 = 0
    BY <1>2
  <2>3. {t} \cup Latest({e \in S \ {t} : Matches(e, c.steps[2])}, c.steps[2].repeat - 1) = {t}
    BY <2>1, <2>2
  <2>4. Earliest({t}) = t.at
    <3>1. {e.at : e \in {t}} = {t.at}
      OBVIOUS
    <3> QED BY <3>1, MinOfOne DEF Earliest
  <2>5. Cardinality({t}) = 1
    BY FS_Singleton
  <2>6. TakeLast(c.steps[2], t, S) =
          [complete |-> Cardinality({t}) = c.steps[2].repeat, events |-> {t}, bound |-> Earliest({t})]
    BY <2>3, Zenon DEF TakeLast
  <2>7. (Cardinality({t}) = c.steps[2].repeat) = TRUE
    BY <1>2, <2>5
  <2> QED BY <2>4, <2>6, <2>7, Zenon
<1>9. TakeStep(c.steps[1], S, TakeLast(c.steps[2], t, S)) =
        IF Cardinality(Latest(D, 3)) = 3
          THEN [complete |-> TRUE, events |-> {t} \cup Latest(D, 3), bound |-> Earliest(Latest(D, 3))]
          ELSE [complete |-> FALSE, events |-> {}, bound |-> 0]
  <2>1. PICK acc : acc = TakeLast(c.steps[2], t, S)
    OBVIOUS
  <2>2. acc.complete = TRUE /\ acc.events = {t} /\ acc.bound = t.at
    BY <1>8, <2>1
  <2>3. ChosenBefore({e \in S : Matches(e, c.steps[1])}, acc.bound, c.steps[1].repeat) = Latest(D, 3)
    <3>1. ChosenBefore({e \in S : Matches(e, c.steps[1])}, acc.bound, c.steps[1].repeat)
            = ChosenBefore({e \in S : Matches(e, c.steps[1])}, t.at, 3)
      BY <1>2, <2>2, Zenon
    <3>2. ChosenBefore({e \in S : Matches(e, c.steps[1])}, t.at, 3) = Latest(D, 3)
      BY <1>6, Zenon DEF ChosenBefore
    <3> QED BY <3>1, <3>2
  <2>4. TakeStep(c.steps[1], S, acc) =
          IF acc.complete /\ Cardinality(Latest(D, 3)) = c.steps[1].repeat
            THEN [complete |-> TRUE, events |-> acc.events \cup Latest(D, 3),
                  bound |-> Earliest(Latest(D, 3))]
            ELSE [complete |-> FALSE, events |-> {}, bound |-> 0]
    BY <2>3, Zenon DEF TakeStep
  <2> QED BY <1>2, <2>1, <2>2, <2>4
<1>10. Taken(c, t, S)[1] = TakeStep(c.steps[1], S, TakeLast(c.steps[2], t, S))
  <2>1. PICK n \in Nat \ {0} : n = Len(c.steps)
    BY <1>2
  <2>2. n = 2
    BY <1>2, <2>1
  <2> QED BY <2>1, <2>2, TwoSteps
<1>11. SequenceOf(r, t, H) = IF Cardinality(Latest(D, 3)) = 3 THEN {t} \cup Latest(D, 3) ELSE {}
  <2>1. SequenceOf(r, t, H) = IF Taken(c, t, S)[1].complete THEN Taken(c, t, S)[1].events ELSE {}
    BY <1>1, <1>5, Zenon DEF SequenceOf, IfMatch
  <2>2. PICK T : T = Taken(c, t, S)[1]
    OBVIOUS
  <2>3. T = IF Cardinality(Latest(D, 3)) = 3
             THEN [complete |-> TRUE, events |-> {t} \cup Latest(D, 3), bound |-> Earliest(Latest(D, 3))]
             ELSE [complete |-> FALSE, events |-> {}, bound |-> 0]
    BY <1>9, <1>10, <2>2
  <2> QED BY <2>1, <2>2, <2>3
<1>12. CanTrigger(r, t) <=> t.type = "ssh_login"
  BY <1>1, <1>2, <1>3 DEF CanTrigger, LastStep
<1>13. ResultOf(o, r, t) =
         IF ~(r.enabled /\ CanTrigger(r, t) /\ HasAll(t, r.correlation)) THEN {} ELSE SequenceOf(r, t, H)
  BY <1>1, <1>2, SMT DEF ResultOf, EvaluateRule
<1>14. HasAll(t, <<"source_ip", "actor">>) <=> Has(t, "source_ip") /\ Has(t, "actor")
  BY TwoFields
<1> HIDE DEF H
<1> QED BY <1>1, <1>11, <1>12, <1>13, <1>14 DEF r

-----------------------------------------------------------------------------
(* The scenarios, one rule after the other *)

\* The fifty-two scenarios: thirteen rules, four cases of each.
LEMMA CaseFacts ==
  /\ Scenarios = 0 .. 51
  /\ \A o \in Scenarios : o \div 4 + 1 \in 1 .. 13 /\ o \in Nat
  /\ \A o \in Scenarios : CaseOf(o) = IF o % 4 = 0 THEN "positive" ELSE
                                      IF o % 4 = 1 THEN "negative" ELSE
                                      IF o % 4 = 2 THEN "boundary_below" ELSE "boundary_exact"
<1>1. Scenarios = 0 .. 51
  BY ShippedKeys DEF Scenarios
<1>2. \A o \in 0 .. 51 : o \div 4 + 1 \in 1 .. 13 /\ o \in Nat /\ o % 4 \in 0 .. 3
  OBVIOUS
<1>3. /\ CaseOrder[1] = "positive" /\ CaseOrder[2] = "negative"
      /\ CaseOrder[3] = "boundary_below" /\ CaseOrder[4] = "boundary_exact"
  BY DEF CaseOrder
<1> QED BY <1>1, <1>2, <1>3 DEF CaseOf

\* A case is one of four.
LEMMA CaseNames ==
  ASSUME NEW o \in Scenarios
  PROVE  /\ CaseOf(o) \in {"positive", "negative", "boundary_below", "boundary_exact"}
         /\ Matching(CaseOf(o)) <=> CaseOf(o) \in {"positive", "boundary_exact"}
BY CaseFacts DEF Matching

\* The events of a scenario are as many as its builder lists.
LEMMA ManifestOf ==
  ASSUME NEW o \in Scenarios, NEW n \in Nat, DOMAIN EventSpecs(o) = 1 .. n
  PROVE  /\ Catalog[o] = {EventAt(o, i) : i \in 1 .. n}
         /\ Cardinality(Catalog[o]) = n
<1>1. Catalog[o] = {EventAt(o, i) : i \in 1 .. n}
  BY DEF Catalog, Manifest, EventAt
<1> DEFINE f == [i \in 1 .. n |-> EventAt(o, i)]
<1>2. \A i, j \in 1 .. n : EventAt(o, i) = EventAt(o, j) => i = j
  <2>1. \A i \in 1 .. n : EventAt(o, i).id = 100 * o + i
    BY DEF EventAt
  <2>2. o \in Nat
    BY CaseFacts
  <2> QED BY <2>1, <2>2
<1>3. f \in Bijection(1 .. n, Catalog[o])
  BY <1>1, <1>2 DEF Bijection, Injection, Surjection, IsInjective
<1>4. ExistsBijection(1 .. n, Catalog[o])
  BY <1>3 DEF ExistsBijection
<1>5. Cardinality(Catalog[o]) = n
  BY <1>4, FS_CountingElements
<1> QED BY <1>1, <1>5

\* The type of the events that can trigger each rule.
LEMMA Triggers ==
  ASSUME NEW o, NEW t, NEW r \in EnabledRules, ResultOf(o, r, t) # {}
  PROVE  \/ t.type = "unit_stopped" /\ r = ShippedRules[1]
         \/ t.type = "cron_changed" /\ r = ShippedRules[2]
         \/ t.type = "request_failed" /\ r \in {ShippedRules[3], ShippedRules[4]}
         \/ t.type = "group_changed" /\ r = ShippedRules[5]
         \/ t.type = "ssh_failed" /\ r \in {ShippedRules[6], ShippedRules[8]}
         \/ t.type = "ssh_login" /\ r \in {ShippedRules[7], ShippedRules[9], ShippedRules[10]}
         \/ t.type = "sudo_failed" /\ r = ShippedRules[11]
         \/ t.type = "file_changed" /\ r = ShippedRules[12]
         \/ t.type = "user_created" /\ r = ShippedRules[13]
<1>1. CanTrigger(r, t)
  BY SMT DEF ResultOf, EvaluateRule
<1>2. PICK i \in 1 .. 13 : r = ShippedRules[i]
  BY RulesEnabled
<1>3. ASSUME r.condition.kind # "sequence" PROVE t.type = r.condition.type
  BY <1>1, <1>3 DEF CanTrigger, Matches
<1>4. CASE i \in {1, 2, 5, 9, 12, 13}
  <2>1. \A type, filters : Single(type, filters).kind = "single" /\ Single(type, filters).type = type
    BY DEF Single
  <2>2. /\ ShippedRules[1].condition.kind = "single" /\ ShippedRules[1].condition.type = "unit_stopped"
        /\ ShippedRules[2].condition.kind = "single" /\ ShippedRules[2].condition.type = "cron_changed"
        /\ ShippedRules[5].condition.kind = "single" /\ ShippedRules[5].condition.type = "group_changed"
        /\ ShippedRules[9].condition.kind = "single" /\ ShippedRules[9].condition.type = "ssh_login"
        /\ ShippedRules[12].condition.kind = "single" /\ ShippedRules[12].condition.type = "file_changed"
        /\ ShippedRules[13].condition.kind = "single" /\ ShippedRules[13].condition.type = "user_created"
    BY <2>1, TheRules DEF Rule
  <2> QED BY <1>2, <1>3, <1>4, <2>2
<1>5. CASE i \in {3, 4, 6, 11}
  <2>1. \A type, n, w, g : /\ CountOver(type, n, w, g).kind = "threshold"
                           /\ CountOver(type, n, w, g).type = type
    BY DEF CountOver
  <2>2. /\ ShippedRules[3].condition.kind = "threshold" /\ ShippedRules[3].condition.type = "request_failed"
        /\ ShippedRules[4].condition.kind = "threshold" /\ ShippedRules[4].condition.type = "request_failed"
        /\ ShippedRules[6].condition.kind = "threshold" /\ ShippedRules[6].condition.type = "ssh_failed"
        /\ ShippedRules[11].condition.kind = "threshold" /\ ShippedRules[11].condition.type = "sudo_failed"
    BY <2>1, TheRules DEF Rule
  <2> QED BY <1>2, <1>3, <1>5, <2>2
<1>6. CASE i \in {7, 8}
  <2>1. /\ NewAddress.kind = "first_seen" /\ NewAddress.type = "ssh_login"
        /\ SprayCondition.kind = "distinct" /\ SprayCondition.type = "ssh_failed"
    BY DEF NewAddress, SprayCondition
  <2>2. ShippedRules[7].condition = NewAddress /\ ShippedRules[8].condition = SprayCondition
    BY TheRules DEF Rule
  <2> QED BY <1>2, <1>3, <1>6, <2>1, <2>2
<1>7. CASE i = 10
  <2>1. ShippedRules[10].condition = SuccessAfterFailures
    BY TheRules DEF Rule
  <2>2. Matches(t, SuccessAfterFailures.steps[2])
    BY <1>1, <1>2, <1>7, <2>1, SequenceCondition DEF CanTrigger, LastStep
  <2>3. t.type = "ssh_login"
    BY <2>2, SequenceCondition DEF Matches
  <2> QED BY <1>2, <1>7, <2>3
<1> QED BY <1>4, <1>5, <1>6, <1>7

\* What has to be shown of a scenario.
Settled(o) ==
  /\ Cardinality(Catalog[o]) > 0
  /\ Matching(CaseOf(o)) => Yields(o) /\ Cardinality(Catalog[o]) = EvidenceCount[o \div 4 + 1]
  /\ ~Matching(CaseOf(o)) => Quiet(o)

\* A scenario of one event, for a rule about single events.
LEMMA OneEvent ==
  ASSUME NEW o \in Scenarios, NEW k \in 1 .. 13, k = o \div 4 + 1, EvidenceCount[k] = 1,
         DOMAIN EventSpecs(o) = 1 .. 1,
         NEW name, NEW fields, NEW type, NEW filters,
         ShippedRules[k] = Rule(name, fields, Single(type, filters)),
         NEW e, e = EventAt(o, 1),
         \A r \in EnabledRules : ResultOf(o, r, e) # {} => r = ShippedRules[k],
         Matching(CaseOf(o)) <=> Matches(e, Single(type, filters)) /\ HasAll(e, fields)
  PROVE  Settled(o)
<1>1. Catalog[o] = {e} /\ Cardinality(Catalog[o]) = 1
  <2>1. Catalog[o] = {EventAt(o, i) : i \in 1 .. 1} /\ Cardinality(Catalog[o]) = 1
    BY ManifestOf
  <2> QED BY <2>1
<1>2. ResultOf(o, ShippedRules[k], e) =
        IF Matches(e, Single(type, filters)) /\ HasAll(e, fields) THEN {e} ELSE {}
  BY SingleResult
<1>3. ShippedRules[k] \in EnabledRules
  BY RulesEnabled
<1>4. BucketOf(o) = <<ShippedRules[k].rule_key, Group(e, ShippedRules[k].correlation)>>
  BY DEF BucketOf, LastEvent, RuleOf
<1>5. Matching(CaseOf(o)) => Yields(o)
  BY <1>1, <1>2, <1>3, <1>4 DEF Yields
<1>6. ~Matching(CaseOf(o)) => Quiet(o)
  BY <1>1, <1>2 DEF Quiet
<1> QED BY <1>1, <1>5, <1>6 DEF Settled

\* The builder of each rule's scenarios.
LEMMA SpecsOf ==
  ASSUME NEW o \in Scenarios, NEW c, c = CaseOf(o)
  PROVE  /\ o \div 4 + 1 = 1 => EventSpecs(o) = UnitStoppedSpecs(c, o)
         /\ o \div 4 + 1 = 2 => EventSpecs(o) = CronJobSpecs(c, o)
         /\ o \div 4 + 1 = 3 => EventSpecs(o) = ErrorSpikeSpecs(c, o)
         /\ o \div 4 + 1 = 4 => EventSpecs(o) = FailedRequestsSpecs(c, o)
         /\ o \div 4 + 1 = 5 => EventSpecs(o) = PrivilegedGroupSpecs(c, o)
         /\ o \div 4 + 1 = 6 => EventSpecs(o) = BruteforceSpecs(c, o)
         /\ o \div 4 + 1 = 7 => EventSpecs(o) = FirstSeenSpecs(c, o)
         /\ o \div 4 + 1 = 8 => EventSpecs(o) = PasswordSpraySpecs(c, o)
         /\ o \div 4 + 1 = 9 => EventSpecs(o) = RootLoginSpecs(c, o)
         /\ o \div 4 + 1 = 10 => EventSpecs(o) = SequenceSpecs(c, o)
         /\ o \div 4 + 1 = 11 => EventSpecs(o) = SudoSpecs(c, o)
         /\ o \div 4 + 1 = 12 => EventSpecs(o) = FileChangedSpecs(c, o)
         /\ o \div 4 + 1 = 13 => EventSpecs(o) = UserCreatedSpecs(c, o)
<1>1. /\ RuleOf(o) = ShippedRules[o \div 4 + 1]
      /\ ShippedRules[1].rule_key = "critical_systemd_unit_stopped"
      /\ ShippedRules[2].rule_key = "cron_job_changed"
      /\ ShippedRules[3].rule_key = "nginx_error_spike"
      /\ ShippedRules[4].rule_key = "nginx_failed_requests_by_ip"
      /\ ShippedRules[5].rule_key = "privileged_group_membership_changed"
      /\ ShippedRules[6].rule_key = "ssh_bruteforce_by_ip"
      /\ ShippedRules[7].rule_key = "ssh_login_from_new_ip"
      /\ ShippedRules[8].rule_key = "ssh_password_spray_by_ip"
      /\ ShippedRules[9].rule_key = "ssh_root_login_success"
      /\ ShippedRules[10].rule_key = "ssh_success_after_failures"
      /\ ShippedRules[11].rule_key = "sudo_auth_failures"
      /\ ShippedRules[12].rule_key = "system_file_changed"
      /\ ShippedRules[13].rule_key = "user_account_created"
  BY TheRules DEF Rule, RuleOf
<1>2. PICK k : k = RuleOf(o).rule_key
  OBVIOUS
<1>3. EventSpecs(o) =
        CASE k = "critical_systemd_unit_stopped"       -> UnitStoppedSpecs(c, o)
          [] k = "cron_job_changed"                    -> CronJobSpecs(c, o)
          [] k = "nginx_error_spike"                   -> ErrorSpikeSpecs(c, o)
          [] k = "nginx_failed_requests_by_ip"         -> FailedRequestsSpecs(c, o)
          [] k = "privileged_group_membership_changed" -> PrivilegedGroupSpecs(c, o)
          [] k = "ssh_bruteforce_by_ip"                -> BruteforceSpecs(c, o)
          [] k = "ssh_login_from_new_ip"               -> FirstSeenSpecs(c, o)
          [] k = "ssh_password_spray_by_ip"            -> PasswordSpraySpecs(c, o)
          [] k = "ssh_root_login_success"              -> RootLoginSpecs(c, o)
          [] k = "ssh_success_after_failures"          -> SequenceSpecs(c, o)
          [] k = "sudo_auth_failures"                  -> SudoSpecs(c, o)
          [] k = "system_file_changed"                 -> FileChangedSpecs(c, o)
          [] k = "user_account_created"                -> UserCreatedSpecs(c, o)
  BY <1>2, SMT DEF EventSpecs
<1>4. PICK i : i = o \div 4 + 1
  OBVIOUS
<1>5. /\ i = 1 => k = "critical_systemd_unit_stopped"
      /\ i = 2 => k = "cron_job_changed"
      /\ i = 3 => k = "nginx_error_spike"
      /\ i = 4 => k = "nginx_failed_requests_by_ip"
      /\ i = 5 => k = "privileged_group_membership_changed"
      /\ i = 6 => k = "ssh_bruteforce_by_ip"
      /\ i = 7 => k = "ssh_login_from_new_ip"
      /\ i = 8 => k = "ssh_password_spray_by_ip"
      /\ i = 9 => k = "ssh_root_login_success"
      /\ i = 10 => k = "ssh_success_after_failures"
      /\ i = 11 => k = "sudo_auth_failures"
      /\ i = 12 => k = "system_file_changed"
      /\ i = 13 => k = "user_account_created"
  BY <1>1, <1>2, <1>4
<1> QED BY <1>3, <1>4, <1>5, SMT

\* A list of one item.
LEMMA OneOnly ==
  ASSUME NEW s
  PROVE  DOMAIN <<s>> = 1 .. 1 /\ <<s>>[1] = s
OBVIOUS

\* The evidence links each rule promises.
LEMMA EvidenceNumbers ==
  /\ EvidenceCount[1] = 1 /\ EvidenceCount[2] = 1 /\ EvidenceCount[3] = 15 /\ EvidenceCount[4] = 12
  /\ EvidenceCount[5] = 1 /\ EvidenceCount[6] = 8 /\ EvidenceCount[7] = 2 /\ EvidenceCount[8] = 5
  /\ EvidenceCount[9] = 1 /\ EvidenceCount[10] = 4 /\ EvidenceCount[11] = 5 /\ EvidenceCount[12] = 1
  /\ EvidenceCount[13] = 1
BY DEF EvidenceCount

\* Rule 1, critical_systemd_unit_stopped.
LEMMA UnitStopped ==
  ASSUME NEW o \in Scenarios, o \div 4 + 1 = 1
  PROVE  Settled(o)
<1>1. PICK c : c = CaseOf(o)
  OBVIOUS
<1>2. PICK fields : fields = CASE c = "positive"       -> [unit |-> "ssh.service"]
                               [] c = "negative"       -> [unit |-> "logrotate.service"]
                               [] c = "boundary_below" -> NoFields
                               [] c = "boundary_exact" -> [unit |-> "auditd.service"]
  OBVIOUS
<1>3. EventSpecs(o) = <<EventSpec("unit_stopped", 0, fields)>>
  <2>1. EventSpecs(o) = UnitStoppedSpecs(c, o)
    BY <1>1, SpecsOf
  <2> QED BY <1>2, <2>1, Zenon DEF UnitStoppedSpecs
<1>4. PICK e : e = EventAt(o, 1)
  OBVIOUS
<1>5. DOMAIN EventSpecs(o) = 1 .. 1 /\ e.type = "unit_stopped" /\ e.fields = fields
  BY <1>3, <1>4, OneOnly DEF EventAt, EventSpec
<1>6. c \in {"positive", "negative", "boundary_below", "boundary_exact"}
  BY <1>1, CaseNames
<1> DEFINE condition == Single("unit_stopped", [unit |-> CriticalUnits])
<1>7. Matches(e, condition) <=> Has(e, "unit") /\ e.fields["unit"] \in CriticalUnits
  BY <1>5 DEF Matches, Single
<1>8. HasAll(e, <<"unit">>) <=> Has(e, "unit")
  BY OneField
<1>9. c \in {"positive", "boundary_exact"} <=> Has(e, "unit") /\ e.fields["unit"] \in CriticalUnits
  BY <1>2, <1>5, <1>6, SMT DEF Has, CriticalUnits, NoFields
<1>10. \A r \in EnabledRules : ResultOf(o, r, e) # {} => r = ShippedRules[1]
  BY <1>5, Triggers
<1>11. ShippedRules[1] = Rule("critical_systemd_unit_stopped", <<"unit">>, condition)
  BY TheRules
<1> HIDE DEF condition
<1>12. Matching(CaseOf(o)) <=> Matches(e, condition) /\ HasAll(e, <<"unit">>)
  BY <1>1, <1>7, <1>8, <1>9, CaseNames
<1>13. PICK k \in 1 .. 13 : k = 1 /\ k = o \div 4 + 1
  OBVIOUS
<1> QED BY <1>4, <1>5, <1>10, <1>11, <1>12, <1>13, EvidenceNumbers, OneEvent DEF condition

\* Rule 2, cron_job_changed.
LEMMA CronChanged ==
  ASSUME NEW o \in Scenarios, o \div 4 + 1 = 2
  PROVE  Settled(o)
<1>1. PICK c : c = CaseOf(o)
  OBVIOUS
<1>2. PICK fields :
        fields = CASE c = "positive"       -> [actor |-> SyntheticActor(o, 0), action |-> "replace"]
                   [] c = "negative"       -> [actor |-> SyntheticActor(o, 0), action |-> "list"]
                   [] c = "boundary_below" -> [action |-> "replace"]
                   [] c = "boundary_exact" -> [actor |-> SyntheticActor(o, 0), action |-> "delete"]
  OBVIOUS
<1>3. EventSpecs(o) = <<EventSpec("cron_changed", 0, fields)>>
  <2>1. EventSpecs(o) = CronJobSpecs(c, o)
    BY <1>1, SpecsOf
  <2> QED BY <1>2, <2>1, Zenon DEF CronJobSpecs
<1>4. PICK e : e = EventAt(o, 1)
  OBVIOUS
<1>5. DOMAIN EventSpecs(o) = 1 .. 1 /\ e.type = "cron_changed" /\ e.fields = fields
  BY <1>3, <1>4, OneOnly DEF EventAt, EventSpec
<1>6. c \in {"positive", "negative", "boundary_below", "boundary_exact"}
  BY <1>1, CaseNames
<1> DEFINE condition == Single("cron_changed", [action |-> {"replace", "delete"}])
<1>7. Matches(e, condition) <=> Has(e, "action") /\ e.fields["action"] \in {"replace", "delete"}
  BY <1>5 DEF Matches, Single
<1>8. HasAll(e, <<"actor">>) <=> Has(e, "actor")
  BY OneField
<1>9. c \in {"positive", "boundary_exact"}
        <=> Has(e, "actor") /\ Has(e, "action") /\ e.fields["action"] \in {"replace", "delete"}
  BY <1>2, <1>5, <1>6, SMT DEF Has
<1>10. \A r \in EnabledRules : ResultOf(o, r, e) # {} => r = ShippedRules[2]
  BY <1>5, Triggers
<1>11. ShippedRules[2] = Rule("cron_job_changed", <<"actor">>, condition)
  BY TheRules
<1> HIDE DEF condition
<1>12. Matching(CaseOf(o)) <=> Matches(e, condition) /\ HasAll(e, <<"actor">>)
  BY <1>1, <1>7, <1>8, <1>9, CaseNames
<1>13. PICK k \in 1 .. 13 : k = 2 /\ k = o \div 4 + 1
  OBVIOUS
<1> QED BY <1>4, <1>5, <1>10, <1>11, <1>12, <1>13, EvidenceNumbers, OneEvent DEF condition

\* Having three fields is having each.
LEMMA ThreeFields ==
  ASSUME NEW e, NEW f, NEW g, NEW h
  PROVE  HasAll(e, <<f, g, h>>) <=> Has(e, f) /\ Has(e, g) /\ Has(e, h)
BY DEF HasAll

\* Rule 5, privileged_group_membership_changed.
LEMMA GroupChanged ==
  ASSUME NEW o \in Scenarios, o \div 4 + 1 = 5
  PROVE  Settled(o)
<1>1. PICK c : c = CaseOf(o)
  OBVIOUS
<1>2. PICK a : a = SyntheticActor(o, 0)
  OBVIOUS
<1>3. PICK fields :
        fields = CASE c = "positive"       -> [actor |-> a, group |-> "sudo", action |-> "added"]
                   [] c = "negative"       -> [actor |-> a, group |-> "users", action |-> "added"]
                   [] c = "boundary_below" -> [actor |-> a, group |-> "sudo"]
                   [] c = "boundary_exact" -> [actor |-> a, group |-> "wheel", action |-> "removed"]
  OBVIOUS
<1>4. EventSpecs(o) = <<EventSpec("group_changed", 0, fields)>>
  <2>1. EventSpecs(o) = PrivilegedGroupSpecs(c, o)
    BY <1>1, SpecsOf
  <2> QED BY <1>2, <1>3, <2>1, Zenon DEF PrivilegedGroupSpecs
<1>5. PICK e : e = EventAt(o, 1)
  OBVIOUS
<1>6. DOMAIN EventSpecs(o) = 1 .. 1 /\ e.type = "group_changed" /\ e.fields = fields
  BY <1>4, <1>5, OneOnly DEF EventAt, EventSpec
<1>7. c \in {"positive", "negative", "boundary_below", "boundary_exact"}
  BY <1>1, CaseNames
<1> DEFINE condition == Single("group_changed", [group |-> {"sudo", "adm", "wheel"},
                                                 action |-> {"added", "removed"}])
<1>8. Matches(e, condition) <=> /\ Has(e, "group") /\ e.fields["group"] \in {"sudo", "adm", "wheel"}
                                /\ Has(e, "action") /\ e.fields["action"] \in {"added", "removed"}
  BY <1>6 DEF Matches, Single
<1>9. HasAll(e, <<"actor", "group", "action">>) <=> Has(e, "actor") /\ Has(e, "group") /\ Has(e, "action")
  BY ThreeFields
<1>10. c \in {"positive", "boundary_exact"}
         <=> /\ Has(e, "actor")
             /\ Has(e, "group") /\ e.fields["group"] \in {"sudo", "adm", "wheel"}
             /\ Has(e, "action") /\ e.fields["action"] \in {"added", "removed"}
  BY <1>3, <1>6, <1>7, SMT DEF Has
<1>11. \A r \in EnabledRules : ResultOf(o, r, e) # {} => r = ShippedRules[5]
  BY <1>6, Triggers
<1>12. ShippedRules[5] = Rule("privileged_group_membership_changed", <<"actor", "group", "action">>,
                              condition)
  BY TheRules
<1> HIDE DEF condition
<1>13. Matching(CaseOf(o)) <=> Matches(e, condition) /\ HasAll(e, <<"actor", "group", "action">>)
  BY <1>1, <1>8, <1>9, <1>10, CaseNames
<1>14. PICK k \in 1 .. 13 : k = 5 /\ k = o \div 4 + 1
  OBVIOUS
<1> QED BY <1>5, <1>6, <1>11, <1>12, <1>13, <1>14, EvidenceNumbers, OneEvent DEF condition

\* Rule 12, system_file_changed.
LEMMA FileChanged ==
  ASSUME NEW o \in Scenarios, o \div 4 + 1 = 12
  PROVE  Settled(o)
<1>1. PICK c : c = CaseOf(o)
  OBVIOUS
<1>2. PICK type : type = IF c = "negative" THEN "file_accessed" ELSE "file_changed"
  OBVIOUS
<1>3. PICK fields : fields = IF c = "boundary_below" THEN NoFields ELSE [path |-> o]
  OBVIOUS
<1>4. EventSpecs(o) = <<EventSpec(type, 0, fields)>>
  <2>1. EventSpecs(o) = FileChangedSpecs(c, o)
    BY <1>1, SpecsOf
  <2> QED BY <1>2, <1>3, <2>1, Zenon DEF FileChangedSpecs
<1>5. PICK e : e = EventAt(o, 1)
  OBVIOUS
<1>6. DOMAIN EventSpecs(o) = 1 .. 1 /\ e.type = type /\ e.fields = fields
  BY <1>4, <1>5, OneOnly DEF EventAt, EventSpec
<1>7. c \in {"positive", "negative", "boundary_below", "boundary_exact"}
  BY <1>1, CaseNames
<1> DEFINE condition == Single("file_changed", NoFilters)
<1>8. Matches(e, condition) <=> e.type = "file_changed"
  BY DEF Matches, Single, NoFilters
<1>9. HasAll(e, <<"path">>) <=> Has(e, "path")
  BY OneField
<1>10. c \in {"positive", "boundary_exact"} <=> e.type = "file_changed" /\ Has(e, "path")
  BY <1>2, <1>3, <1>6, <1>7, SMT DEF Has, NoFields
<1>11. \A r \in EnabledRules : ResultOf(o, r, e) # {} => r = ShippedRules[12]
  BY <1>2, <1>6, Triggers
<1>12. ShippedRules[12] = Rule("system_file_changed", <<"path">>, condition)
  BY TheRules
<1> HIDE DEF condition
<1>13. Matching(CaseOf(o)) <=> Matches(e, condition) /\ HasAll(e, <<"path">>)
  BY <1>1, <1>8, <1>9, <1>10, CaseNames
<1>14. PICK k \in 1 .. 13 : k = 12 /\ k = o \div 4 + 1
  OBVIOUS
<1> QED BY <1>5, <1>6, <1>11, <1>12, <1>13, <1>14, EvidenceNumbers, OneEvent DEF condition

\* Rule 13, user_account_created.
LEMMA UserCreated ==
  ASSUME NEW o \in Scenarios, o \div 4 + 1 = 13
  PROVE  Settled(o)
<1>1. PICK c : c = CaseOf(o)
  OBVIOUS
<1>2. PICK type : type = CASE Matching(c)    -> "user_created"
                           [] c = "negative" -> "user_deleted"
                           [] OTHER          -> "user_create"
  OBVIOUS
<1>3. PICK a : a = IF c = "boundary_exact" THEN <<-1, 2>> ELSE SyntheticActor(o, 0)
  OBVIOUS
<1>4. EventSpecs(o) = <<EventSpec(type, 0, [actor |-> a])>>
  <2>1. EventSpecs(o) = UserCreatedSpecs(c, o)
    BY <1>1, SpecsOf
  <2> QED BY <1>2, <1>3, <2>1, SMT DEF UserCreatedSpecs, By
<1>5. PICK e : e = EventAt(o, 1)
  OBVIOUS
<1>6. DOMAIN EventSpecs(o) = 1 .. 1 /\ e.type = type /\ e.fields = [actor |-> a]
  BY <1>4, <1>5, OneOnly DEF EventAt, EventSpec
<1>7. c \in {"positive", "negative", "boundary_below", "boundary_exact"}
  BY <1>1, CaseNames
<1> DEFINE condition == Single("user_created", NoFilters)
<1>8. Matches(e, condition) <=> e.type = "user_created"
  BY DEF Matches, Single, NoFilters
<1>9. HasAll(e, <<"actor">>)
  BY <1>6, OneField DEF Has
<1>10. type \in {"user_created", "user_deleted", "user_create"} /\ (Matching(c) <=> type = "user_created")
  BY <1>2, SMT DEF Matching
<1>11. \A r \in EnabledRules : ResultOf(o, r, e) # {} => r = ShippedRules[13]
  BY <1>6, <1>10, Triggers
<1>12. ShippedRules[13] = Rule("user_account_created", <<"actor">>, condition)
  BY TheRules
<1> HIDE DEF condition
<1>13. Matching(CaseOf(o)) <=> Matches(e, condition) /\ HasAll(e, <<"actor">>)
  BY <1>1, <1>6, <1>8, <1>9, <1>10
<1>14. PICK k \in 1 .. 13 : k = 13 /\ k = o \div 4 + 1
  OBVIOUS
<1> QED BY <1>5, <1>6, <1>11, <1>12, <1>13, <1>14, EvidenceNumbers, OneEvent DEF condition

\* A login alone is not from a new address: there is nothing to compare with.
LEMMA NoNewAddress ==
  ASSUME NEW o, NEW t, Baseline(o, t) = {}
  PROVE  ResultOf(o, ShippedRules[7], t) = {}
<1>1. PICK B : B = Baseline(o, t)
  OBVIOUS
<1>2. ResultOf(o, ShippedRules[7], t) # {} => Cardinality(B) >= 1
  BY <1>1, NewAddressResult
<1>3. Cardinality(B) = 0
  BY <1>1, FS_EmptySet
<1> QED BY <1>2, <1>3

\* Logins without failures before them complete no sequence.
LEMMA TooFewFailures ==
  ASSUME NEW o \in Scenarios, NEW t \in Catalog[o], t.at \in Int,
         NEW D, D = Failures(o, t), Cardinality(D) < 3
  PROVE  ResultOf(o, ShippedRules[10], t) = {}
<1>1. ResultOf(o, ShippedRules[10], t) # {} => Cardinality(Latest(D, 3)) = 3
  BY SequenceResult
<1>2. IsFiniteSet(D)
  <2>1. D \subseteq Catalog[o]
    BY DEF Failures
  <2> QED BY <2>1, CatalogFinite, FS_Subset
<1>3. Latest(D, 3) \subseteq D
  BY DEF Latest
<1>4. Cardinality(Latest(D, 3)) <= Cardinality(D) /\ Cardinality(D) \in Nat
  BY <1>2, <1>3, FS_Subset, FS_CardinalityType
<1> QED BY <1>1, <1>4

\* Rule 9, ssh_root_login_success.
LEMMA RootLogin ==
  ASSUME NEW o \in Scenarios, o \div 4 + 1 = 9
  PROVE  Settled(o)
<1>1. PICK c : c = CaseOf(o)
  OBVIOUS
<1>2. PICK a : a = CASE Matching(c)    -> RootActor
                     [] c = "negative" -> SyntheticActor(o, 0)
                     [] OTHER          -> <<-1, 1>>
  OBVIOUS
<1>3. PICK ip : ip = DocumentationIp(o, 0)
  OBVIOUS
<1>4. EventSpecs(o) = <<EventSpec("ssh_login", 0, [actor |-> a, source_ip |-> ip])>>
  <2>1. EventSpecs(o) = RootLoginSpecs(c, o)
    BY <1>1, SpecsOf
  <2> QED BY <1>2, <1>3, <2>1, SMT DEF RootLoginSpecs, SshEvent
<1>5. PICK e : e = EventAt(o, 1)
  OBVIOUS
<1>6. /\ DOMAIN EventSpecs(o) = 1 .. 1
      /\ e.type = "ssh_login" /\ e.fields = [actor |-> a, source_ip |-> ip]
      /\ e.at = ScenarioAnchor(o) + 0
  BY <1>4, <1>5, OneOnly DEF EventAt, EventSpec
<1>7. c \in {"positive", "negative", "boundary_below", "boundary_exact"}
  BY <1>1, CaseNames
<1> DEFINE condition == Single("ssh_login", [actor |-> {RootActor}])
<1>8. Matches(e, condition) <=> Has(e, "actor") /\ e.fields["actor"] = RootActor
  BY <1>6 DEF Matches, Single
<1>9. HasAll(e, <<"actor", "source_ip">>) /\ Has(e, "actor") /\ e.fields["actor"] = a
  BY <1>6, TwoFields DEF Has
<1>10. Matching(c) <=> a = RootActor
  <2>1. CASE Matching(c)
    BY <1>2, <2>1, SMT DEF Matching
  <2>2. CASE ~Matching(c)
    <3>1. a = SyntheticActor(o, 0) \/ a = <<-1, 1>>
      BY <1>2, <2>2, SMT
    <3>2. o # -1
      BY CaseFacts
    <3> QED BY <2>2, <3>1, <3>2 DEF SyntheticActor, RootActor
  <2> QED BY <2>1, <2>2
<1>11. Catalog[o] = {e}
  <2>1. Catalog[o] = {EventAt(o, i) : i \in 1 .. 1}
    BY <1>6, ManifestOf
  <2> QED BY <1>5, <2>1
<1>12. ResultOf(o, ShippedRules[7], e) = {}
  <2>1. Baseline(o, e) = {}
    BY <1>11 DEF Baseline
  <2> QED BY <2>1, NoNewAddress
<1>13. ResultOf(o, ShippedRules[10], e) = {}
  <2>1. PICK D : D = Failures(o, e)
    OBVIOUS
  <2>2. Cardinality(D) < 3
    <3>1. D = {}
      BY <1>6, <1>11, <2>1 DEF Failures
    <3> QED BY <3>1, FS_EmptySet
  <2>3. e.at \in Int /\ e \in Catalog[o]
    BY <1>6, <1>11, CaseFacts DEF ScenarioAnchor
  <2> QED BY <2>1, <2>2, <2>3, TooFewFailures
<1>14. \A r \in EnabledRules : ResultOf(o, r, e) # {} => r = ShippedRules[9]
  BY <1>6, <1>12, <1>13, Triggers
<1>15. ShippedRules[9] = Rule("ssh_root_login_success", <<"actor", "source_ip">>, condition)
  BY TheRules
<1> HIDE DEF condition
<1>16. Matching(CaseOf(o)) <=> Matches(e, condition) /\ HasAll(e, <<"actor", "source_ip">>)
  BY <1>1, <1>8, <1>9, <1>10
<1>17. PICK k \in 1 .. 13 : k = 9 /\ k = o \div 4 + 1
  OBVIOUS
<1> QED BY <1>5, <1>6, <1>14, <1>15, <1>16, <1>17, EvidenceNumbers, OneEvent DEF condition

-----------------------------------------------------------------------------
(* The scenarios of the rules that count *)

\* How many events a counted scenario has.
Size(c, n) == IF c = "boundary_below" THEN n - 1 ELSE n

\* There are m offsets in a window of w seconds, the last of them at its end.
InWindow(offsets, m, w) ==
  /\ DOMAIN offsets = 1 .. m /\ m \in Nat \ {0}
  /\ \A i \in 1 .. m : offsets[i] \in Int /\ -w <= offsets[i] /\ offsets[i] <= 0
  /\ offsets[m] = 0

\* The times of a counted scenario lie in the window that ends with its last event.
LEMMA OffsetsOf ==
  ASSUME NEW c \in {"positive", "negative", "boundary_below", "boundary_exact"},
         NEW n \in Nat, n > 1, NEW w \in Nat, w >= n
  PROVE  InWindow(CountedOffsets(c, n, w), Size(c, n), w)
<1> DEFINE m == Size(c, n)
           offsets == CountedOffsets(c, n, w)
<1> SUFFICES InWindow(offsets, m, w)
  OBVIOUS
<1>1. \A k \in Nat : /\ UpToZero(k) \in Seq(Int) /\ Len(UpToZero(k)) = k /\ DOMAIN UpToZero(k) = 1 .. k
                     /\ \A i \in 1 .. k : UpToZero(k)[i] = i - k
  BY DEF UpToZero
<1>2. CASE c = "boundary_exact"
  <2>1. PICK z : z = UpToZero(n - 1)
    OBVIOUS
  <2>2. z \in Seq(Int) /\ Len(z) = n - 1 /\ \A i \in 1 .. n - 1 : z[i] = i - (n - 1)
    <3>1. n - 1 \in Nat
      OBVIOUS
    <3>2. /\ UpToZero(n - 1) \in Seq(Int) /\ Len(UpToZero(n - 1)) = n - 1
          /\ \A i \in 1 .. n - 1 : UpToZero(n - 1)[i] = i - (n - 1)
      BY <1>1, <3>1, Zenon
    <3> QED BY <2>1, <3>2, Zenon
  <2>3. offsets = <<-w>> \o z
    BY <1>2, <2>1, SMT DEF CountedOffsets
  <2>4. DOMAIN offsets = 1 .. n /\ offsets[1] = -w /\ \A i \in 2 .. n : offsets[i] = z[i - 1]
    BY <2>2, <2>3
  <2>5. \A i \in 2 .. n : offsets[i] = i - n
    BY <2>2, <2>4
  <2>6. n \in 2 .. n /\ m = n
    BY <1>2 DEF Size
  <2>7. \A i \in 1 .. n : i = 1 \/ i \in 2 .. n
    OBVIOUS
  <2> QED BY <2>4, <2>5, <2>6, <2>7 DEF InWindow
<1>3. CASE c # "boundary_exact"
  <2>1. offsets = UpToZero(m) /\ m \in Nat
    BY <1>3, SMT DEF CountedOffsets, Size
  <2>2. DOMAIN offsets = 1 .. m /\ \A i \in 1 .. m : offsets[i] = i - m
    <3>1. /\ DOMAIN UpToZero(m) = 1 .. m
          /\ \A i \in 1 .. m : UpToZero(m)[i] = i - m
      BY <1>1, <2>1, Zenon
    <3> QED BY <2>1, <3>1, Zenon
  <2>3. m \in Nat \ {0} /\ m <= w
    BY DEF Size
  <2> HIDE DEF m, offsets
  <2>4. \A i \in 1 .. m : i - m \in Int /\ -w <= i - m /\ i - m <= 0
    BY <2>3
  <2> QED BY <2>2, <2>3, <2>4 DEF InWindow
<1> QED BY <1>2, <1>3

\* A scenario of a counting rule: its events differ in the field V the rule
\* groups by if it must not match.
CountedEvents(o, type, n, w, f, V) ==
  /\ DOMAIN EventSpecs(o) = DOMAIN CountedOffsets(CaseOf(o), n, w)
  /\ \A i \in DOMAIN EventSpecs(o) : /\ EventSpecs(o)[i].type = type
                                     /\ EventSpecs(o)[i].offset = CountedOffsets(CaseOf(o), n, w)[i]
                                     /\ f \in DOMAIN EventSpecs(o)[i].fields
                                     /\ EventSpecs(o)[i].fields[f] = V[i]
  /\ Matching(CaseOf(o)) => \A i, j \in 1 .. n : V[i] = V[j]
  /\ CaseOf(o) = "negative" => \A i, j \in 1 .. n : V[i] = V[j] => i = j

\* A counted scenario has no more events than its rule counts.
LEMMA ScenarioOffsets ==
  ASSUME NEW o \in Scenarios, NEW n \in Nat, n > 1, NEW w \in Nat, w >= n
  PROVE  /\ DOMAIN CountedOffsets(CaseOf(o), n, w) \subseteq 1 .. n
         /\ \E m \in Nat : DOMAIN CountedOffsets(CaseOf(o), n, w) = 1 .. m /\ m <= n
<1>1. CaseOf(o) \in {"positive", "negative", "boundary_below", "boundary_exact"}
  BY CaseNames
<1>2. DOMAIN CountedOffsets(CaseOf(o), n, w) = 1 .. Size(CaseOf(o), n)
  BY <1>1, OffsetsOf DEF InWindow
<1> QED BY <1>2 DEF Size

\* A scenario of a counting rule does what its case says, if no other rule
\* takes its events.
LEMMA CountedScenario ==
  ASSUME NEW o \in Scenarios, NEW k \in 1 .. 13, k = o \div 4 + 1,
         NEW name, NEW type, NEW n \in Nat, n > 1, EvidenceCount[k] = n, NEW w \in Nat, w >= n, NEW f,
         ShippedRules[k] = Rule(name, <<f>>, CountOver(type, n, w, <<f>>)),
         NEW V, CountedEvents(o, type, n, w, f, V),
         \A r \in EnabledRules, t \in Catalog[o] : ResultOf(o, r, t) # {} => r = ShippedRules[k]
  PROVE  Settled(o)
<1> DEFINE r == ShippedRules[k]
<1>1. PICK c : c = CaseOf(o)
  OBVIOUS
<1>2. /\ c \in {"positive", "negative", "boundary_below", "boundary_exact"}
      /\ Matching(c) <=> c \in {"positive", "boundary_exact"}
  BY <1>1, CaseNames
<1>3. /\ DOMAIN EventSpecs(o) = DOMAIN CountedOffsets(c, n, w)
     /\ \A i \in DOMAIN EventSpecs(o) : /\ EventSpecs(o)[i].type = type
                                        /\ EventSpecs(o)[i].offset = CountedOffsets(c, n, w)[i]
                                        /\ f \in DOMAIN EventSpecs(o)[i].fields
                                        /\ EventSpecs(o)[i].fields[f] = V[i]
  BY <1>1, Zenon DEF CountedEvents
<1>4. Matching(c) => \A i, j \in 1 .. n : V[i] = V[j]
  BY <1>1, Zenon DEF CountedEvents
<1>5. c = "negative" => \A i, j \in 1 .. n : V[i] = V[j] => i = j
  BY <1>1, Zenon DEF CountedEvents
<1>6. PICK m : m = Size(c, n)
  OBVIOUS
<1>7. PICK offsets : offsets = CountedOffsets(c, n, w)
  OBVIOUS
<1>8. /\ DOMAIN offsets = 1 .. m /\ m \in Nat \ {0}
      /\ \A i \in 1 .. m : offsets[i] \in Int /\ -w <= offsets[i] /\ offsets[i] <= 0
      /\ offsets[m] = 0
  <2>1. /\ c \in {"positive", "negative", "boundary_below", "boundary_exact"}
        /\ n \in Nat /\ n > 1 /\ w \in Nat /\ w >= n
    BY <1>2
  <2>2. InWindow(CountedOffsets(c, n, w), Size(c, n), w)
    BY ONLY <2>1, OffsetsOf
  <2> QED BY <1>6, <1>7, <2>2 DEF InWindow
<1>9. DOMAIN EventSpecs(o) = 1 .. m
  BY <1>3, <1>7, <1>8
<1>10. Catalog[o] = {EventAt(o, i) : i \in 1 .. m} /\ Cardinality(Catalog[o]) = m
  BY <1>8, <1>9, ManifestOf
<1>11. ASSUME NEW i \in 1 .. m
       PROVE  /\ EventAt(o, i).type = type /\ EventAt(o, i).at = ScenarioAnchor(o) + offsets[i]
              /\ Has(EventAt(o, i), f) /\ EventAt(o, i).fields[f] = V[i]
  <2>1. i \in DOMAIN EventSpecs(o)
    BY <1>9
  <2>2. /\ EventSpecs(o)[i].type = type /\ EventSpecs(o)[i].offset = offsets[i]
        /\ f \in DOMAIN EventSpecs(o)[i].fields /\ EventSpecs(o)[i].fields[f] = V[i]
    BY <1>3, <1>7, <2>1
  <2> QED BY <2>2 DEF EventAt, Has
<1>12. /\ r.rule_key = name /\ r.correlation = <<f>>
       /\ r = Rule(name, <<f>>, CountOver(type, n, w, <<f>>)) /\ r \in EnabledRules
  BY RulesEnabled DEF Rule
<1>13. BucketOf(o) = <<r.rule_key, Group(EventAt(o, n), r.correlation)>>
  BY DEF BucketOf, LastEvent, RuleOf
<1>14. ASSUME NEW t \in Catalog[o], ResultOf(o, r, t) # {}
       PROVE  /\ Matching(c) /\ ResultOf(o, r, t) = Catalog[o]
              /\ <<r.rule_key, Group(t, r.correlation)>> = BucketOf(o)
  <2>1. /\ Cardinality(Catalog[o]) >= n
        /\ Cardinality(Catalog[o]) = n => ResultOf(o, r, t) = Catalog[o]
        /\ \E e \in Catalog[o] \ {t} : e.type = type /\ Has(e, f) /\ e.fields[f] = t.fields[f]
    <3> HIDE DEF r
    <3> QED BY <1>12, <1>14, CountOutcome
  <2>2. c # "boundary_below" /\ m = n
    BY <1>6, <1>10, <2>1 DEF Size
  <2>3. PICK j \in 1 .. n : t = EventAt(o, j)
    BY <1>10, <2>2
  <2>4. c # "negative"
    <3> SUFFICES ASSUME c = "negative" PROVE FALSE
      OBVIOUS
    <3>1. PICK i \in 1 .. n : EventAt(o, i) # t /\ EventAt(o, i).fields[f] = t.fields[f]
      BY <1>10, <2>1, <2>2
    <3>2. V[i] = V[j]
      BY <1>11, <2>2, <2>3, <3>1
    <3> QED BY <1>5, <2>3, <3>1, <3>2
  <2>5. Matching(c)
    BY <1>2, <2>2, <2>4
  <2>6. t.fields[f] = EventAt(o, n).fields[f]
    <3>1. n \in 1 .. n /\ V[j] = V[n]
      BY <1>4, <2>5
    <3> QED BY <1>11, <2>2, <2>3, <3>1
  <2>7. Group(t, <<f>>) = Group(EventAt(o, n), <<f>>)
    BY <2>6 DEF Group
  <2> HIDE DEF r
  <2> QED BY <1>10, <1>12, <1>13, <2>1, <2>2, <2>5, <2>7
<1>15. ASSUME Matching(c) PROVE m = n /\ EventAt(o, n) \in Catalog[o] /\ ResultOf(o, r, EventAt(o, n)) # {}
  <2>1. m = n /\ n \in 1 .. n
    BY <1>2, <1>6, <1>15 DEF Size
  <2>2. PICK t : t = EventAt(o, n)
    OBVIOUS
  <2>3. t \in Catalog[o]
    BY <1>10, <2>1, <2>2
  <2>4. ASSUME NEW e \in Catalog[o]
        PROVE  e.type = type /\ Within(e, t, w) /\ Has(e, f) /\ e.fields[f] = t.fields[f]
    <3>1. PICK i \in 1 .. n : e = EventAt(o, i)
      BY <1>10, <2>1
    <3>2. e.type = type /\ Has(e, f) /\ e.fields[f] = V[i] /\ e.at = ScenarioAnchor(o) + offsets[i]
      BY <1>11, <2>1, <3>1
    <3>3. t.fields[f] = V[n] /\ t.at = ScenarioAnchor(o) + 0
      BY <1>8, <1>11, <2>1, <2>2
    <3>4. ScenarioAnchor(o) \in Int
      BY CaseFacts DEF ScenarioAnchor
    <3>5. PICK z \in Int : z = ScenarioAnchor(o)
      BY <3>4
    <3>6. PICK d \in Int : d = offsets[i] /\ -w <= d /\ d <= 0
      BY <1>8, <2>1
    <3>7. e.at \in (t.at - w) .. t.at
      BY <3>2, <3>3, <3>5, <3>6
    <3>8. V[i] = V[n]
      BY <1>4, <1>15, <2>1
    <3> QED BY <3>2, <3>3, <3>7, <3>8 DEF Within
  <2>5. ResultOf(o, r, t) # {}
    <3> HIDE DEF r
    <3>1. Cardinality(Catalog[o]) = n
      BY <1>10, <2>1
    <3>2. r = Rule(name, <<f>>, CountOver(type, n, w, <<f>>))
      BY <1>12
    <3> QED BY <2>3, <2>4, <3>1, <3>2, CountMet
  <2> QED BY <2>1, <2>2, <2>3, <2>5
<1>16. Matching(c) => Yields(o)
  BY <1>12, <1>14, <1>15 DEF Yields
<1>17. ~Matching(c) => Quiet(o)
  BY <1>14 DEF Quiet
<1>18. Cardinality(Catalog[o]) > 0 /\ (Matching(c) => Cardinality(Catalog[o]) = n)
  BY <1>8, <1>10, <1>15
<1> QED BY <1>1, <1>16, <1>17, <1>18 DEF Settled

\* Every event of a scenario has the type its builder gives it.
LEMMA TypeOf ==
  ASSUME NEW o \in Scenarios, NEW type,
         \A i \in DOMAIN EventSpecs(o) : EventSpecs(o)[i].type = type
  PROVE  \A t \in Catalog[o] : t.type = type
BY DEF Catalog, Manifest

\* Addresses and accounts of different slots differ.
LEMMA Slots ==
  ASSUME NEW o \in Scenarios, NEW i \in 0 .. 14, NEW j \in 0 .. 14
  PROVE  /\ DocumentationIp(o, i) = DocumentationIp(o, j) => i = j
         /\ SyntheticActor(o, i) = SyntheticActor(o, j) => i = j
<1>1. o \in Nat
  BY CaseFacts
<1>2. DocumentationIp(o, i) = DocumentationIp(o, j) => i = j
  BY <1>1 DEF DocumentationIp
<1> QED BY <1>2 DEF SyntheticActor

\* Rule 11, sudo_auth_failures.
LEMMA SudoFailed ==
  ASSUME NEW o \in Scenarios, o \div 4 + 1 = 11
  PROVE  Settled(o)
<1>1. PICK c : c = CaseOf(o)
  OBVIOUS
<1>2. PICK offsets : offsets = CountedOffsets(c, 5, 600)
  OBVIOUS
<1>3. EventSpecs(o) = [i \in DOMAIN offsets |->
                         EventSpec("sudo_failed", offsets[i],
                                   By(SyntheticActor(o, IF c = "negative" THEN i - 1 ELSE 0)))]
  <2>1. EventSpecs(o) = SudoSpecs(c, o)
    BY <1>1, SpecsOf
  <2> QED BY <1>2, <2>1 DEF SudoSpecs
<1>4. PICK V : V = [i \in 1 .. 5 |-> SyntheticActor(o, IF c = "negative" THEN i - 1 ELSE 0)]
  OBVIOUS
<1>5. DOMAIN offsets \subseteq 1 .. 5
  <2>1. PICK n \in Nat, w \in Nat : n = 5 /\ w = 600
    OBVIOUS
  <2>2. o \in Scenarios /\ n > 1 /\ w >= n
    BY <2>1
  <2>3. /\ DOMAIN CountedOffsets(CaseOf(o), n, w) \subseteq 1 .. n
        /\ \E m \in Nat : DOMAIN CountedOffsets(CaseOf(o), n, w) = 1 .. m /\ m <= n
    BY ONLY n \in Nat, w \in Nat, <2>2, ScenarioOffsets
  <2> QED BY <1>1, <1>2, <2>1, <2>3
<1>6. ASSUME NEW i \in DOMAIN EventSpecs(o)
      PROVE  /\ EventSpecs(o)[i].type = "sudo_failed" /\ EventSpecs(o)[i].offset = offsets[i]
             /\ "actor" \in DOMAIN EventSpecs(o)[i].fields
             /\ EventSpecs(o)[i].fields["actor"] = V[i]
  BY <1>3, <1>4, <1>5 DEF EventSpec, By
<1>7. Matching(c) => \A i, j \in 1 .. 5 : V[i] = V[j]
  BY <1>4 DEF Matching
<1>8. c = "negative" => \A i, j \in 1 .. 5 : V[i] = V[j] => i = j
  BY <1>4 DEF SyntheticActor
<1>9. \A r \in EnabledRules, t \in Catalog[o] : ResultOf(o, r, t) # {} => r = ShippedRules[11]
  BY <1>6, TypeOf, Triggers
<1>10. ShippedRules[11] = Rule("sudo_auth_failures", <<"actor">>,
                               CountOver("sudo_failed", 5, 600, <<"actor">>))
  BY TheRules
<1>11. PICK k \in 1 .. 13 : k = 11 /\ k = o \div 4 + 1
  OBVIOUS
<1>12. DOMAIN EventSpecs(o) = DOMAIN offsets
  BY <1>3
<1>13. CountedEvents(o, "sudo_failed", 5, 600, "actor", V)
  BY <1>1, <1>2, <1>6, <1>7, <1>8, <1>12 DEF CountedEvents
<1> QED BY <1>9, <1>10, <1>11, <1>13, EvidenceNumbers, CountedScenario

\* Rule 6, ssh_bruteforce_by_ip; the spray rule reads the same events.
LEMMA Bruteforce ==
  ASSUME NEW o \in Scenarios, o \div 4 + 1 = 6
  PROVE  Settled(o)
<1>1. PICK c : c = CaseOf(o)
  OBVIOUS
<1>2. PICK offsets : offsets = CountedOffsets(c, 8, 300)
  OBVIOUS
<1>3. EventSpecs(o) = [i \in DOMAIN offsets |->
                         SshEvent("ssh_failed", offsets[i], SyntheticActor(o, 0),
                                  DocumentationIp(o, IF c = "negative" THEN i - 1 ELSE 0))]
  <2>1. EventSpecs(o) = BruteforceSpecs(c, o)
    BY <1>1, SpecsOf
  <2> QED BY <1>2, <2>1, Zenon DEF BruteforceSpecs
<1>4. PICK V : V = [i \in 1 .. 8 |-> DocumentationIp(o, IF c = "negative" THEN i - 1 ELSE 0)]
  OBVIOUS
<1>5. DOMAIN offsets \subseteq 1 .. 8
  <2>1. PICK n \in Nat, w \in Nat : n = 8 /\ w = 300
    OBVIOUS
  <2>2. o \in Scenarios /\ n > 1 /\ w >= n
    BY <2>1
  <2>3. /\ DOMAIN CountedOffsets(CaseOf(o), n, w) \subseteq 1 .. n
        /\ \E m \in Nat : DOMAIN CountedOffsets(CaseOf(o), n, w) = 1 .. m /\ m <= n
    BY ONLY n \in Nat, w \in Nat, <2>2, ScenarioOffsets
  <2> QED BY <1>1, <1>2, <2>1, <2>3
<1>6. ASSUME NEW i \in DOMAIN EventSpecs(o)
      PROVE  /\ EventSpecs(o)[i].type = "ssh_failed" /\ EventSpecs(o)[i].offset = offsets[i]
             /\ EventSpecs(o)[i].fields["actor"] = SyntheticActor(o, 0)
             /\ "source_ip" \in DOMAIN EventSpecs(o)[i].fields
             /\ EventSpecs(o)[i].fields["source_ip"] = V[i]
  BY <1>3, <1>4, <1>5 DEF EventSpec, SshEvent
<1>7. Matching(c) => \A i, j \in 1 .. 8 : V[i] = V[j]
  BY <1>4 DEF Matching
<1>8. c = "negative" => \A i, j \in 1 .. 8 : V[i] = V[j] => i = j
  <2>1. \A i \in 1 .. 8 : i - 1 \in 0 .. 14
    OBVIOUS
  <2> QED BY <1>4, <2>1, Slots
<1>9. \A r \in EnabledRules, t \in Catalog[o] : ResultOf(o, r, t) # {} => r = ShippedRules[6]
  <2>1. \A t \in Catalog[o] : t.type = "ssh_failed"
    BY <1>6, TypeOf
  <2>2. \A t \in Catalog[o] : t.fields["actor"] = SyntheticActor(o, 0)
    BY <1>6 DEF Catalog, Manifest
  <2>3. IsFiniteSet({SyntheticActor(o, 0)}) /\ Cardinality({SyntheticActor(o, 0)}) = 1
    BY FS_Singleton
  <2>4. ASSUME NEW t \in Catalog[o] PROVE ResultOf(o, ShippedRules[8], t) = {}
    <3>1. PICK A : A = {SyntheticActor(o, 0)}
      OBVIOUS
    <3>2. IsFiniteSet(A) /\ Cardinality(A) = 1 /\ \A e \in Catalog[o] : Has(e, "actor") => e.fields["actor"] \in A
      BY <2>2, <2>3, <3>1
    <3>3. ResultOf(o, ShippedRules[8], t) # {} => Cardinality(A) >= 5
      BY <3>2, SprayOutcome
    <3> QED BY <3>2, <3>3
  <2> QED BY <2>1, <2>4, Triggers
<1>10. ShippedRules[6] = Rule("ssh_bruteforce_by_ip", <<"source_ip">>,
                              CountOver("ssh_failed", 8, 300, <<"source_ip">>))
  BY TheRules
<1>11. PICK k \in 1 .. 13 : k = 6 /\ k = o \div 4 + 1
  OBVIOUS
<1>12. DOMAIN EventSpecs(o) = DOMAIN offsets
  BY <1>3
<1>13. CountedEvents(o, "ssh_failed", 8, 300, "source_ip", V)
  BY <1>1, <1>2, <1>6, <1>7, <1>8, <1>12, Zenon DEF CountedEvents
<1> QED BY <1>9, <1>10, <1>11, <1>13, EvidenceNumbers, CountedScenario

\* The statuses of the negative case are fifteen different ones.
LEMMA StatusesDiffer ==
  \A i, j \in 1 .. 15 : NegativeStatuses[i] = NegativeStatuses[j] => i = j
<1>1. /\ NegativeStatuses[1] = 400 /\ NegativeStatuses[2] = 401 /\ NegativeStatuses[3] = 402
      /\ NegativeStatuses[4] = 403 /\ NegativeStatuses[5] = 404 /\ NegativeStatuses[6] = 405
      /\ NegativeStatuses[7] = 406 /\ NegativeStatuses[8] = 408 /\ NegativeStatuses[9] = 409
      /\ NegativeStatuses[10] = 410 /\ NegativeStatuses[11] = 500 /\ NegativeStatuses[12] = 501
      /\ NegativeStatuses[13] = 502 /\ NegativeStatuses[14] = 503 /\ NegativeStatuses[15] = 504
  BY DEF NegativeStatuses
<1>2. \A i \in 1 .. 15 : NegativeStatuses[i] = IF i <= 7 THEN 399 + i ELSE
                                               IF i <= 10 THEN 400 + i ELSE 489 + i
  BY <1>1
<1> QED BY <1>2

\* Rule 3, nginx_error_spike; rule 4 reads the same events.
LEMMA ErrorSpike ==
  ASSUME NEW o \in Scenarios, o \div 4 + 1 = 3
  PROVE  Settled(o)
<1>1. PICK c : c = CaseOf(o)
  OBVIOUS
<1>2. PICK offsets : offsets = CountedOffsets(c, 15, 120)
  OBVIOUS
<1>3. EventSpecs(o) = [i \in DOMAIN offsets |->
         RequestSpec(offsets[i], IF c = "negative" THEN NegativeStatuses[i] ELSE SpikeStatus(c),
                     DocumentationIp(o, i - 1))]
  <2>1. EventSpecs(o) = ErrorSpikeSpecs(c, o)
    BY <1>1, SpecsOf
  <2> QED BY <1>2, <2>1 DEF ErrorSpikeSpecs
<1>4. PICK V : V = [i \in 1 .. 15 |-> IF c = "negative" THEN NegativeStatuses[i] ELSE SpikeStatus(c)]
  OBVIOUS
<1>5. DOMAIN offsets \subseteq 1 .. 15
  <2>1. PICK n \in Nat, w \in Nat : n = 15 /\ w = 120
    OBVIOUS
  <2>2. o \in Scenarios /\ n > 1 /\ w >= n
    BY <2>1
  <2>3. /\ DOMAIN CountedOffsets(CaseOf(o), n, w) \subseteq 1 .. n
        /\ \E m \in Nat : DOMAIN CountedOffsets(CaseOf(o), n, w) = 1 .. m /\ m <= n
    BY ONLY n \in Nat, w \in Nat, <2>2, ScenarioOffsets
  <2> QED BY <1>1, <1>2, <2>1, <2>3
<1>6. ASSUME NEW i \in DOMAIN EventSpecs(o)
      PROVE  /\ EventSpecs(o)[i].type = "request_failed" /\ EventSpecs(o)[i].offset = offsets[i]
             /\ EventSpecs(o)[i].fields["source_ip"] = DocumentationIp(o, i - 1)
             /\ "status" \in DOMAIN EventSpecs(o)[i].fields
             /\ EventSpecs(o)[i].fields["status"] = V[i]
  BY <1>3, <1>4, <1>5 DEF EventSpec, RequestSpec
<1>7. Matching(c) => \A i, j \in 1 .. 15 : V[i] = V[j]
  BY <1>4 DEF Matching
<1>8. c = "negative" => \A i, j \in 1 .. 15 : V[i] = V[j] => i = j
  BY <1>4, StatusesDiffer
<1>9. \A r \in EnabledRules, t \in Catalog[o] : ResultOf(o, r, t) # {} => r = ShippedRules[3]
  <2>1. \A t \in Catalog[o] : t.type = "request_failed"
    BY <1>6, TypeOf
  <2>2. ASSUME NEW t \in Catalog[o], ResultOf(o, ShippedRules[4], t) # {} PROVE FALSE
    <3>1. ShippedRules[4] = Rule("nginx_failed_requests_by_ip", <<"source_ip">>,
                                 CountOver("request_failed", 12, 300, <<"source_ip">>))
      BY TheRules
    <3>2. PICK e \in Catalog[o] \ {t} : e.fields["source_ip"] = t.fields["source_ip"]
      <4>1. 12 \in Nat /\ 12 > 1
        OBVIOUS
      <4> QED BY ONLY <2>2, <3>1, <4>1, CountOutcome, o \in Scenarios
    <3>3. Catalog[o] = {EventAt(o, i) : i \in DOMAIN EventSpecs(o)}
      BY DEF Catalog, Manifest, EventAt
    <3>4. PICK i \in DOMAIN EventSpecs(o), j \in DOMAIN EventSpecs(o) : e = EventAt(o, i) /\ t = EventAt(o, j)
      BY <3>3
    <3>5. DocumentationIp(o, i - 1) = DocumentationIp(o, j - 1)
      BY <1>6, <3>2, <3>4 DEF EventAt
    <3>6. i - 1 \in 0 .. 14 /\ j - 1 \in 0 .. 14 /\ i \in Nat /\ j \in Nat
      BY <1>3, <1>5
    <3>7. i - 1 = j - 1
      BY <3>5, <3>6, Slots
    <3> QED BY <3>2, <3>4, <3>6, <3>7
  <2> QED BY <2>1, <2>2, Triggers
<1>10. ShippedRules[3] = Rule("nginx_error_spike", <<"status">>,
                              CountOver("request_failed", 15, 120, <<"status">>))
  BY TheRules
<1>11. PICK k \in 1 .. 13 : k = 3 /\ k = o \div 4 + 1
  OBVIOUS
<1>12. DOMAIN EventSpecs(o) = DOMAIN offsets
  BY <1>3
<1>13. CountedEvents(o, "request_failed", 15, 120, "status", V)
  BY <1>1, <1>2, <1>6, <1>7, <1>8, <1>12 DEF CountedEvents
<1> QED BY <1>9, <1>10, <1>11, <1>13, EvidenceNumbers, CountedScenario

\* Rule 4, nginx_failed_requests_by_ip; rule 3 reads the same events.
LEMMA FailedRequests ==
  ASSUME NEW o \in Scenarios, o \div 4 + 1 = 4
  PROVE  Settled(o)
<1>1. PICK c : c = CaseOf(o)
  OBVIOUS
<1>2. PICK offsets : offsets = CountedOffsets(c, 12, 300)
  OBVIOUS
<1>3. EventSpecs(o) = [i \in DOMAIN offsets |->
         RequestSpec(offsets[i], 403, DocumentationIp(o, IF c = "negative" THEN i - 1 ELSE 0))]
  <2>1. EventSpecs(o) = FailedRequestsSpecs(c, o)
    BY <1>1, SpecsOf
  <2> QED BY <1>2, <2>1 DEF FailedRequestsSpecs
<1>4. PICK V : V = [i \in 1 .. 12 |-> DocumentationIp(o, IF c = "negative" THEN i - 1 ELSE 0)]
  OBVIOUS
<1>5. DOMAIN offsets \subseteq 1 .. 12 /\ \E m \in Nat : DOMAIN offsets = 1 .. m /\ m <= 12
  <2>1. PICK n \in Nat, w \in Nat : n = 12 /\ w = 300
    OBVIOUS
  <2>2. o \in Scenarios /\ n > 1 /\ w >= n
    BY <2>1
  <2>3. /\ DOMAIN CountedOffsets(CaseOf(o), n, w) \subseteq 1 .. n
        /\ \E m \in Nat : DOMAIN CountedOffsets(CaseOf(o), n, w) = 1 .. m /\ m <= n
    BY ONLY n \in Nat, w \in Nat, <2>2, ScenarioOffsets
  <2> QED BY <1>1, <1>2, <2>1, <2>3
<1>6. ASSUME NEW i \in DOMAIN EventSpecs(o)
      PROVE  /\ EventSpecs(o)[i].type = "request_failed" /\ EventSpecs(o)[i].offset = offsets[i]
             /\ "source_ip" \in DOMAIN EventSpecs(o)[i].fields
             /\ EventSpecs(o)[i].fields["source_ip"] = V[i]
  BY <1>3, <1>4, <1>5 DEF EventSpec, RequestSpec
<1>7. Matching(c) => \A i, j \in 1 .. 12 : V[i] = V[j]
  BY <1>4 DEF Matching
<1>8. c = "negative" => \A i, j \in 1 .. 12 : V[i] = V[j] => i = j
  <2>1. \A i \in 1 .. 12 : i - 1 \in 0 .. 14
    OBVIOUS
  <2> QED BY <1>4, <2>1, Slots
<1>9. \A r \in EnabledRules, t \in Catalog[o] : ResultOf(o, r, t) # {} => r = ShippedRules[4]
  <2>1. \A t \in Catalog[o] : t.type = "request_failed"
    BY <1>6, TypeOf
  <2>2. ASSUME NEW t \in Catalog[o], ResultOf(o, ShippedRules[3], t) # {} PROVE FALSE
    <3>1. ShippedRules[3] = Rule("nginx_error_spike", <<"status">>,
                                 CountOver("request_failed", 15, 120, <<"status">>))
      BY TheRules
    <3>2. Cardinality(Catalog[o]) >= 15
      <4>1. 15 \in Nat /\ 15 > 1
        OBVIOUS
      <4> QED BY ONLY <2>2, <3>1, <4>1, CountOutcome, o \in Scenarios
    <3>3. PICK m \in Nat : DOMAIN EventSpecs(o) = 1 .. m /\ m <= 12
      BY <1>3, <1>5
    <3>4. Cardinality(Catalog[o]) = m
      BY <3>3, ManifestOf
    <3> QED BY <3>2, <3>3, <3>4
  <2> QED BY <2>1, <2>2, Triggers
<1>10. ShippedRules[4] = Rule("nginx_failed_requests_by_ip", <<"source_ip">>,
                              CountOver("request_failed", 12, 300, <<"source_ip">>))
  BY TheRules
<1>11. PICK k \in 1 .. 13 : k = 4 /\ k = o \div 4 + 1
  OBVIOUS
<1>12. DOMAIN EventSpecs(o) = DOMAIN offsets
  BY <1>3
<1>13. CountedEvents(o, "request_failed", 12, 300, "source_ip", V)
  BY <1>1, <1>2, <1>6, <1>7, <1>8, <1>12 DEF CountedEvents
<1> QED BY <1>9, <1>10, <1>11, <1>13, EvidenceNumbers, CountedScenario

-----------------------------------------------------------------------------
(* The scenarios of the spray, first-seen and sequence rules *)

\* The accounts of n slots are n.
LEMMA SlotCount ==
  ASSUME NEW o \in Scenarios, NEW n \in Nat, n <= 15
  PROVE  /\ IsFiniteSet({SyntheticActor(o, i - 1) : i \in 1 .. n})
         /\ Cardinality({SyntheticActor(o, i - 1) : i \in 1 .. n}) = n
<1>1. PICK A : A = {SyntheticActor(o, i - 1) : i \in 1 .. n}
  OBVIOUS
<1> DEFINE f == [i \in 1 .. n |-> SyntheticActor(o, i - 1)]
<1>2. \A i, j \in 1 .. n : SyntheticActor(o, i - 1) = SyntheticActor(o, j - 1) => i = j
  BY DEF SyntheticActor
<1>3. f \in Bijection(1 .. n, A)
  BY <1>1, <1>2 DEF Bijection, Injection, Surjection, IsInjective
<1>4. ExistsBijection(1 .. n, A)
  BY <1>3 DEF ExistsBijection
<1>5. IsFiniteSet(A) /\ Cardinality(A) = n
  BY <1>4, FS_CountingElements, FS_NatBijection
<1> QED BY <1>1, <1>5

\* The times of the five attempts of a spray.
SprayTimes(c) == IF c = "boundary_exact" THEN <<-600>> \o UpToZero(4) ELSE UpToZero(5)

\* They lie in the ten minutes of the rule.
LEMMA SprayOffsets ==
  ASSUME NEW c
  PROVE  /\ \A i \in 1 .. 5 : /\ SprayTimes(c)[i] \in Int
                              /\ -600 <= SprayTimes(c)[i] /\ SprayTimes(c)[i] <= 0
         /\ SprayTimes(c)[5] = 0
<1> DEFINE offsets == SprayTimes(c)
<1>1. /\ UpToZero(4) \in Seq(Int) /\ Len(UpToZero(4)) = 4
      /\ UpToZero(4)[1] = -3 /\ UpToZero(4)[2] = -2 /\ UpToZero(4)[3] = -1 /\ UpToZero(4)[4] = 0
  BY DEF UpToZero
<1>2. PICK z : z = UpToZero(4)
  OBVIOUS
<1>3. /\ z \in Seq(Int) /\ Len(z) = 4
      /\ z[1] = -3 /\ z[2] = -2 /\ z[3] = -1 /\ z[4] = 0
  BY <1>1, <1>2
<1>4. CASE c = "boundary_exact"
  <2>1. offsets = <<-600>> \o z
    BY <1>2, <1>4 DEF SprayTimes
  <2> HIDE DEF offsets
  <2>2. /\ offsets[1] = -600 /\ offsets[2] = z[1] /\ offsets[3] = z[2] /\ offsets[4] = z[3]
        /\ offsets[5] = z[4]
    BY <1>3, <2>1
  <2>3. \A i \in 1 .. 5 : i = 1 \/ i = 2 \/ i = 3 \/ i = 4 \/ i = 5
    OBVIOUS
  <2>4. /\ \A i \in 1 .. 5 : offsets[i] \in Int /\ -600 <= offsets[i] /\ offsets[i] <= 0
        /\ offsets[5] = 0
    BY <1>3, <2>2, <2>3
  <2> QED BY <2>4 DEF offsets
<1>5. CASE c # "boundary_exact"
  BY <1>5 DEF SprayTimes, UpToZero
<1> QED BY <1>4, <1>5

\* Rule 8, ssh_password_spray_by_ip; the bruteforce rule reads the same events.
LEMMA PasswordSpray ==
  ASSUME NEW o \in Scenarios, o \div 4 + 1 = 8
  PROVE  Settled(o)
<1>1. PICK c : c = CaseOf(o)
  OBVIOUS
<1>2. PICK offsets : offsets = IF c = "boundary_exact" THEN <<-600>> \o UpToZero(4) ELSE UpToZero(5)
  OBVIOUS
<1>3. PICK S : S = [i \in 1 .. 5 |-> IF c = "boundary_below" /\ i = 5 THEN 3 ELSE i - 1]
  OBVIOUS
<1>4. EventSpecs(o) = [i \in 1 .. 5 |->
         SshEvent("ssh_failed", offsets[i], SyntheticActor(o, S[i]),
                  DocumentationIp(o, IF c = "negative" THEN i - 1 ELSE 0))]
  <2>1. EventSpecs(o) = PasswordSpraySpecs(c, o)
    BY <1>1, SpecsOf
  <2>2. EventSpecs(o) = [i \in 1 .. 5 |->
           SshEvent("ssh_failed", offsets[i],
                    SyntheticActor(o, IF c = "boundary_below" /\ i = 5 THEN 3 ELSE i - 1),
                    DocumentationIp(o, IF c = "negative" THEN i - 1 ELSE 0))]
    BY <1>2, <2>1, Zenon DEF PasswordSpraySpecs
  <2>3. \A i \in 1 .. 5 : S[i] = IF c = "boundary_below" /\ i = 5 THEN 3 ELSE i - 1
    BY <1>3
  <2> QED BY <2>2, <2>3
<1>5. DOMAIN EventSpecs(o) = 1 .. 5
  BY <1>4
<1>6. Catalog[o] = {EventAt(o, i) : i \in 1 .. 5} /\ Cardinality(Catalog[o]) = 5
  BY <1>5, ManifestOf
<1>7. ASSUME NEW i \in 1 .. 5
      PROVE  /\ EventAt(o, i).type = "ssh_failed"
             /\ EventAt(o, i).at = ScenarioAnchor(o) + offsets[i]
             /\ Has(EventAt(o, i), "actor") /\ EventAt(o, i).fields["actor"] = SyntheticActor(o, S[i])
             /\ Has(EventAt(o, i), "source_ip")
             /\ EventAt(o, i).fields["source_ip"]
                  = DocumentationIp(o, IF c = "negative" THEN i - 1 ELSE 0)
  BY <1>4 DEF EventAt, EventSpec, SshEvent, Has
<1>8. /\ \A i \in 1 .. 5 : offsets[i] \in Int /\ -600 <= offsets[i] /\ offsets[i] <= 0
      /\ offsets[5] = 0
  <2>1. offsets = SprayTimes(c)
    BY <1>2 DEF SprayTimes
  <2> QED BY <2>1, SprayOffsets
<1>9. PICK E : E = Catalog[o]
  OBVIOUS
<1>10. \A t \in E : ResultOf(o, ShippedRules[6], t) = {}
  <2> SUFFICES ASSUME NEW t \in E, ResultOf(o, ShippedRules[6], t) # {} PROVE FALSE
    OBVIOUS
  <2>1. ShippedRules[6] = Rule("ssh_bruteforce_by_ip", <<"source_ip">>,
                               CountOver("ssh_failed", 8, 300, <<"source_ip">>))
    BY TheRules
  <2>2. Cardinality(Catalog[o]) >= 8
    <3>1. 8 \in Nat /\ 8 > 1 /\ t \in Catalog[o]
      BY <1>9
    <3> QED BY ONLY ResultOf(o, ShippedRules[6], t) # {}, <2>1, <3>1, CountOutcome, o \in Scenarios
  <2> QED BY <1>6, <2>2
<1>11. \A r \in EnabledRules, t \in E : ResultOf(o, r, t) # {} => r = ShippedRules[8]
  <2>1. \A t \in E : t.type = "ssh_failed"
    BY <1>6, <1>7, <1>9
  <2> QED BY <1>10, <2>1, Triggers
<1>12. ASSUME NEW t \in E, ResultOf(o, ShippedRules[8], t) # {}
       PROVE  /\ Matching(c) /\ ResultOf(o, ShippedRules[8], t) = E
              /\ t.fields["source_ip"] = DocumentationIp(o, 0)
  <2>1. PICK j \in 1 .. 5 : t = EventAt(o, j)
    BY <1>6, <1>9
  <2>2. c # "negative"
    <3> SUFFICES ASSUME c = "negative" PROVE FALSE
      OBVIOUS
    <3>1. PICK e \in E \ {t} : e.fields["source_ip"] = t.fields["source_ip"]
      BY <1>9, <1>12, SprayOutcome
    <3>2. PICK i \in 1 .. 5 : e = EventAt(o, i)
      BY <1>6, <1>9
    <3>3. DocumentationIp(o, i - 1) = DocumentationIp(o, j - 1)
      BY <1>7, <2>1, <3>1, <3>2
    <3>4. i - 1 \in 0 .. 14 /\ j - 1 \in 0 .. 14
      OBVIOUS
    <3>5. i - 1 = j - 1
      BY <3>3, <3>4, Slots
    <3> QED BY <2>1, <3>1, <3>2, <3>5
  <2>3. c # "boundary_below"
    <3> SUFFICES ASSUME c = "boundary_below" PROVE FALSE
      OBVIOUS
    <3>1. PICK A : A = {SyntheticActor(o, i - 1) : i \in 1 .. 4}
      OBVIOUS
    <3>2. IsFiniteSet(A) /\ Cardinality(A) = 4
      <4>1. PICK n \in Nat : n = 4
        OBVIOUS
      <4>2. n <= 15
        BY <4>1
      <4>3. /\ IsFiniteSet({SyntheticActor(o, i - 1) : i \in 1 .. n})
            /\ Cardinality({SyntheticActor(o, i - 1) : i \in 1 .. n}) = n
        BY ONLY o \in Scenarios, n \in Nat, <4>2, SlotCount
      <4> QED BY <3>1, <4>1, <4>3
    <3>3. ASSUME NEW e \in Catalog[o] PROVE e.fields["actor"] \in A
      <4>1. PICK i \in 1 .. 5 : e = EventAt(o, i)
        BY <1>6
      <4>2. S[i] \in {0, 1, 2, 3}
        BY <1>3
      <4>3. S[i] + 1 \in 1 .. 4 /\ SyntheticActor(o, S[i]) = SyntheticActor(o, (S[i] + 1) - 1)
        BY <4>2
      <4> QED BY <1>7, <3>1, <4>1, <4>3
    <3>4. Cardinality(A) >= 5
      BY <1>9, <1>12, <3>2, <3>3, SprayOutcome
    <3> QED BY <3>2, <3>4
  <2>4. Matching(c)
    BY <1>1, <2>2, <2>3, CaseNames
  <2> QED BY <1>6, <1>7, <1>9, <1>12, <2>1, <2>2, <2>4, SprayOutcome
<1>13. ASSUME Matching(c)
       PROVE  ResultOf(o, ShippedRules[8], EventAt(o, 5)) # {}
  <2>1. c # "negative" /\ c # "boundary_below"
    BY <1>13 DEF Matching
  <2>2. PICK t : t = EventAt(o, 5)
    OBVIOUS
  <2>3. t \in Catalog[o]
    BY <1>6, <2>2
  <2>4. PICK z : z = ScenarioAnchor(o) /\ z \in Int
    BY CaseFacts DEF ScenarioAnchor
  <2>5. t.at = z /\ t.fields["source_ip"] = DocumentationIp(o, 0)
    BY <1>7, <1>8, <2>1, <2>2, <2>4
  <2>6. ASSUME NEW e \in Catalog[o]
        PROVE  /\ e.type = "ssh_failed" /\ Within(e, t, 600)
               /\ Has(e, "source_ip") /\ e.fields["source_ip"] = t.fields["source_ip"]
               /\ Has(e, "actor")
    <3>1. PICK i \in 1 .. 5 : e = EventAt(o, i)
      BY <1>6
    <3>2. e.at \in (t.at - 600) .. t.at
      BY <1>7, <1>8, <2>4, <2>5, <3>1
    <3> QED BY <1>7, <2>1, <2>5, <3>1, <3>2 DEF Within
  <2>7. Cardinality({e.fields["actor"] : e \in Catalog[o]}) = 5
    <3>1. \A i \in 1 .. 5 : EventAt(o, i).fields["actor"] = SyntheticActor(o, i - 1)
      BY <1>3, <1>7, <2>1
    <3>2. {e.fields["actor"] : e \in Catalog[o]} = {SyntheticActor(o, i - 1) : i \in 1 .. 5}
      BY <1>6, <3>1
    <3>3. PICK n \in Nat : n = 5
      OBVIOUS
    <3>4. n <= 15
      BY <3>3
    <3>5. Cardinality({SyntheticActor(o, i - 1) : i \in 1 .. n}) = n
      BY ONLY o \in Scenarios, n \in Nat, <3>4, SlotCount
    <3> QED BY <3>2, <3>3, <3>5
  <2> QED BY <1>6, <2>2, <2>3, <2>6, <2>7, SprayMet
<1>14. EvidenceCount[8] = 5 /\ ShippedRules[8].correlation = <<"source_ip">> /\ ShippedRules[8] \in EnabledRules
  BY EvidenceNumbers, TheRules, RulesEnabled DEF Rule
<1>15. BucketOf(o) = <<ShippedRules[8].rule_key, Group(EventAt(o, 5), <<"source_ip">>)>>
  BY <1>14 DEF BucketOf, LastEvent, RuleOf
<1>16. Matching(c) => EventAt(o, 5).fields["source_ip"] = DocumentationIp(o, 0)
  BY <1>7 DEF Matching
<1>17. ASSUME Matching(c) PROVE Yields(o)
  <2>1. \A t \in E : t.fields["source_ip"] = DocumentationIp(o, 0)
           => Group(t, <<"source_ip">>) = Group(EventAt(o, 5), <<"source_ip">>)
    BY <1>16, <1>17 DEF Group
  <2>2. EventAt(o, 5) \in E
    BY <1>6, <1>9
  <2> QED BY <1>9, <1>11, <1>12, <1>13, <1>14, <1>15, <1>17, <2>1, <2>2 DEF Yields
<1>18. ~Matching(c) => Quiet(o)
  BY <1>9, <1>11, <1>12 DEF Quiet
<1> QED BY <1>1, <1>6, <1>14, <1>17, <1>18 DEF Settled

\* Rule 7, ssh_login_from_new_ip: two logins, the first in the baseline or just
\* before it.
LEMMA FirstSeenScenario ==
  ASSUME NEW o \in Scenarios, o \div 4 + 1 = 7
  PROVE  Settled(o)
<1>1. PICK c : c = CaseOf(o)
  OBVIOUS
<1>2. PICK b : b = CASE c = "boundary_below" -> -2592001
                     [] c = "boundary_exact" -> -2592000
                     [] OTHER -> -60
  OBVIOUS
<1>3. PICK a : a = SyntheticActor(o, 0)
  OBVIOUS
<1>4. PICK p : p = DocumentationIp(o, 0)
  OBVIOUS
<1>5. PICK q : q = DocumentationIp(o, IF c = "negative" THEN 0 ELSE 1)
  OBVIOUS
<1>6. EventSpecs(o) = <<EventSpec("ssh_login", b, [actor |-> a, source_ip |-> p]),
                        EventSpec("ssh_login", 0, [actor |-> a, source_ip |-> q])>>
  <2>1. EventSpecs(o) = FirstSeenSpecs(c, o)
    BY <1>1, SpecsOf
  <2> QED BY <1>2, <1>3, <1>4, <1>5, <2>1, SMT DEF FirstSeenSpecs, SshEvent
<1>7. PICK e : e = EventAt(o, 1)
  OBVIOUS
<1>8. PICK f : f = EventAt(o, 2)
  OBVIOUS
<1>9. PICK z \in Int : z = ScenarioAnchor(o)
  BY CaseFacts DEF ScenarioAnchor
<1>10. DOMAIN EventSpecs(o) = 1 .. 2
  BY <1>6
<1>11. /\ e.type = "ssh_login" /\ e.at = z + b /\ e.fields = [actor |-> a, source_ip |-> p]
       /\ f.type = "ssh_login" /\ f.at = z /\ f.fields = [actor |-> a, source_ip |-> q]
  BY <1>6, <1>7, <1>8, <1>9 DEF EventAt, EventSpec
<1>12. Catalog[o] = {e, f} /\ Cardinality(Catalog[o]) = 2 /\ e # f
  <2>1. Catalog[o] = {EventAt(o, i) : i \in 1 .. 2} /\ Cardinality(Catalog[o]) = 2
    BY <1>10, ManifestOf
  <2>2. {EventAt(o, i) : i \in 1 .. 2} = {EventAt(o, 1), EventAt(o, 2)}
    <3>1. 1 .. 2 = {1, 2}
      OBVIOUS
    <3> QED BY <3>1
  <2>3. e.id = 100 * o + 1 /\ f.id = 100 * o + 2 /\ o \in Nat
    BY <1>7, <1>8, CaseFacts DEF EventAt
  <2> QED BY <1>7, <1>8, <2>1, <2>2, <2>3
<1>13. c \in {"positive", "negative", "boundary_below", "boundary_exact"}
  BY <1>1, CaseNames
<1>14. b \in Int /\ b < 0 /\ (b < -2592000 <=> c = "boundary_below")
  <2>1. CASE c = "boundary_below"
    BY <1>2, <2>1, SMT
  <2>2. CASE c = "boundary_exact"
    BY <1>2, <2>2, SMT
  <2>3. CASE c # "boundary_below" /\ c # "boundary_exact"
    <3>1. b = -60
      BY <1>2, <2>3, SMT
    <3> QED BY <2>3, <3>1
  <2> QED BY <2>1, <2>2, <2>3
<1>15. p = q <=> c = "negative"
  <2>1. 0 \in 0 .. 14 /\ 1 \in 0 .. 14
    OBVIOUS
  <2>2. DocumentationIp(o, 0) # DocumentationIp(o, 1)
    BY <2>1, Slots
  <2> QED BY <1>4, <1>5, <2>2
<1>16. /\ Has(e, "actor") /\ e.fields["actor"] = a /\ Has(e, "source_ip") /\ e.fields["source_ip"] = p
       /\ Has(f, "actor") /\ f.fields["actor"] = a /\ Has(f, "source_ip") /\ f.fields["source_ip"] = q
  BY <1>11 DEF Has
<1>17. ~Within(f, e, 2592000)
  BY <1>9, <1>11, <1>14 DEF Within
<1>18. Within(e, f, 2592000) <=> c # "boundary_below"
  BY <1>9, <1>11, <1>14 DEF Within
<1>19. Baseline(o, e) = {}
  BY <1>12, <1>17 DEF Baseline
<1>20. Baseline(o, f) = IF c # "boundary_below" THEN {e} ELSE {}
  BY <1>11, <1>12, <1>16, <1>18 DEF Baseline
<1>21. ResultOf(o, ShippedRules[7], e) = {}
  BY <1>19, NoNewAddress
<1>22. ResultOf(o, ShippedRules[7], f) = IF Matching(c) THEN {e, f} ELSE {}
  <2>1. CASE c = "boundary_below"
    <3>1. ~Matching(c)
      BY <2>1 DEF Matching
    <3> QED BY <1>20, <2>1, <3>1, NoNewAddress
  <2>2. CASE c # "boundary_below"
    <3>1. PICK B : B = Baseline(o, f)
      OBVIOUS
    <3>2. B = {e} /\ Cardinality(B) = 1
      BY <1>20, <2>2, <3>1, FS_Singleton
    <3>3. ResultOf(o, ShippedRules[7], f) =
            IF /\ f.type = "ssh_login" /\ Has(f, "source_ip") /\ Has(f, "actor")
               /\ Cardinality(B) >= 1
               /\ \A x \in B : Has(x, "source_ip") => x.fields["source_ip"] # f.fields["source_ip"]
              THEN B \cup {f} ELSE {}
      BY ONLY <3>1, NewAddressResult
    <3>4. Matching(c) <=> p # q
      BY <1>13, <1>15, <2>2 DEF Matching
    <3>5. /\ f.type = "ssh_login" /\ Has(f, "source_ip") /\ Has(f, "actor")
          /\ Cardinality(B) >= 1
      BY <1>11, <1>16, <3>2
    <3>6. (\A x \in B : Has(x, "source_ip") => x.fields["source_ip"] # f.fields["source_ip"]) <=> p # q
      BY <1>16, <3>2
    <3>7. B \cup {f} = {e, f}
      BY <3>2
    <3> QED BY <3>3, <3>4, <3>5, <3>6, <3>7, Zenon
  <2> QED BY <2>1, <2>2
<1>23. ASSUME NEW t \in {e, f}
       PROVE  ResultOf(o, ShippedRules[9], t) = {} /\ ResultOf(o, ShippedRules[10], t) = {}
  <2>1. ResultOf(o, ShippedRules[9], t) = {}
    <3>1. PICK filters : filters = [actor |-> {RootActor}]
      OBVIOUS
    <3>2. ShippedRules[9] = Rule("ssh_root_login_success", <<"actor", "source_ip">>,
                                 Single("ssh_login", filters))
      BY <3>1, TheRules
    <3>3. a # RootActor
      BY <1>3, CaseFacts DEF SyntheticActor, RootActor
    <3>4. ~Matches(t, Single("ssh_login", filters))
      BY <1>16, <3>3, <3>1 DEF Matches, Single
    <3>5. PICK r : r = ShippedRules[9]
      OBVIOUS
    <3>6. PICK fields : fields = <<"actor", "source_ip">>
      OBVIOUS
    <3>7. r = Rule("ssh_root_login_success", fields, Single("ssh_login", filters))
      BY <3>2, <3>5, <3>6
    <3>8. ResultOf(o, r, t) =
            IF Matches(t, Single("ssh_login", filters)) /\ HasAll(t, fields) THEN {t} ELSE {}
      BY ONLY <3>7, SingleResult
    <3> QED BY <3>4, <3>8, <3>5, Zenon
  <2>2. ResultOf(o, ShippedRules[10], t) = {}
    <3>1. PICK D : D = Failures(o, t)
      OBVIOUS
    <3>2. D = {}
      BY <1>11, <1>12, <3>1 DEF Failures
    <3>3. Cardinality(D) < 3
      BY <3>2, FS_EmptySet
    <3>4. t \in Catalog[o] /\ t.at \in Int
      BY <1>9, <1>11, <1>12, <1>14
    <3> QED BY ONLY o \in Scenarios, <3>1, <3>3, <3>4, TooFewFailures
  <2> QED BY <2>1, <2>2
<1>24. \A r \in EnabledRules, t \in {e, f} :
         ResultOf(o, r, t) # {} => r = ShippedRules[7] /\ t = f /\ Matching(c)
  <2>1. \A r \in EnabledRules, t \in {e, f} : ResultOf(o, r, t) # {} => r = ShippedRules[7]
    BY <1>11, <1>23, Triggers
  <2> QED BY <1>21, <1>22, <2>1
<1>25. EvidenceCount[7] = 2 /\ ShippedRules[7].correlation = <<"actor", "source_ip">>
       /\ ShippedRules[7] \in EnabledRules
  BY EvidenceNumbers, TheRules, RulesEnabled DEF Rule
<1>26. BucketOf(o) = <<ShippedRules[7].rule_key, Group(f, ShippedRules[7].correlation)>>
  BY <1>8, <1>25 DEF BucketOf, LastEvent, RuleOf
<1>27. Matching(c) => Yields(o)
  BY <1>12, <1>22, <1>24, <1>25, <1>26 DEF Yields
<1>28. ~Matching(c) => Quiet(o)
  BY <1>12, <1>24 DEF Quiet
<1> QED BY <1>1, <1>12, <1>25, <1>27, <1>28 DEF Settled

\* A set of no more than n events is its own n latest.
LEMMA LatestAll ==
  ASSUME NEW D, IsFiniteSet(D), NEW n \in Nat, Cardinality(D) <= n,
         \A e \in D : e.at \in Int /\ e.id \in Int
  PROVE  Latest(D, n) = D
<1> SUFFICES ASSUME NEW e \in D
             PROVE  Cardinality({f \in D : ComesAfter(f, e)}) < n
  BY DEF Latest
<1>1. PICK A : A = {f \in D : ComesAfter(f, e)}
  OBVIOUS
<1>2. A \subseteq D \ {e}
  BY <1>1 DEF ComesAfter
<1>3. IsFiniteSet(D \ {e}) /\ Cardinality(D \ {e}) = Cardinality(D) - 1 /\ Cardinality(D) \in Nat
  BY FS_RemoveElement, FS_CardinalityType
<1>4. Cardinality(A) <= Cardinality(D \ {e}) /\ Cardinality(A) \in Nat
  BY <1>2, <1>3, FS_Subset, FS_CardinalityType
<1> QED BY <1>1, <1>3, <1>4

\* The n failures of a sequence scenario, and the login after them.
SequenceShape(o, c, n, offsets) ==
  /\ n = 2 <=> c = "boundary_below"
  /\ DOMAIN EventSpecs(o) = 1 .. n + 1
  /\ \A i \in 1 .. n :
       /\ offsets[i] \in Int /\ -900 <= offsets[i] /\ offsets[i] < 0
       /\ EventSpecs(o)[i] =
            EventSpec("ssh_failed", offsets[i],
                      [actor |-> SyntheticActor(o, IF c = "negative" THEN 7 ELSE 0),
                       source_ip |-> DocumentationIp(o, 0)])
  /\ EventSpecs(o)[n + 1] =
       EventSpec("ssh_login", 0, [actor |-> SyntheticActor(o, 0),
                                  source_ip |-> DocumentationIp(o, 0)])

\* The builder of rule 10 makes them.
LEMMA SequenceEvents ==
  ASSUME NEW o \in Scenarios, o \div 4 + 1 = 10, NEW c, c = CaseOf(o)
  PROVE  \E n \in {2, 3} : \E offsets : SequenceShape(o, c, n, offsets)
<1> DEFINE offsets == CASE c = "boundary_exact" -> <<-900, -2, -1>>
                        [] c = "boundary_below" -> <<-2, -1>>
                        [] OTHER -> <<-3, -2, -1>>
<1>1. PICK n \in {2, 3} : n = IF c = "boundary_below" THEN 2 ELSE 3
  OBVIOUS
<1>2. offsets \in Seq(Int) /\ Len(offsets) = n
      /\ \A i \in 1 .. n : offsets[i] \in Int /\ -900 <= offsets[i] /\ offsets[i] < 0
  <2>1. CASE c = "boundary_exact"
    <3>1. offsets = <<-900, -2, -1>> /\ n = 3
      BY <1>1, <2>1, SMT
    <3> QED BY <3>1
  <2>2. CASE c = "boundary_below"
    <3>1. offsets = <<-2, -1>> /\ n = 2
      BY <1>1, <2>2, SMT
    <3> QED BY <3>1
  <2>3. CASE c # "boundary_exact" /\ c # "boundary_below"
    <3>1. offsets = <<-3, -2, -1>> /\ n = 3
      BY <1>1, <2>3, SMT
    <3> QED BY <3>1
  <2> QED BY <2>1, <2>2, <2>3
<1> HIDE DEF offsets
<1>3. PICK fa : fa = SyntheticActor(o, IF c = "negative" THEN 7 ELSE 0)
  OBVIOUS
<1>4. PICK fails : fails = [i \in DOMAIN offsets |->
                              SshEvent("ssh_failed", offsets[i], fa, DocumentationIp(o, 0))]
  OBVIOUS
<1>5. PICK login : login = SshEvent("ssh_login", 0, SyntheticActor(o, 0), DocumentationIp(o, 0))
  OBVIOUS
<1>6. EventSpecs(o) = fails \o <<login>>
  <2>1. EventSpecs(o) = SequenceSpecs(c, o)
    BY SpecsOf
  <2> QED BY <1>3, <1>4, <1>5, <2>1, SMT DEF SequenceSpecs, offsets
<1>7. PICK X : X = {fails[i] : i \in DOMAIN offsets} \cup {login}
  OBVIOUS
<1>8. fails \in Seq(X) /\ Len(fails) = n /\ <<login>> \in Seq(X)
  BY <1>2, <1>4, <1>7
<1>9. /\ DOMAIN EventSpecs(o) = 1 .. n + 1
      /\ \A i \in 1 .. n : EventSpecs(o)[i] = fails[i]
      /\ EventSpecs(o)[n + 1] = login
  BY ONLY n \in {2, 3}, <1>6, <1>8
<1>10. \A i \in 1 .. n : fails[i] = SshEvent("ssh_failed", offsets[i], fa, DocumentationIp(o, 0))
  BY <1>2, <1>4
<1>11. \A i \in 1 .. n :
         EventSpecs(o)[i] = EventSpec("ssh_failed", offsets[i],
                                      [actor |-> fa, source_ip |-> DocumentationIp(o, 0)])
  BY <1>9, <1>10 DEF SshEvent
<1>12. EventSpecs(o)[n + 1] = EventSpec("ssh_login", 0, [actor |-> SyntheticActor(o, 0),
                                                          source_ip |-> DocumentationIp(o, 0)])
  BY <1>5, <1>9 DEF SshEvent
<1>13. n = 2 <=> c = "boundary_below"
  BY <1>1
<1>14. SequenceShape(o, c, n, offsets)
  BY <1>2, <1>3, <1>9, <1>11, <1>12, <1>13 DEF SequenceShape
<1> QED BY <1>14

\* Rule 10, ssh_success_after_failures: the login completes what the failures began;
\* the spray, bruteforce and first-seen rules read the same events.
LEMMA SequenceScenario ==
  ASSUME NEW o \in Scenarios, o \div 4 + 1 = 10
  PROVE  Settled(o)
<1>1. PICK c : c = CaseOf(o)
  OBVIOUS
<1>2. PICK n \in {2, 3} : \E offsets : SequenceShape(o, c, n, offsets)
  BY <1>1, SequenceEvents
<1>3. PICK offsets : SequenceShape(o, c, n, offsets)
  BY <1>2
<1>4. /\ n = 2 <=> c = "boundary_below"
      /\ DOMAIN EventSpecs(o) = 1 .. n + 1
      /\ \A i \in 1 .. n :
           /\ offsets[i] \in Int /\ -900 <= offsets[i] /\ offsets[i] < 0
           /\ EventSpecs(o)[i] =
                EventSpec("ssh_failed", offsets[i],
                          [actor |-> SyntheticActor(o, IF c = "negative" THEN 7 ELSE 0),
                           source_ip |-> DocumentationIp(o, 0)])
      /\ EventSpecs(o)[n + 1] =
           EventSpec("ssh_login", 0, [actor |-> SyntheticActor(o, 0),
                                      source_ip |-> DocumentationIp(o, 0)])
  BY <1>3, Zenon DEF SequenceShape
<1>5. PICK fa : fa = SyntheticActor(o, IF c = "negative" THEN 7 ELSE 0)
  OBVIOUS
<1>6. PICK a : a = SyntheticActor(o, 0)
  OBVIOUS
<1>7. PICK p : p = DocumentationIp(o, 0)
  OBVIOUS
<1>8. PICK z \in Int : z = ScenarioAnchor(o)
  BY CaseFacts DEF ScenarioAnchor
<1>9. PICK L : L = EventAt(o, n + 1)
  OBVIOUS
<1>10. PICK F : F = {EventAt(o, i) : i \in 1 .. n}
  OBVIOUS
<1>11. /\ L.type = "ssh_login" /\ L.at = z /\ L.fields = [actor |-> a, source_ip |-> p]
       /\ L.id = 100 * o + (n + 1)
  BY <1>4, <1>6, <1>7, <1>8, <1>9 DEF EventAt, EventSpec
<1>12. ASSUME NEW e \in F
       PROVE  /\ e.type = "ssh_failed" /\ e.fields = [actor |-> fa, source_ip |-> p]
              /\ e.at \in Int /\ z - 900 <= e.at /\ e.at < z
              /\ e.id \in Int
  <2>1. PICK i \in 1 .. n : e = EventAt(o, i)
    BY <1>10
  <2>2. e.type = "ssh_failed" /\ e.fields = [actor |-> fa, source_ip |-> p] /\ e.at = z + offsets[i]
    <3>1. EventSpecs(o)[i] = EventSpec("ssh_failed", offsets[i], [actor |-> fa, source_ip |-> p])
      BY <1>4, <1>5, <1>7
    <3> QED BY <1>8, <2>1, <3>1 DEF EventAt, EventSpec
  <2>3. e.id = 100 * o + i /\ o \in Nat
    BY <2>1, CaseFacts DEF EventAt
  <2>4. PICK x \in Int : x = offsets[i] /\ -900 <= x /\ x < 0
    BY <1>4
  <2>5. e.id \in Int
    BY <2>3
  <2>6. e.at = z + x
    BY <2>2, <2>4
  <2>7. e.at \in Int /\ z - 900 <= e.at /\ e.at < z
    BY ONLY z \in Int, x \in Int, <2>4, <2>6
  <2> QED BY <2>2, <2>5, <2>7
<1>13. Catalog[o] = F \cup {L} /\ Cardinality(Catalog[o]) = n + 1 /\ L \notin F
  <2>1. n + 1 \in Nat
    OBVIOUS
  <2>2. Catalog[o] = {EventAt(o, i) : i \in 1 .. n + 1} /\ Cardinality(Catalog[o]) = n + 1
    BY <1>4, <2>1, ManifestOf
  <2>3. 1 .. n + 1 = 1 .. n \cup {n + 1}
    OBVIOUS
  <2>4. {EventAt(o, i) : i \in 1 .. n + 1} = F \cup {L}
    BY <1>9, <1>10, <2>3
  <2>5. L \notin F
    BY <1>11, <1>12
  <2> QED BY <2>2, <2>4, <2>5
<1>14. IsFiniteSet(F) /\ Cardinality(F) = n
  <2>1. IsFiniteSet(Catalog[o])
    BY CatalogFinite
  <2>2. L \in Catalog[o] /\ F = Catalog[o] \ {L}
    BY <1>13
  <2>3. IsFiniteSet(Catalog[o] \ {L}) /\ Cardinality(Catalog[o] \ {L}) = Cardinality(Catalog[o]) - 1
    BY ONLY <2>1, <2>2, FS_RemoveElement
  <2>4. IsFiniteSet(F) /\ Cardinality(F) = Cardinality(Catalog[o]) - 1
    BY ONLY <2>2, <2>3
  <2> QED BY <1>13, <2>4
<1>15. /\ Has(L, "actor") /\ L.fields["actor"] = a /\ Has(L, "source_ip") /\ L.fields["source_ip"] = p
       /\ \A e \in F : /\ Has(e, "actor") /\ e.fields["actor"] = fa
                       /\ Has(e, "source_ip") /\ e.fields["source_ip"] = p
  BY <1>11, <1>12 DEF Has
<1>16. fa = a <=> c # "negative"
  BY <1>5, <1>6 DEF SyntheticActor
<1>17. Matching(c) <=> n = 3 /\ fa = a
  <2>1. c \in {"positive", "negative", "boundary_below", "boundary_exact"}
    BY <1>1, CaseNames
  <2> QED BY <1>4, <1>16, <2>1 DEF Matching
<1>18. Failures(o, L) = IF fa = a THEN F ELSE {}
  <2>1. \A e \in F : Within(e, L, 900) /\ e.at < L.at
    BY <1>8, <1>11, <1>12 DEF Within
  <2> QED BY <1>11, <1>12, <1>13, <1>15, <2>1 DEF Failures
<1>19. ResultOf(o, ShippedRules[10], L) = IF Matching(c) THEN F \cup {L} ELSE {}
  <2>1. PICK D : D = Failures(o, L)
    OBVIOUS
  <2>2. L \in Catalog[o] /\ L.at \in Int
    BY <1>8, <1>11, <1>13
  <2>3. CASE Matching(c)
    <3>1. D = F /\ Cardinality(F) = 3
      BY <1>14, <1>17, <1>18, <2>1, <2>3
    <3>2. Latest(F, 3) = F
      <4>1. PICK m \in Nat : m = 3
        OBVIOUS
      <4>2. IsFiniteSet(F) /\ Cardinality(F) <= m /\ \A e \in F : e.at \in Int /\ e.id \in Int
        BY <1>12, <1>14, <3>1, <4>1
      <4>3. Latest(F, m) = F
        BY ONLY m \in Nat, <4>2, LatestAll
      <4> QED BY <4>1, <4>3
    <3>3. ResultOf(o, ShippedRules[10], L) =
            IF /\ L.type = "ssh_login" /\ Has(L, "source_ip") /\ Has(L, "actor")
               /\ Cardinality(Latest(D, 3)) = 3
              THEN {L} \cup Latest(D, 3) ELSE {}
      BY ONLY o \in Scenarios, <2>1, <2>2, SequenceResult
    <3> QED BY <1>11, <1>15, <2>3, <3>1, <3>2, <3>3
  <2>4. CASE ~Matching(c)
    <3>1. Cardinality(D) < 3
      <4>1. CASE fa = a
        BY <1>14, <1>17, <1>18, <2>1, <2>4, <4>1
      <4>2. CASE fa # a
        BY <1>18, <2>1, <4>2, FS_EmptySet
      <4> QED BY <4>1, <4>2
    <3>2. ResultOf(o, ShippedRules[10], L) = {}
      BY ONLY o \in Scenarios, <2>1, <2>2, <3>1, TooFewFailures
    <3> QED BY <2>4, <3>2
  <2> QED BY <2>3, <2>4
<1>20. ResultOf(o, ShippedRules[7], L) = {}
  <2>1. Baseline(o, L) = {}
    BY <1>12, <1>13 DEF Baseline
  <2> QED BY <2>1, NoNewAddress
<1>21. ResultOf(o, ShippedRules[9], L) = {}
  <2>1. PICK filters : filters = [actor |-> {RootActor}]
    OBVIOUS
  <2>2. PICK fields : fields = <<"actor", "source_ip">>
    OBVIOUS
  <2>3. PICK r : r = ShippedRules[9]
    OBVIOUS
  <2>4. r = Rule("ssh_root_login_success", fields, Single("ssh_login", filters))
    BY <2>1, <2>2, <2>3, TheRules
  <2>5. a # RootActor
    BY <1>6, CaseFacts DEF SyntheticActor, RootActor
  <2>6. ~Matches(L, Single("ssh_login", filters))
    BY <1>15, <2>1, <2>5 DEF Matches, Single
  <2>7. ResultOf(o, r, L) =
          IF Matches(L, Single("ssh_login", filters)) /\ HasAll(L, fields) THEN {L} ELSE {}
    BY ONLY <2>4, SingleResult
  <2> QED BY <2>3, <2>6, <2>7, Zenon
<1>22. ASSUME NEW t \in F
       PROVE  ResultOf(o, ShippedRules[6], t) = {} /\ ResultOf(o, ShippedRules[8], t) = {}
  <2>1. t \in Catalog[o]
    BY <1>13
  <2>2. ResultOf(o, ShippedRules[6], t) = {}
    <3> SUFFICES ASSUME ResultOf(o, ShippedRules[6], t) # {} PROVE FALSE
      OBVIOUS
    <3>1. ShippedRules[6] = Rule("ssh_bruteforce_by_ip", <<"source_ip">>,
                                 CountOver("ssh_failed", 8, 300, <<"source_ip">>))
      BY TheRules
    <3>2. Cardinality(Catalog[o]) >= 8
      <4>1. 8 \in Nat /\ 8 > 1
        OBVIOUS
      <4> QED BY ONLY ResultOf(o, ShippedRules[6], t) # {}, <2>1, <3>1, <4>1, CountOutcome, o \in Scenarios
    <3> QED BY <1>13, <3>2
  <2>3. ResultOf(o, ShippedRules[8], t) = {}
    <3>1. PICK A : A = {fa, a}
      OBVIOUS
    <3>2. IsFiniteSet(A) /\ Cardinality(A) < 5
      <4>1. PICK B : B = {fa}
        OBVIOUS
      <4>2. IsFiniteSet(B) /\ Cardinality(B) = 1
        BY <4>1, FS_Singleton
      <4>3. A = B \cup {a}
        BY <3>1, <4>1
      <4>4. /\ IsFiniteSet(B \cup {a})
            /\ Cardinality(B \cup {a}) = IF a \in B THEN Cardinality(B) ELSE Cardinality(B) + 1
        BY ONLY <4>2, FS_AddElement
      <4>5. Cardinality(A) = 1 \/ Cardinality(A) = 2
        BY ONLY <4>2, <4>3, <4>4
      <4> QED BY ONLY <4>3, <4>4, <4>5
    <3>3. \A e \in Catalog[o] : e.fields["actor"] \in A
      BY <1>13, <1>15, <3>1
    <3>4. ResultOf(o, ShippedRules[8], t) # {} => Cardinality(A) >= 5
      BY <2>1, <3>2, <3>3, SprayOutcome
    <3>5. Cardinality(A) \in Nat
      BY <3>2, FS_CardinalityType
    <3> QED BY <3>2, <3>4, <3>5
  <2> QED BY <2>2, <2>3
<1>23. \A r \in EnabledRules, t \in Catalog[o] :
         ResultOf(o, r, t) # {} => r = ShippedRules[10] /\ t = L /\ Matching(c)
  <2> SUFFICES ASSUME NEW r \in EnabledRules, NEW t \in Catalog[o], ResultOf(o, r, t) # {}
               PROVE  r = ShippedRules[10] /\ t = L /\ Matching(c)
    OBVIOUS
  <2>1. CASE t \in F
    <3>1. t.type = "ssh_failed"
      BY <1>12, <2>1
    <3>2. r \in {ShippedRules[6], ShippedRules[8]}
      BY <3>1, Triggers
    <3> QED BY <1>22, <2>1, <3>2
  <2>2. CASE t = L
    <3>1. r \in {ShippedRules[7], ShippedRules[9], ShippedRules[10]}
      BY <1>11, <2>2, Triggers
    <3> QED BY <1>19, <1>20, <1>21, <2>2, <3>1
  <2> QED BY <1>13, <2>1, <2>2
<1>24. /\ EvidenceCount[10] = 4 /\ ShippedRules[10].correlation = <<"source_ip", "actor">>
       /\ ShippedRules[10] \in EnabledRules
  BY EvidenceNumbers, TheRules, RulesEnabled DEF Rule
<1>25. Matching(c) => BucketOf(o) = <<ShippedRules[10].rule_key, Group(L, ShippedRules[10].correlation)>>
  <2>1. Matching(c) => L = EventAt(o, 4)
    BY <1>9, <1>17
  <2> QED BY <1>24, <2>1 DEF BucketOf, LastEvent, RuleOf
<1>26. Matching(c) => Yields(o)
  BY <1>13, <1>19, <1>23, <1>24, <1>25 DEF Yields
<1>27. ~Matching(c) => Quiet(o)
  BY <1>23 DEF Quiet
<1>28. Cardinality(Catalog[o]) > 0 /\ (Matching(c) => Cardinality(Catalog[o]) = 4)
  BY <1>13, <1>17
<1> QED BY <1>1, <1>24, <1>26, <1>27, <1>28 DEF Settled

\* Alone in the database, every scenario yields what the catalog says of it.
LEMMA EveryScenario == \A o \in Scenarios : Settled(o)
<1> SUFFICES ASSUME NEW o \in Scenarios PROVE Settled(o)
  OBVIOUS
<1>1. PICK k \in 1 .. 13 : k = o \div 4 + 1
  BY CaseFacts
<1> QED BY <1>1, UnitStopped, CronChanged, ErrorSpike, FailedRequests, GroupChanged, Bruteforce,
           FirstSeenScenario, PasswordSpray, RootLogin, SequenceScenario, SudoFailed, FileChanged,
           UserCreated

-----------------------------------------------------------------------------
(* No two scenarios share an incident *)

\* The field by which the incidents of the two matching scenarios of a rule differ.
MarkField == <<"unit", "actor", "status", "source_ip", "actor", "source_ip", "actor", "source_ip",
               "source_ip", "source_ip", "actor", "path", "actor">>

\* The value by which they differ.
Mark(o) == LastEvent(o).fields[MarkField[o \div 4 + 1]]

\* The mark, read from the list of the builder.
LEMMA MarkOf ==
  ASSUME NEW o \in Scenarios, NEW k \in 1 .. 13, k = o \div 4 + 1
  PROVE  Mark(o) = EventSpecs(o)[EvidenceCount[k]].fields[MarkField[k]]
BY DEF Mark, LastEvent, EventAt

\* The marking field of each rule.
LEMMA MarkFields ==
  /\ MarkField[1] = "unit" /\ MarkField[2] = "actor" /\ MarkField[3] = "status"
  /\ MarkField[4] = "source_ip" /\ MarkField[5] = "actor" /\ MarkField[6] = "source_ip"
  /\ MarkField[7] = "actor" /\ MarkField[8] = "source_ip" /\ MarkField[9] = "source_ip"
  /\ MarkField[10] = "source_ip" /\ MarkField[11] = "actor" /\ MarkField[12] = "path"
  /\ MarkField[13] = "actor"
BY DEF MarkField

\* A matching scenario of a counting rule has as many events as the rule counts.
LEMMA LastOffset ==
  ASSUME NEW c, Matching(c), NEW n \in Nat, n > 1, NEW w \in Nat, w >= n
  PROVE  n \in DOMAIN CountedOffsets(c, n, w)
<1>1. c \in {"positive", "negative", "boundary_below", "boundary_exact"} /\ c # "boundary_below"
  BY DEF Matching
<1>2. DOMAIN CountedOffsets(c, n, w) = 1 .. Size(c, n)
  BY <1>1, OffsetsOf DEF InWindow
<1> QED BY <1>1, <1>2 DEF Size

\* The marks of the rules about single events.
LEMMA SingleMarks ==
  ASSUME NEW o \in Scenarios, NEW c, c = CaseOf(o), Matching(c), NEW m, m = Mark(o)
  PROVE  /\ o \div 4 + 1 = 1 => m = IF c = "positive" THEN "ssh.service" ELSE "auditd.service"
         /\ o \div 4 + 1 = 2 => m = SyntheticActor(o, 0)
         /\ o \div 4 + 1 = 5 => m = SyntheticActor(o, 0)
         /\ o \div 4 + 1 = 9 => m = DocumentationIp(o, 0)
         /\ o \div 4 + 1 = 12 => m = o
         /\ o \div 4 + 1 = 13 => m = IF c = "positive" THEN SyntheticActor(o, 0) ELSE <<-1, 2>>
<1>1. c = "positive" \/ c = "boundary_exact"
  BY DEF Matching
<1>2. ASSUME NEW k \in 1 .. 13, k = o \div 4 + 1, EvidenceCount[k] = 1, NEW f, MarkField[k] = f,
             NEW spec, EventSpecs(o) = <<spec>>
      PROVE  m = spec.fields[f]
  BY <1>2, MarkOf, OneOnly
<1>3. ASSUME o \div 4 + 1 = 1
      PROVE  m = IF c = "positive" THEN "ssh.service" ELSE "auditd.service"
  <2>1. PICK fields : fields = CASE c = "positive"       -> [unit |-> "ssh.service"]
                                 [] c = "negative"       -> [unit |-> "logrotate.service"]
                                 [] c = "boundary_below" -> NoFields
                                 [] c = "boundary_exact" -> [unit |-> "auditd.service"]
    OBVIOUS
  <2>2. EventSpecs(o) = <<EventSpec("unit_stopped", 0, fields)>>
    <3>1. EventSpecs(o) = UnitStoppedSpecs(c, o)
      BY <1>3, SpecsOf
    <3> QED BY <2>1, <3>1, Zenon DEF UnitStoppedSpecs
  <2>3. m = EventSpec("unit_stopped", 0, fields).fields["unit"]
    BY <1>2, <1>3, <2>2, EvidenceNumbers, MarkFields
  <2>4. m = fields["unit"]
    BY <2>3 DEF EventSpec
  <2>5. CASE c = "positive"
    BY <2>1, <2>4, <2>5, SMT
  <2>6. CASE c = "boundary_exact"
    BY <2>1, <2>4, <2>6, SMT
  <2> QED BY <1>1, <2>5, <2>6
<1>4. ASSUME o \div 4 + 1 = 2
      PROVE  m = SyntheticActor(o, 0)
  <2>1. PICK a : a = SyntheticActor(o, 0)
    OBVIOUS
  <2>2. PICK fields : fields = CASE c = "positive"       -> [actor |-> a, action |-> "replace"]
                                 [] c = "negative"       -> [actor |-> a, action |-> "list"]
                                 [] c = "boundary_below" -> [action |-> "replace"]
                                 [] c = "boundary_exact" -> [actor |-> a, action |-> "delete"]
    OBVIOUS
  <2>3. EventSpecs(o) = <<EventSpec("cron_changed", 0, fields)>>
    <3>1. EventSpecs(o) = CronJobSpecs(c, o)
      BY <1>4, SpecsOf
    <3> QED BY <2>1, <2>2, <3>1, Zenon DEF CronJobSpecs
  <2>4. m = EventSpec("cron_changed", 0, fields).fields["actor"]
    BY <1>2, <1>4, <2>3, EvidenceNumbers, MarkFields
  <2>5. m = fields["actor"]
    BY <2>4 DEF EventSpec
  <2>6. CASE c = "positive"
    BY <2>1, <2>2, <2>5, <2>6, SMT
  <2>7. CASE c = "boundary_exact"
    BY <2>1, <2>2, <2>5, <2>7, SMT
  <2> QED BY <1>1, <2>6, <2>7
<1>5. ASSUME o \div 4 + 1 = 5
      PROVE  m = SyntheticActor(o, 0)
  <2>1. PICK a : a = SyntheticActor(o, 0)
    OBVIOUS
  <2>2. PICK fields : fields =
          CASE c = "positive"       -> [actor |-> a, group |-> "sudo", action |-> "added"]
            [] c = "negative"       -> [actor |-> a, group |-> "users", action |-> "added"]
            [] c = "boundary_below" -> [actor |-> a, group |-> "sudo"]
            [] c = "boundary_exact" -> [actor |-> a, group |-> "wheel", action |-> "removed"]
    OBVIOUS
  <2>3. EventSpecs(o) = <<EventSpec("group_changed", 0, fields)>>
    <3>1. EventSpecs(o) = PrivilegedGroupSpecs(c, o)
      BY <1>5, SpecsOf
    <3> QED BY <2>1, <2>2, <3>1, Zenon DEF PrivilegedGroupSpecs
  <2>4. m = EventSpec("group_changed", 0, fields).fields["actor"]
    BY <1>2, <1>5, <2>3, EvidenceNumbers, MarkFields
  <2>5. m = fields["actor"]
    BY <2>4 DEF EventSpec
  <2>6. CASE c = "positive"
    BY <2>1, <2>2, <2>5, <2>6, SMT
  <2>7. CASE c = "boundary_exact"
    BY <2>1, <2>2, <2>5, <2>7, SMT
  <2> QED BY <1>1, <2>6, <2>7
<1>6. ASSUME o \div 4 + 1 = 9
      PROVE  m = DocumentationIp(o, 0)
  <2>1. PICK a : a = CASE Matching(c)    -> RootActor
                       [] c = "negative" -> SyntheticActor(o, 0)
                       [] OTHER          -> <<-1, 1>>
    OBVIOUS
  <2>2. EventSpecs(o) = <<EventSpec("ssh_login", 0, [actor |-> a, source_ip |-> DocumentationIp(o, 0)])>>
    <3>1. EventSpecs(o) = RootLoginSpecs(c, o)
      BY <1>6, SpecsOf
    <3> QED BY <2>1, <3>1, SMT DEF RootLoginSpecs, SshEvent
  <2>3. m = EventSpec("ssh_login", 0, [actor |-> a, source_ip |-> DocumentationIp(o, 0)]).fields["source_ip"]
    BY <1>2, <1>6, <2>2, EvidenceNumbers, MarkFields
  <2> QED BY <2>3 DEF EventSpec
<1>7. ASSUME o \div 4 + 1 = 12
      PROVE  m = o
  <2>1. EventSpecs(o) = <<EventSpec("file_changed", 0, [path |-> o])>>
    <3>1. EventSpecs(o) = FileChangedSpecs(c, o)
      BY <1>7, SpecsOf
    <3> QED BY <1>1, <3>1 DEF FileChangedSpecs
  <2>2. m = EventSpec("file_changed", 0, [path |-> o]).fields["path"]
    BY <1>2, <1>7, <2>1, EvidenceNumbers, MarkFields
  <2> QED BY <2>2 DEF EventSpec
<1>8. ASSUME o \div 4 + 1 = 13
      PROVE  m = IF c = "positive" THEN SyntheticActor(o, 0) ELSE <<-1, 2>>
  <2>1. PICK a : a = IF c = "boundary_exact" THEN <<-1, 2>> ELSE SyntheticActor(o, 0)
    OBVIOUS
  <2>2. PICK type : type = CASE Matching(c)    -> "user_created"
                             [] c = "negative" -> "user_deleted"
                             [] OTHER          -> "user_create"
    OBVIOUS
  <2>3. EventSpecs(o) = <<EventSpec(type, 0, By(a))>>
    <3>1. EventSpecs(o) = UserCreatedSpecs(c, o)
      BY <1>8, SpecsOf
    <3> QED BY <2>1, <2>2, <3>1, SMT DEF UserCreatedSpecs
  <2>4. m = EventSpec(type, 0, By(a)).fields["actor"]
    BY <1>2, <1>8, <2>3, EvidenceNumbers, MarkFields
  <2>5. m = a
    BY <2>4 DEF EventSpec, By
  <2> QED BY <1>1, <2>1, <2>5
<1> QED BY <1>3, <1>4, <1>5, <1>6, <1>7, <1>8

\* The marks of the rules about several events.
LEMMA SeveralMarks ==
  ASSUME NEW o \in Scenarios, NEW c, c = CaseOf(o), Matching(c), NEW m, m = Mark(o)
  PROVE  /\ o \div 4 + 1 = 3 => m = IF c = "positive" THEN 404 ELSE 500
         /\ o \div 4 + 1 = 4 => m = DocumentationIp(o, 0)
         /\ o \div 4 + 1 = 6 => m = DocumentationIp(o, 0)
         /\ o \div 4 + 1 = 7 => m = SyntheticActor(o, 0)
         /\ o \div 4 + 1 = 8 => m = DocumentationIp(o, 0)
         /\ o \div 4 + 1 = 10 => m = DocumentationIp(o, 0)
         /\ o \div 4 + 1 = 11 => m = SyntheticActor(o, 0)
<1>1. c = "positive" \/ c = "boundary_exact"
  BY DEF Matching
<1>2. ASSUME NEW k \in 1 .. 13, k = o \div 4 + 1, NEW n, EvidenceCount[k] = n, NEW f, MarkField[k] = f
      PROVE  m = EventSpecs(o)[n].fields[f]
  BY <1>2, MarkOf
<1>3. ASSUME NEW n \in Nat, n > 1, NEW w \in Nat, w >= n
      PROVE  n \in DOMAIN CountedOffsets(c, n, w)
  BY <1>3, LastOffset
<1>4. ASSUME o \div 4 + 1 = 3
      PROVE  m = IF c = "positive" THEN 404 ELSE 500
  <2>1. m = EventSpecs(o)[15].fields["status"]
    BY <1>2, <1>4, EvidenceNumbers, MarkFields
  <2>2. PICK offsets : offsets = CountedOffsets(c, 15, 120)
    OBVIOUS
  <2>3. 15 \in DOMAIN offsets
    BY <1>3, <2>2
  <2>4. EventSpecs(o) = [i \in DOMAIN offsets |->
          RequestSpec(offsets[i], IF c = "negative" THEN NegativeStatuses[i] ELSE SpikeStatus(c),
                      DocumentationIp(o, i - 1))]
    <3>1. EventSpecs(o) = ErrorSpikeSpecs(c, o)
      BY <1>4, SpecsOf
    <3> QED BY <2>2, <3>1 DEF ErrorSpikeSpecs
  <2>5. EventSpecs(o)[15] = RequestSpec(offsets[15], SpikeStatus(c), DocumentationIp(o, 14))
    BY <1>1, <2>3, <2>4
  <2>6. m = SpikeStatus(c)
    BY <2>1, <2>5 DEF RequestSpec, EventSpec
  <2> QED BY <1>1, <2>6 DEF SpikeStatus
<1>5. ASSUME o \div 4 + 1 = 4
      PROVE  m = DocumentationIp(o, 0)
  <2>1. m = EventSpecs(o)[12].fields["source_ip"]
    BY <1>2, <1>5, EvidenceNumbers, MarkFields
  <2>2. PICK offsets : offsets = CountedOffsets(c, 12, 300)
    OBVIOUS
  <2>3. 12 \in DOMAIN offsets
    BY <1>3, <2>2
  <2>4. EventSpecs(o) = [i \in DOMAIN offsets |->
          RequestSpec(offsets[i], 403, DocumentationIp(o, IF c = "negative" THEN i - 1 ELSE 0))]
    <3>1. EventSpecs(o) = FailedRequestsSpecs(c, o)
      BY <1>5, SpecsOf
    <3> QED BY <2>2, <3>1 DEF FailedRequestsSpecs
  <2>5. EventSpecs(o)[12] = RequestSpec(offsets[12], 403, DocumentationIp(o, 0))
    BY <1>1, <2>3, <2>4
  <2> QED BY <2>1, <2>5 DEF RequestSpec, EventSpec
<1>6. ASSUME o \div 4 + 1 = 6
      PROVE  m = DocumentationIp(o, 0)
  <2>1. m = EventSpecs(o)[8].fields["source_ip"]
    BY <1>2, <1>6, EvidenceNumbers, MarkFields
  <2>2. PICK offsets : offsets = CountedOffsets(c, 8, 300)
    OBVIOUS
  <2>3. 8 \in DOMAIN offsets
    BY <1>3, <2>2
  <2>4. EventSpecs(o) = [i \in DOMAIN offsets |->
          SshEvent("ssh_failed", offsets[i], SyntheticActor(o, 0),
                   DocumentationIp(o, IF c = "negative" THEN i - 1 ELSE 0))]
    <3>1. EventSpecs(o) = BruteforceSpecs(c, o)
      BY <1>6, SpecsOf
    <3> QED BY <2>2, <3>1, Zenon DEF BruteforceSpecs
  <2>5. EventSpecs(o)[8] = SshEvent("ssh_failed", offsets[8], SyntheticActor(o, 0), DocumentationIp(o, 0))
    BY <1>1, <2>3, <2>4
  <2> QED BY <2>1, <2>5 DEF SshEvent, EventSpec
<1>7. ASSUME o \div 4 + 1 = 7
      PROVE  m = SyntheticActor(o, 0)
  <2>1. m = EventSpecs(o)[2].fields["actor"]
    BY <1>2, <1>7, EvidenceNumbers, MarkFields
  <2>2. PICK b : b = CASE c = "boundary_below" -> -2592001
                       [] c = "boundary_exact" -> -2592000
                       [] OTHER -> -60
    OBVIOUS
  <2>3. PICK q : q = DocumentationIp(o, IF c = "negative" THEN 0 ELSE 1)
    OBVIOUS
  <2>4. PICK first : first = SshEvent("ssh_login", b, SyntheticActor(o, 0), DocumentationIp(o, 0))
    OBVIOUS
  <2>5. EventSpecs(o) = <<first, SshEvent("ssh_login", 0, SyntheticActor(o, 0), q)>>
    <3>1. EventSpecs(o) = FirstSeenSpecs(c, o)
      BY <1>7, SpecsOf
    <3> QED BY <2>2, <2>3, <2>4, <3>1, SMT DEF FirstSeenSpecs
  <2> QED BY <2>1, <2>5 DEF SshEvent, EventSpec
<1>8. ASSUME o \div 4 + 1 = 8
      PROVE  m = DocumentationIp(o, 0)
  <2>1. m = EventSpecs(o)[5].fields["source_ip"]
    BY <1>2, <1>8, EvidenceNumbers, MarkFields
  <2>2. PICK offsets : offsets = IF c = "boundary_exact" THEN <<-600>> \o UpToZero(4) ELSE UpToZero(5)
    OBVIOUS
  <2>3. EventSpecs(o) = [i \in 1 .. 5 |->
           SshEvent("ssh_failed", offsets[i],
                    SyntheticActor(o, IF c = "boundary_below" /\ i = 5 THEN 3 ELSE i - 1),
                    DocumentationIp(o, IF c = "negative" THEN i - 1 ELSE 0))]
    <3>1. EventSpecs(o) = PasswordSpraySpecs(c, o)
      BY <1>8, SpecsOf
    <3> QED BY <2>2, <3>1, Zenon DEF PasswordSpraySpecs
  <2>4. EventSpecs(o)[5] = SshEvent("ssh_failed", offsets[5], SyntheticActor(o, 4), DocumentationIp(o, 0))
    BY <1>1, <2>3
  <2> QED BY <2>1, <2>4 DEF SshEvent, EventSpec
<1>9. ASSUME o \div 4 + 1 = 10
      PROVE  m = DocumentationIp(o, 0)
  <2>1. m = EventSpecs(o)[4].fields["source_ip"]
    BY <1>2, <1>9, EvidenceNumbers, MarkFields
  <2>2. PICK n \in {2, 3} : \E offsets : SequenceShape(o, c, n, offsets)
    BY <1>9, SequenceEvents
  <2>3. PICK offsets : SequenceShape(o, c, n, offsets)
    BY <2>2
  <2>4. n = 3 /\ EventSpecs(o)[n + 1].fields = [actor |-> SyntheticActor(o, 0),
                                                source_ip |-> DocumentationIp(o, 0)]
    BY <1>1, <2>3 DEF SequenceShape, EventSpec
  <2> QED BY <2>1, <2>4
<1>10. ASSUME o \div 4 + 1 = 11
       PROVE  m = SyntheticActor(o, 0)
  <2>1. m = EventSpecs(o)[5].fields["actor"]
    BY <1>2, <1>10, EvidenceNumbers, MarkFields
  <2>2. PICK offsets : offsets = CountedOffsets(c, 5, 600)
    OBVIOUS
  <2>3. 5 \in DOMAIN offsets
    BY <1>3, <2>2
  <2>4. EventSpecs(o) = [i \in DOMAIN offsets |->
          EventSpec("sudo_failed", offsets[i],
                    By(SyntheticActor(o, IF c = "negative" THEN i - 1 ELSE 0)))]
    <3>1. EventSpecs(o) = SudoSpecs(c, o)
      BY <1>10, SpecsOf
    <3> QED BY <2>2, <3>1 DEF SudoSpecs
  <2>5. EventSpecs(o)[5] = EventSpec("sudo_failed", offsets[5], By(SyntheticActor(o, 0)))
    BY <1>1, <2>3, <2>4
  <2> QED BY <2>1, <2>5 DEF By, EventSpec
<1> QED BY <1>4, <1>5, <1>6, <1>7, <1>8, <1>9, <1>10

\* Addresses of different scenarios differ.
LEMMA AddressesDiffer ==
  ASSUME NEW o \in Scenarios, NEW p \in Scenarios, DocumentationIp(o, 0) = DocumentationIp(p, 0)
  PROVE  o = p
<1>1. o \in 0 .. 51 /\ p \in 0 .. 51
  BY CaseFacts
<1>2. PICK x, y : x = 10 * o /\ y = 10 * p
  OBVIOUS
<1>3. x \in 0 .. 510 /\ y \in 0 .. 510
  BY <1>1, <1>2
<1>4. DocumentationIp(o, 0) = ((x \div 254) % 3) * 256 + (x % 254) + 1
  BY <1>1, <1>2 DEF DocumentationIp
<1>5. DocumentationIp(p, 0) = ((y \div 254) % 3) * 256 + (y % 254) + 1
  BY <1>1, <1>2 DEF DocumentationIp
<1>6. x = y
  BY <1>4, <1>5, <1>3
<1> QED BY <1>1, <1>2, <1>6

\* The incidents of two matching scenarios are two, also when both scenarios
\* are of one rule.
LEMMA BucketsDiffer ==
  ASSUME NEW o \in Scenarios, NEW p \in Scenarios, Matching(CaseOf(o)), Matching(CaseOf(p)),
         BucketOf(o) = BucketOf(p)
  PROVE  o = p
<1>1. PICK k \in 1 .. 13 : k = o \div 4 + 1
  BY CaseFacts
<1>2. PICK l \in 1 .. 13 : l = p \div 4 + 1
  BY CaseFacts
<1>3. ShippedRules[k].rule_key = ShippedRules[l].rule_key
      /\ Group(LastEvent(o), ShippedRules[k].correlation) = Group(LastEvent(p), ShippedRules[l].correlation)
  BY <1>1, <1>2 DEF BucketOf, RuleOf
<1>4. k = l
  BY <1>3, TheRules DEF Rule
<1>5. \E i \in DOMAIN ShippedRules[k].correlation : ShippedRules[k].correlation[i] = MarkField[k]
  <2>1. CASE k \in {9, 10}
    <3>1. ShippedRules[9].correlation = <<"actor", "source_ip">>
          /\ ShippedRules[10].correlation = <<"source_ip", "actor">>
      BY TheRules DEF Rule
    <3> QED BY <2>1, <3>1, MarkFields
  <2>2. CASE k \notin {9, 10}
    <3>1. 1 \in DOMAIN ShippedRules[k].correlation /\ ShippedRules[k].correlation[1] = MarkField[k]
      BY <2>2, TheRules, MarkFields DEF Rule
    <3> QED BY <3>1
  <2> QED BY <2>1, <2>2
<1>6. Mark(o) = Mark(p)
  BY <1>1, <1>2, <1>3, <1>4, <1>5 DEF Group, Mark
<1>7. /\ (CaseOf(o) = "positive" /\ o % 4 = 0) \/ (CaseOf(o) = "boundary_exact" /\ o % 4 = 3)
      /\ (CaseOf(p) = "positive" /\ p % 4 = 0) \/ (CaseOf(p) = "boundary_exact" /\ p % 4 = 3)
  <2>1. ASSUME NEW x \in Scenarios, Matching(CaseOf(x))
        PROVE  (CaseOf(x) = "positive" /\ x % 4 = 0) \/ (CaseOf(x) = "boundary_exact" /\ x % 4 = 3)
    <3>1. /\ CaseOf(x) = IF x % 4 = 0 THEN "positive" ELSE
                         IF x % 4 = 1 THEN "negative" ELSE
                         IF x % 4 = 2 THEN "boundary_below" ELSE "boundary_exact"
          /\ x \in Nat
      BY CaseFacts
    <3>2. x % 4 \in {0, 1, 2, 3}
      BY <3>1
    <3> QED BY <2>1, <3>1, <3>2 DEF Matching
  <2> QED BY <2>1
<1>8. o \in Nat /\ p \in Nat /\ o \div 4 = p \div 4
  BY <1>1, <1>2, <1>4, CaseFacts
<1>9. CaseOf(o) = CaseOf(p)
  <2>1. CASE k \in {2, 5, 7, 11}
    <3>1. SyntheticActor(o, 0) = SyntheticActor(p, 0)
      BY <1>1, <1>2, <1>4, <1>6, <2>1, SingleMarks, SeveralMarks
    <3> QED BY <3>1 DEF SyntheticActor
  <2>2. CASE k \in {4, 6, 8, 9, 10}
    <3>1. DocumentationIp(o, 0) = DocumentationIp(p, 0)
      BY <1>1, <1>2, <1>4, <1>6, <2>2, SingleMarks, SeveralMarks
    <3> QED BY <3>1, AddressesDiffer
  <2>3. CASE k = 1
    BY <1>1, <1>2, <1>4, <1>6, <1>7, <2>3, SingleMarks
  <2>4. CASE k = 3
    BY <1>1, <1>2, <1>4, <1>6, <1>7, <2>4, SeveralMarks
  <2>5. CASE k = 12
    BY <1>1, <1>2, <1>4, <1>6, <2>5, SingleMarks
  <2>6. CASE k = 13
    <3>1. o # -1 /\ p # -1
      BY CaseFacts
    <3>2. SyntheticActor(o, 0) # <<-1, 2>> /\ SyntheticActor(p, 0) # <<-1, 2>>
      BY <3>1 DEF SyntheticActor
    <3> QED BY <1>1, <1>2, <1>4, <1>6, <1>7, <2>6, <3>2, SingleMarks
  <2> QED BY <2>1, <2>2, <2>3, <2>4, <2>5, <2>6
<1>10. o % 4 = p % 4
  BY <1>7, <1>9
<1> QED BY <1>8, <1>10

-----------------------------------------------------------------------------
(* No rule sees the events of two scenarios *)

\* The events of a scenario lie within thirty days and a second of its anchor.
Timely(o) ==
  \A i \in DOMAIN EventSpecs(o) :
    /\ i \in 1 .. 15
    /\ EventSpecs(o)[i].offset \in Int
    /\ -2592001 <= EventSpecs(o)[i].offset /\ EventSpecs(o)[i].offset <= 0

\* A scenario of one event is timely.
LEMMA OneTimely ==
  ASSUME NEW o, NEW spec, EventSpecs(o) = <<spec>>, spec.offset = 0
  PROVE  Timely(o)
<1>1. DOMAIN EventSpecs(o) = 1 .. 1 /\ EventSpecs(o)[1] = spec
  BY OneOnly
<1> QED BY <1>1, SMT DEF Timely

\* So is one of a counting rule.
LEMMA CountedTimely ==
  ASSUME NEW o \in Scenarios, NEW n \in Nat, n > 1, n <= 15, NEW w \in Nat, w >= n, w <= 600,
         DOMAIN EventSpecs(o) = DOMAIN CountedOffsets(CaseOf(o), n, w),
         \A i \in DOMAIN EventSpecs(o) :
           EventSpecs(o)[i].offset = CountedOffsets(CaseOf(o), n, w)[i]
  PROVE  Timely(o)
<1>1. PICK c : c = CaseOf(o)
  OBVIOUS
<1>2. PICK offsets : offsets = CountedOffsets(c, n, w)
  OBVIOUS
<1>3. PICK m : m = Size(c, n)
  OBVIOUS
<1>4. /\ DOMAIN offsets = 1 .. m /\ m \in Nat
      /\ \A i \in 1 .. m : offsets[i] \in Int /\ -w <= offsets[i] /\ offsets[i] <= 0
  <2>1. /\ c \in {"positive", "negative", "boundary_below", "boundary_exact"}
        /\ n \in Nat /\ n > 1 /\ w \in Nat /\ w >= n
    BY <1>1, CaseNames
  <2>2. InWindow(CountedOffsets(c, n, w), Size(c, n), w)
    BY ONLY <2>1, OffsetsOf
  <2> QED BY <1>2, <1>3, <2>2 DEF InWindow
<1>5. m <= 15
  BY <1>3 DEF Size
<1>6. /\ DOMAIN EventSpecs(o) = 1 .. m
      /\ \A i \in 1 .. m : EventSpecs(o)[i].offset = offsets[i]
  BY <1>1, <1>2, <1>4
<1>7. ASSUME NEW i \in 1 .. m
      PROVE  /\ i \in 1 .. 15 /\ offsets[i] \in Int
             /\ -2592001 <= offsets[i] /\ offsets[i] <= 0
  BY <1>4, <1>5, SMT
<1> QED BY <1>6, <1>7, SMT DEF Timely

\* The rules about single events.
LEMMA SinglesTimely ==
  ASSUME NEW o \in Scenarios, o \div 4 + 1 \in {1, 2, 5, 9, 12, 13}
  PROVE  Timely(o)
<1>1. PICK c : c = CaseOf(o)
  OBVIOUS
<1>2. CASE o \div 4 + 1 = 1
  <2>1. EventSpecs(o) = UnitStoppedSpecs(c, o)
    BY <1>1, <1>2, SpecsOf
  <2>2. PICK fields : EventSpecs(o) = <<EventSpec("unit_stopped", 0, fields)>>
    BY <2>1, SMT DEF UnitStoppedSpecs
  <2>3. EventSpec("unit_stopped", 0, fields).offset = 0
    BY DEF EventSpec
  <2> QED BY <2>2, <2>3, OneTimely
<1>3. CASE o \div 4 + 1 = 2
  <2>1. EventSpecs(o) = CronJobSpecs(c, o)
    BY <1>1, <1>3, SpecsOf
  <2>2. PICK fields : EventSpecs(o) = <<EventSpec("cron_changed", 0, fields)>>
    BY <2>1, SMT DEF CronJobSpecs
  <2>3. EventSpec("cron_changed", 0, fields).offset = 0
    BY DEF EventSpec
  <2> QED BY <2>2, <2>3, OneTimely
<1>4. CASE o \div 4 + 1 = 5
  <2>1. EventSpecs(o) = PrivilegedGroupSpecs(c, o)
    BY <1>1, <1>4, SpecsOf
  <2>2. PICK fields : EventSpecs(o) = <<EventSpec("group_changed", 0, fields)>>
    BY <2>1, SMT DEF PrivilegedGroupSpecs
  <2>3. EventSpec("group_changed", 0, fields).offset = 0
    BY DEF EventSpec
  <2> QED BY <2>2, <2>3, OneTimely
<1>5. CASE o \div 4 + 1 = 9
  <2>1. EventSpecs(o) = RootLoginSpecs(c, o)
    BY <1>1, <1>5, SpecsOf
  <2>2. PICK actor, ip : EventSpecs(o) = <<SshEvent("ssh_login", 0, actor, ip)>>
    BY <2>1, SMT DEF RootLoginSpecs
  <2>3. SshEvent("ssh_login", 0, actor, ip).offset = 0
    BY DEF SshEvent, EventSpec
  <2> QED BY <2>2, <2>3, OneTimely
<1>6. CASE o \div 4 + 1 = 12
  <2>1. EventSpecs(o) = FileChangedSpecs(c, o)
    BY <1>1, <1>6, SpecsOf
  <2>2. PICK type, fields : EventSpecs(o) = <<EventSpec(type, 0, fields)>>
    BY <2>1, SMT DEF FileChangedSpecs
  <2>3. EventSpec(type, 0, fields).offset = 0
    BY DEF EventSpec
  <2> QED BY <2>2, <2>3, OneTimely
<1>7. CASE o \div 4 + 1 = 13
  <2>1. EventSpecs(o) = UserCreatedSpecs(c, o)
    BY <1>1, <1>7, SpecsOf
  <2>2. PICK type, fields : EventSpecs(o) = <<EventSpec(type, 0, fields)>>
    BY <2>1, SMT DEF UserCreatedSpecs
  <2>3. EventSpec(type, 0, fields).offset = 0
    BY DEF EventSpec
  <2> QED BY <2>2, <2>3, OneTimely
<1> QED BY <1>2, <1>3, <1>4, <1>5, <1>6, <1>7

\* The rules about several events.
LEMMA SeveralTimely ==
  ASSUME NEW o \in Scenarios, o \div 4 + 1 \in {3, 4, 6, 7, 8, 10, 11}
  PROVE  Timely(o)
<1>1. PICK c : c = CaseOf(o)
  OBVIOUS
<1>2. ASSUME NEW n \in Nat, n > 1, n <= 15, NEW w \in Nat, w >= n, w <= 600,
             NEW specs, EventSpecs(o) = specs, DOMAIN specs = DOMAIN CountedOffsets(c, n, w),
             \A i \in DOMAIN specs : specs[i].offset = CountedOffsets(c, n, w)[i]
      PROVE  Timely(o)
  BY <1>1, <1>2, CountedTimely
<1>3. CASE o \div 4 + 1 = 3
  <2>1. EventSpecs(o) = ErrorSpikeSpecs(c, o)
    BY <1>1, <1>3, SpecsOf
  <2>2. /\ DOMAIN ErrorSpikeSpecs(c, o) = DOMAIN CountedOffsets(c, 15, 120)
        /\ \A i \in DOMAIN ErrorSpikeSpecs(c, o) :
             ErrorSpikeSpecs(c, o)[i].offset = CountedOffsets(c, 15, 120)[i]
    BY DEF ErrorSpikeSpecs, RequestSpec, EventSpec
  <2> QED BY <1>2, <2>1, <2>2
<1>4. CASE o \div 4 + 1 = 4
  <2>1. EventSpecs(o) = FailedRequestsSpecs(c, o)
    BY <1>1, <1>4, SpecsOf
  <2>2. /\ DOMAIN FailedRequestsSpecs(c, o) = DOMAIN CountedOffsets(c, 12, 300)
        /\ \A i \in DOMAIN FailedRequestsSpecs(c, o) :
             FailedRequestsSpecs(c, o)[i].offset = CountedOffsets(c, 12, 300)[i]
    BY DEF FailedRequestsSpecs, RequestSpec, EventSpec
  <2> QED BY <1>2, <2>1, <2>2
<1>5. CASE o \div 4 + 1 = 6
  <2>1. EventSpecs(o) = BruteforceSpecs(c, o)
    BY <1>1, <1>5, SpecsOf
  <2>2. /\ DOMAIN BruteforceSpecs(c, o) = DOMAIN CountedOffsets(c, 8, 300)
        /\ \A i \in DOMAIN BruteforceSpecs(c, o) :
             BruteforceSpecs(c, o)[i].offset = CountedOffsets(c, 8, 300)[i]
    BY DEF BruteforceSpecs, SshEvent, EventSpec
  <2> QED BY <1>2, <2>1, <2>2
<1>6. CASE o \div 4 + 1 = 11
  <2>1. EventSpecs(o) = SudoSpecs(c, o)
    BY <1>1, <1>6, SpecsOf
  <2>2. /\ DOMAIN SudoSpecs(c, o) = DOMAIN CountedOffsets(c, 5, 600)
        /\ \A i \in DOMAIN SudoSpecs(c, o) :
             SudoSpecs(c, o)[i].offset = CountedOffsets(c, 5, 600)[i]
    BY DEF SudoSpecs, EventSpec
  <2> QED BY <1>2, <2>1, <2>2
<1>7. CASE o \div 4 + 1 = 7
  <2>1. EventSpecs(o) = FirstSeenSpecs(c, o)
    BY <1>1, <1>7, SpecsOf
  <2>2. PICK b : b = CASE c = "boundary_below" -> -2592001
                       [] c = "boundary_exact" -> -2592000
                       [] OTHER -> -60
    OBVIOUS
  <2>3. b \in Int /\ -2592001 <= b /\ b <= 0
    <3>1. CASE c = "boundary_below"
      BY <2>2, <3>1, SMT
    <3>2. CASE c = "boundary_exact"
      BY <2>2, <3>2, SMT
    <3>3. CASE c # "boundary_below" /\ c # "boundary_exact"
      <4>1. b = -60
        BY <2>2, <3>3, SMT
      <4> QED BY <4>1
    <3> QED BY <3>1, <3>2, <3>3
  <2>4. PICK a, p, q : EventSpecs(o) = <<SshEvent("ssh_login", b, a, p), SshEvent("ssh_login", 0, a, q)>>
    BY <2>1, <2>2, SMT DEF FirstSeenSpecs
  <2>5. SshEvent("ssh_login", b, a, p).offset = b /\ SshEvent("ssh_login", 0, a, q).offset = 0
    BY DEF SshEvent, EventSpec
  <2>6. DOMAIN EventSpecs(o) = 1 .. 2 /\ EventSpecs(o)[1].offset = b /\ EventSpecs(o)[2].offset = 0
    BY <2>4, <2>5
  <2> QED BY <2>3, <2>6, SMT DEF Timely
<1>8. CASE o \div 4 + 1 = 8
  <2>1. PICK offsets : offsets = IF c = "boundary_exact" THEN <<-600>> \o UpToZero(4) ELSE UpToZero(5)
    OBVIOUS
  <2>2. EventSpecs(o) = PasswordSpraySpecs(c, o)
    BY <1>1, <1>8, SpecsOf
  <2>3. EventSpecs(o) = [i \in 1 .. 5 |->
           SshEvent("ssh_failed", offsets[i],
                    SyntheticActor(o, IF c = "boundary_below" /\ i = 5 THEN 3 ELSE i - 1),
                    DocumentationIp(o, IF c = "negative" THEN i - 1 ELSE 0))]
    BY <2>1, <2>2, Zenon DEF PasswordSpraySpecs
  <2>4. DOMAIN EventSpecs(o) = 1 .. 5 /\ \A i \in 1 .. 5 : EventSpecs(o)[i].offset = offsets[i]
    BY <2>3 DEF SshEvent, EventSpec
  <2>5. \A i \in 1 .. 5 : offsets[i] \in Int /\ -600 <= offsets[i] /\ offsets[i] <= 0
    <3>1. offsets = SprayTimes(c)
      BY <2>1 DEF SprayTimes
    <3> QED BY <3>1, SprayOffsets
  <2> QED BY <2>4, <2>5, SMT DEF Timely
<1>9. CASE o \div 4 + 1 = 10
  <2>1. PICK n \in {2, 3} : \E offsets : SequenceShape(o, c, n, offsets)
    BY <1>1, <1>9, SequenceEvents
  <2>2. PICK offsets : SequenceShape(o, c, n, offsets)
    BY <2>1
  <2>3. /\ DOMAIN EventSpecs(o) = 1 .. n + 1
        /\ \A i \in 1 .. n :
             /\ offsets[i] \in Int /\ -900 <= offsets[i] /\ offsets[i] < 0
             /\ EventSpecs(o)[i] =
                  EventSpec("ssh_failed", offsets[i],
                            [actor |-> SyntheticActor(o, IF c = "negative" THEN 7 ELSE 0),
                             source_ip |-> DocumentationIp(o, 0)])
        /\ EventSpecs(o)[n + 1] =
             EventSpec("ssh_login", 0, [actor |-> SyntheticActor(o, 0),
                                        source_ip |-> DocumentationIp(o, 0)])
    BY <2>2, Zenon DEF SequenceShape
  <2>4. /\ \A i \in 1 .. n : EventSpecs(o)[i].offset = offsets[i]
        /\ EventSpecs(o)[n + 1].offset = 0
    <3>1. PICK fields : fields = [actor |-> SyntheticActor(o, IF c = "negative" THEN 7 ELSE 0),
                                  source_ip |-> DocumentationIp(o, 0)]
      OBVIOUS
    <3>2. PICK last : last = [actor |-> SyntheticActor(o, 0), source_ip |-> DocumentationIp(o, 0)]
      OBVIOUS
    <3>3. /\ \A i \in 1 .. n : EventSpecs(o)[i] = EventSpec("ssh_failed", offsets[i], fields)
          /\ EventSpecs(o)[n + 1] = EventSpec("ssh_login", 0, last)
      BY <2>3, <3>1, <3>2
    <3>4. ASSUME NEW i \in 1 .. n PROVE EventSpecs(o)[i].offset = offsets[i]
      <4>1. EventSpecs(o)[i] = EventSpec("ssh_failed", offsets[i], fields)
        BY <3>3, Zenon
      <4> QED BY ONLY <4>1 DEF EventSpec
    <3>5. EventSpecs(o)[n + 1].offset = 0
      <4>1. EventSpecs(o)[n + 1] = EventSpec("ssh_login", 0, last)
        BY <3>3, Zenon
      <4> QED BY ONLY <4>1 DEF EventSpec
    <3> QED BY <3>4, <3>5
  <2>5. \A i \in 1 .. n : offsets[i] \in Int /\ -900 <= offsets[i] /\ offsets[i] < 0
    BY <2>3
  <2>6. \A i \in 1 .. n + 1 : i \in 1 .. 15 /\ (i \in 1 .. n \/ i = n + 1)
    OBVIOUS
  <2>7. DOMAIN EventSpecs(o) = 1 .. n + 1
    BY <2>3
  <2> QED BY ONLY n \in {2, 3}, <2>4, <2>5, <2>6, <2>7 DEF Timely
<1> QED BY <1>3, <1>4, <1>5, <1>6, <1>7, <1>8, <1>9

\* When the events of a scenario happen, and their ids.
LEMMA EventTimes ==
  ASSUME NEW o \in Scenarios, NEW t \in Catalog[o]
  PROVE  /\ t.at \in Int /\ t.id \in Int
         /\ ScenarioAnchor(o) - 2592001 <= t.at /\ t.at <= ScenarioAnchor(o)
         /\ 100 * o < t.id /\ t.id < 100 * o + 100
<1>1. PICK k \in 1 .. 13 : k = o \div 4 + 1
  BY CaseFacts
<1>2. Timely(o)
  BY <1>1, SinglesTimely, SeveralTimely
<1>3. PICK i \in DOMAIN EventSpecs(o) : t = EventAt(o, i)
  BY DEF Catalog, Manifest, EventAt
<1>4. t.id = 100 * o + i /\ t.at = ScenarioAnchor(o) + EventSpecs(o)[i].offset
  BY <1>3 DEF EventAt
<1>5. o \in Nat /\ ScenarioAnchor(o) \in Int
  BY CaseFacts DEF ScenarioAnchor
<1>6. PICK d : d = EventSpecs(o)[i].offset
  OBVIOUS
<1>7. i \in 1 .. 15 /\ d \in Int /\ -2592001 <= d /\ d <= 0
  BY <1>2, <1>3, <1>6, SMT DEF Timely
<1>8. PICK z \in Int : z = ScenarioAnchor(o)
  BY <1>5
<1>9. PICK x \in Int : x = 100 * o
  BY <1>5
<1>10. t.id = x + i /\ t.at = z + d
  BY <1>4, <1>6, <1>8, <1>9
<1>11. t.at \in Int /\ t.id \in Int /\ z - 2592001 <= t.at /\ t.at <= z /\ x < t.id /\ t.id < x + 100
  BY ONLY i \in DOMAIN EventSpecs(o), z \in Int, x \in Int, <1>7, <1>10
<1> QED BY <1>8, <1>9, <1>11

\* Events of two scenarios differ by their ids; those of the earlier one come
\* later than all of the other.
LEMMA Apart ==
  ASSUME NEW o \in Scenarios, NEW p \in Scenarios, NEW e \in Catalog[o], NEW f \in Catalog[p]
  PROVE  /\ e.id = f.id => o = p /\ e = f
         /\ o < p => e.at > f.at
<1>1. o \in Nat /\ p \in Nat
  BY CaseFacts
<1>2. /\ e.at \in Int /\ e.id \in Int /\ ScenarioAnchor(o) - 2592001 <= e.at
      /\ 100 * o < e.id /\ e.id < 100 * o + 100
  BY EventTimes
<1>3. /\ f.at \in Int /\ f.id \in Int /\ f.at <= ScenarioAnchor(p)
      /\ 100 * p < f.id /\ f.id < 100 * p + 100
  BY EventTimes
<1>4. e.id = f.id => o = p
  BY <1>1, <1>2, <1>3
<1>5. e.id = f.id => e = f
  <2> SUFFICES ASSUME e.id = f.id PROVE e = f
    OBVIOUS
  <2>1. PICK i \in DOMAIN EventSpecs(o) : e = EventAt(o, i)
    BY DEF Catalog, Manifest, EventAt
  <2>2. PICK j \in DOMAIN EventSpecs(o) : f = EventAt(o, j)
    BY <1>4 DEF Catalog, Manifest, EventAt
  <2>3. Timely(o)
    <3>1. PICK k \in 1 .. 13 : k = o \div 4 + 1
      BY CaseFacts
    <3> QED BY <3>1, SinglesTimely, SeveralTimely
  <2>4. i \in 1 .. 15 /\ j \in 1 .. 15
    BY <2>3 DEF Timely
  <2>5. 100 * o + i = 100 * o + j
    BY <2>1, <2>2 DEF EventAt
  <2>6. i = j
    BY ONLY <1>1, <2>4, <2>5
  <2> QED BY <2>1, <2>2, <2>6
<1>6. ASSUME o < p PROVE e.at > f.at
  <2>1. ScenarioAnchor(o) = -(2678400 * o) /\ ScenarioAnchor(p) = -(2678400 * p)
    BY <1>1 DEF ScenarioAnchor
  <2> QED BY <1>1, <1>2, <1>3, <1>6, <2>1
<1> QED BY <1>4, <1>5, <1>6

\* What the scenarios sent before an event hold lies after it, out of reach of
\* every rule: the rules see the event's own scenario only.
Sent(k) == UNION {Catalog[o] : o \in {p \in Scenarios : p < k}}

\* So the history of an event is that of its scenario alone.
LEMMA Isolated ==
  ASSUME NEW o \in Scenarios, NEW t \in Catalog[o], NEW r
  PROVE  LoadHistory(r, t, Sent(o) \cup Catalog[o]) = LoadHistory(r, t, Catalog[o])
<1>1. ASSUME NEW e \in Sent(o) PROVE ~Within(e, t, r.condition.window)
  <2>1. PICK p \in Scenarios : p < o /\ e \in Catalog[p]
    BY DEF Sent
  <2>2. e.at \in Int /\ t.at \in Int /\ e.at > t.at
    BY <2>1, Apart, EventTimes
  <2> QED BY <2>2 DEF Within
<1> QED BY <1>1 DEF LoadHistory

-----------------------------------------------------------------------------
(* What a batch adds to the database *)

\* The ids under which events are stored and linked.
IdsOf(E) == {e.id : e \in E}

\* Matches that are not met change no incident.
LEMMA PersistedNone ==
  ASSUME NEW incidents, NEW M, \A m \in M : m[2] = {}
  PROVE  /\ DOMAIN Persisted(incidents, M) = DOMAIN incidents
         /\ \A b \in DOMAIN incidents : Persisted(incidents, M)[b] = incidents[b]
<1>1. PICK hits : hits = {m \in M : m[2] # {}} /\ hits = {}
  OBVIOUS
<1>2. Persisted(incidents, M) =
        [b \in DOMAIN incidents \cup {m[1] : m \in hits} |->
           (IF b \in DOMAIN incidents THEN incidents[b] ELSE {})
             \cup UNION {{e.id : e \in m[2]} : m \in {h \in hits : h[1] = b}}]
  BY <1>1, Zenon DEF Persisted
<1>3. DOMAIN Persisted(incidents, M) = DOMAIN incidents
  BY <1>1, <1>2
<1>4. ASSUME NEW b \in DOMAIN incidents PROVE Persisted(incidents, M)[b] = incidents[b]
  <2>1. {{e.id : e \in m[2]} : m \in {h \in hits : h[1] = b}} = {}
    BY <1>1
  <2>2. Persisted(incidents, M)[b] = incidents[b] \cup UNION {}
    BY <1>2, <1>4, <2>1
  <2> QED BY <2>2
<1> QED BY <1>3, <1>4

\* One match that counts, and its incident is new.
OneHit(incidents, M, b, E) ==
  /\ b \notin DOMAIN incidents /\ E # {}
  /\ <<b, E>> \in M /\ \A m \in M : m[2] # {} => m = <<b, E>>

\* It adds that incident with its links, and changes no other.
LEMMA PersistedOne ==
  ASSUME NEW incidents, NEW M, NEW b, NEW E, OneHit(incidents, M, b, E)
  PROVE  /\ DOMAIN Persisted(incidents, M) = DOMAIN incidents \cup {b}
         /\ Persisted(incidents, M)[b] = IdsOf(E)
         /\ \A d \in DOMAIN incidents : Persisted(incidents, M)[d] = incidents[d]
<1>1. /\ b \notin DOMAIN incidents /\ E # {}
      /\ <<b, E>> \in M /\ \A m \in M : m[2] # {} => m = <<b, E>>
  BY DEF OneHit
<1>2. PICK hits : hits = {m \in M : m[2] # {}}
  OBVIOUS
<1>3. hits = {<<b, E>>}
  <2>1. PICK x : x = <<b, E>>
    OBVIOUS
  <2>2. x \in M /\ x[2] # {} /\ \A m \in M : m[2] # {} => m = x
    BY <1>1, <2>1
  <2>3. hits = {x}
    BY ONLY <1>2, <2>2
  <2> QED BY <2>1, <2>3
<1>4. Persisted(incidents, M) =
        [d \in DOMAIN incidents \cup {m[1] : m \in hits} |->
           (IF d \in DOMAIN incidents THEN incidents[d] ELSE {})
             \cup UNION {{e.id : e \in m[2]} : m \in {h \in hits : h[1] = d}}]
  BY <1>2, Zenon DEF Persisted
<1>5. {m[1] : m \in hits} = {b}
  <2>1. PICK x : x = <<b, E>>
    OBVIOUS
  <2>2. x[1] = b /\ x = <<b, E>>
    BY ONLY <2>1
  <2>3. hits = {x}
    BY <1>3, <2>2
  <2> QED BY ONLY <2>2, <2>3
<1>6. DOMAIN Persisted(incidents, M) = DOMAIN incidents \cup {b}
  BY <1>4, <1>5
<1>7. Persisted(incidents, M)[b] = IdsOf(E)
  <2>1. {{e.id : e \in m[2]} : m \in {h \in hits : h[1] = b}} = {IdsOf(E)}
    <3>1. {h \in hits : h[1] = b} = {<<b, E>>}
      BY <1>3
    <3>2. {e.id : e \in <<b, E>>[2]} = IdsOf(E)
      BY DEF IdsOf
    <3> QED BY <3>1, <3>2
  <2>2. Persisted(incidents, M)[b] = {} \cup UNION {IdsOf(E)}
    BY <1>1, <1>4, <1>5, <2>1
  <2> QED BY <2>2
<1>8. ASSUME NEW d \in DOMAIN incidents PROVE Persisted(incidents, M)[d] = incidents[d]
  <2>1. d # b
    BY <1>8, <1>1
  <2>2. {h \in hits : h[1] = d} = {}
    BY <1>3, <2>1
  <2>3. {{e.id : e \in m[2]} : m \in {h \in hits : h[1] = d}} = {}
    BY <2>2
  <2>4. Persisted(incidents, M)[d] = incidents[d] \cup UNION {}
    BY <1>4, <2>3
  <2> QED BY <2>4
<1> QED BY <1>6, <1>7, <1>8

\* What the rules make of the batch of a scenario, whatever was sent before it.
LEMMA DetectedAlone ==
  ASSUME NEW o \in Scenarios, NEW M,
         M = RunDetection(EnabledRules, Catalog[o], Sent(o) \cup Catalog[o])
  PROVE  /\ Matching(CaseOf(o)) =>
              /\ Catalog[o] # {} /\ <<BucketOf(o), Catalog[o]>> \in M
              /\ \A m \in M : m[2] # {} => m = <<BucketOf(o), Catalog[o]>>
         /\ ~Matching(CaseOf(o)) => \A m \in M : m[2] = {}
<1>1. PICK stored : stored = Sent(o) \cup Catalog[o]
  OBVIOUS
<1>2. ASSUME NEW m \in M
      PROVE  \E r \in EnabledRules, t \in Catalog[o] :
               m = <<<<r.rule_key, Group(t, r.correlation)>>, ResultOf(o, r, t)>>
  <2>1. PICK r \in EnabledRules, t \in Catalog[o] : m = MatchOf(r, t, stored)
    BY <1>1 DEF RunDetection
  <2>2. LoadHistory(r, t, stored) = LoadHistory(r, t, Catalog[o])
    BY <1>1, Isolated
  <2>3. m = <<<<r.rule_key, Group(t, r.correlation)>>, ResultOf(o, r, t)>>
    BY <2>1, <2>2, Zenon DEF MatchOf, ResultOf
  <2> QED BY <2>3
<1>3. ASSUME NEW r \in EnabledRules, NEW t \in Catalog[o], ResultOf(o, r, t) # {}
      PROVE  <<<<r.rule_key, Group(t, r.correlation)>>, ResultOf(o, r, t)>> \in M
  <2>1. LoadHistory(r, t, stored) = LoadHistory(r, t, Catalog[o])
    BY <1>1, Isolated
  <2>2. r.enabled /\ CanTrigger(r, t) /\ HasAll(t, r.correlation)
    BY <1>3, Zenon DEF ResultOf, EvaluateRule
  <2>3. MatchOf(r, t, stored) = <<<<r.rule_key, Group(t, r.correlation)>>, ResultOf(o, r, t)>>
    BY <2>1, Zenon DEF MatchOf, ResultOf
  <2>4. PICK q : q = <<r, t>>
    OBVIOUS
  <2>5. q \in EnabledRules \X Catalog[o] /\ q[1] = r /\ q[2] = t
    BY <2>4
  <2>6. MatchOf(q[1], q[2], stored) \in M
    BY <1>1, <2>2, <2>5 DEF RunDetection
  <2> QED BY <2>3, <2>5, <2>6
<1>4. Settled(o)
  BY EveryScenario
<1>5. ASSUME Matching(CaseOf(o))
      PROVE  /\ Catalog[o] # {} /\ <<BucketOf(o), Catalog[o]>> \in M
             /\ \A m \in M : m[2] # {} => m = <<BucketOf(o), Catalog[o]>>
  <2>1. Yields(o) /\ Catalog[o] # {}
    <3>1. Cardinality(Catalog[o]) > 0
      BY <1>4 DEF Settled
    <3>2. Cardinality({}) = 0
      BY FS_EmptySet
    <3>3. Catalog[o] # {}
      <4>1. Catalog[o] = {} => Cardinality(Catalog[o]) = 0
        BY <3>2, Zenon
      <4> QED BY ONLY <3>1, <4>1
    <3> QED BY <1>4, <1>5, <3>3 DEF Settled
  <2>2. ASSUME NEW m \in M, m[2] # {} PROVE m = <<BucketOf(o), Catalog[o]>>
    <3>1. PICK r \in EnabledRules, t \in Catalog[o] :
             m = <<<<r.rule_key, Group(t, r.correlation)>>, ResultOf(o, r, t)>>
      BY <1>2
    <3>2. ResultOf(o, r, t) # {}
      BY <2>2, <3>1
    <3> QED BY <2>1, <3>1, <3>2 DEF Yields
  <2>3. <<BucketOf(o), Catalog[o]>> \in M
    <3>1. PICK r \in EnabledRules, t \in Catalog[o] : ResultOf(o, r, t) # {}
      BY <2>1 DEF Yields
    <3>2. <<<<r.rule_key, Group(t, r.correlation)>>, ResultOf(o, r, t)>> = <<BucketOf(o), Catalog[o]>>
      BY <2>1, <3>1 DEF Yields
    <3> QED BY <1>3, <3>1, <3>2
  <2> QED BY <2>1, <2>2, <2>3
<1>6. ASSUME ~Matching(CaseOf(o)), NEW m \in M PROVE m[2] = {}
  <2>1. PICK r \in EnabledRules, t \in Catalog[o] :
           m = <<<<r.rule_key, Group(t, r.correlation)>>, ResultOf(o, r, t)>>
    BY <1>2
  <2>2. ResultOf(o, r, t) = {}
    BY <1>4, <1>6 DEF Settled, Quiet
  <2> QED BY <2>1, <2>2
<1> QED BY <1>5, <1>6

\* The scenarios among the first k that must match.
MatchingBelow(k) == {o \in Scenarios : o < k /\ Matching(CaseOf(o))}

\* The database after the first k scenarios.
DatabaseAt(k, events, incidents) ==
  /\ events = IdsOf(Sent(k))
  /\ DOMAIN incidents = {BucketOf(o) : o \in MatchingBelow(k)}
  /\ \A o \in MatchingBelow(k) : incidents[BucketOf(o)] = IdsOf(Catalog[o])

\* One scenario more.
LEMMA Below ==
  ASSUME NEW k \in Scenarios
  PROVE  /\ Sent(k + 1) = Sent(k) \cup Catalog[k]
         /\ MatchingBelow(k + 1) = MatchingBelow(k) \cup (IF Matching(CaseOf(k)) THEN {k} ELSE {})
         /\ k \notin MatchingBelow(k)
<1>1. k \in Nat /\ \A o \in Scenarios : o \in Nat
  BY CaseFacts
<1>2. \A o \in Scenarios : o < k + 1 <=> o < k \/ o = k
  BY <1>1
<1>3. ~(k < k)
  BY <1>1
<1> QED BY <1>2, <1>3 DEF Sent, MatchingBelow

\* Which events are stored, and which are new, follows from k.
LEMMA StoredIs ==
  ASSUME NEW k, gateEvents = IdsOf(Sent(k))
  PROVE  /\ StoredEvents = Sent(k)
         /\ \A o \in Scenarios : Fresh(o) = IF o < k THEN {} ELSE Catalog[o]
<1>1. Sent(k) \subseteq CatalogEvents
  BY DEF Sent, CatalogEvents
<1>2. ASSUME NEW o \in Scenarios, NEW e \in Catalog[o]
      PROVE  e.id \in gateEvents <=> o < k
  <2>1. ASSUME o < k PROVE e.id \in gateEvents
    <3>1. e \in Sent(k)
      BY <2>1 DEF Sent
    <3> QED BY <3>1 DEF IdsOf
  <2>2. ASSUME e.id \in gateEvents PROVE o < k
    <3>1. PICK f \in Sent(k) : e.id = f.id
      BY <2>2 DEF IdsOf
    <3>2. PICK p \in Scenarios : p < k /\ f \in Catalog[p]
      BY DEF Sent
    <3>3. o = p
      BY <3>1, <3>2, Apart
    <3> QED BY <3>2, <3>3
  <2> QED BY <2>1, <2>2
<1>3. StoredEvents = Sent(k)
  BY <1>1, <1>2 DEF StoredEvents, CatalogEvents, Sent
<1>4. \A o \in Scenarios : Fresh(o) = IF o < k THEN {} ELSE Catalog[o]
  BY <1>2 DEF Fresh
<1> QED BY <1>3, <1>4

\* A repeated delivery of a scenario changes nothing.
LEMMA CommitAgain ==
  ASSUME NEW k \in 0 .. 52, NEW o \in Scenarios, o < k,
         DatabaseAt(k, gateEvents, gateIncidents), Commit(o)
  PROVE  DatabaseAt(k, gateEvents', gateIncidents')
<1>1. PICK M : M = RunDetection(EnabledRules, Fresh(o), StoredEvents \cup Fresh(o))
  OBVIOUS
<1>2. gateEvents' = gateEvents \cup IdsOf(Fresh(o)) /\ gateIncidents' = Persisted(gateIncidents, M)
  BY <1>1 DEF Commit, IdsOf
<1>3. /\ gateEvents = IdsOf(Sent(k))
      /\ DOMAIN gateIncidents = {BucketOf(p) : p \in MatchingBelow(k)}
      /\ \A p \in MatchingBelow(k) : gateIncidents[BucketOf(p)] = IdsOf(Catalog[p])
  BY DEF DatabaseAt
<1>4. StoredEvents = Sent(k) /\ Fresh(o) = IF o < k THEN {} ELSE Catalog[o]
  BY <1>3, StoredIs
<1>5. Fresh(o) = {}
  BY <1>4
<1>6. M = {}
  BY <1>1, <1>5 DEF RunDetection
<1>7. /\ DOMAIN gateIncidents' = DOMAIN gateIncidents
      /\ \A b \in DOMAIN gateIncidents : gateIncidents'[b] = gateIncidents[b]
  BY <1>2, <1>6, PersistedNone
<1>8. gateEvents' = gateEvents
  BY <1>2, <1>5 DEF IdsOf
<1> QED BY <1>3, <1>7, <1>8 DEF DatabaseAt

\* The first one adds its events, and its incident if it must match.
LEMMA CommitFirst ==
  ASSUME NEW k \in 0 .. 52, NEW o \in Scenarios, o = k,
         DatabaseAt(k, gateEvents, gateIncidents), Commit(o)
  PROVE  DatabaseAt(k + 1, gateEvents', gateIncidents')
<1>1. PICK M : M = RunDetection(EnabledRules, Fresh(o), StoredEvents \cup Fresh(o))
  OBVIOUS
<1>2. gateEvents' = gateEvents \cup IdsOf(Fresh(o)) /\ gateIncidents' = Persisted(gateIncidents, M)
  BY <1>1 DEF Commit, IdsOf
<1>3. /\ gateEvents = IdsOf(Sent(k))
      /\ DOMAIN gateIncidents = {BucketOf(p) : p \in MatchingBelow(k)}
      /\ \A p \in MatchingBelow(k) : gateIncidents[BucketOf(p)] = IdsOf(Catalog[p])
  BY DEF DatabaseAt
<1>4. StoredEvents = Sent(k) /\ Fresh(o) = IF o < k THEN {} ELSE Catalog[o]
  BY <1>3, StoredIs
<1>5. o \in 0 .. 51
  BY CaseFacts
<1>6. o = k /\ Fresh(o) = Catalog[o] /\ ~(o < k)
  BY <1>4, <1>5
<1>7. M = RunDetection(EnabledRules, Catalog[o], Sent(o) \cup Catalog[o])
  BY <1>1, <1>4, <1>6
<1>8. /\ Sent(o + 1) = Sent(o) \cup Catalog[o]
      /\ MatchingBelow(o + 1) = MatchingBelow(o) \cup (IF Matching(CaseOf(o)) THEN {o} ELSE {})
      /\ o \notin MatchingBelow(o)
  BY Below
<1>9. gateEvents' = IdsOf(Sent(o + 1))
  BY <1>2, <1>3, <1>6, <1>8 DEF IdsOf
<1>10. CASE Matching(CaseOf(o))
  <2>1. /\ Catalog[o] # {} /\ <<BucketOf(o), Catalog[o]>> \in M
        /\ \A m \in M : m[2] # {} => m = <<BucketOf(o), Catalog[o]>>
    BY <1>7, <1>10, DetectedAlone
  <2>2. BucketOf(o) \notin DOMAIN gateIncidents
    <3>1. ASSUME NEW p \in MatchingBelow(k) PROVE BucketOf(p) # BucketOf(o)
      <4>1. p \in Scenarios /\ Matching(CaseOf(p)) /\ p # o
        BY <1>6, <1>8 DEF MatchingBelow
      <4> QED BY <1>10, <4>1, BucketsDiffer
    <3> QED BY <1>3, <3>1
  <2>3. /\ DOMAIN gateIncidents' = DOMAIN gateIncidents \cup {BucketOf(o)}
        /\ gateIncidents'[BucketOf(o)] = IdsOf(Catalog[o])
        /\ \A d \in DOMAIN gateIncidents : gateIncidents'[d] = gateIncidents[d]
    <3>1. /\ DOMAIN Persisted(gateIncidents, M) = DOMAIN gateIncidents \cup {BucketOf(o)}
          /\ Persisted(gateIncidents, M)[BucketOf(o)] = IdsOf(Catalog[o])
          /\ \A d \in DOMAIN gateIncidents : Persisted(gateIncidents, M)[d] = gateIncidents[d]
      <4>1. PICK b : b = BucketOf(o)
        OBVIOUS
      <4>2. PICK E : E = Catalog[o]
        OBVIOUS
      <4>3. OneHit(gateIncidents, M, b, E)
        BY <2>1, <2>2, <4>1, <4>2 DEF OneHit
      <4>4. /\ DOMAIN Persisted(gateIncidents, M) = DOMAIN gateIncidents \cup {b}
            /\ Persisted(gateIncidents, M)[b] = IdsOf(E)
            /\ \A d \in DOMAIN gateIncidents : Persisted(gateIncidents, M)[d] = gateIncidents[d]
        BY ONLY <4>3, PersistedOne
      <4> QED BY <4>1, <4>2, <4>4
    <3> QED BY <1>2, <3>1
  <2>4. MatchingBelow(o + 1) = MatchingBelow(k) \cup {o}
    BY <1>6, <1>8, <1>10
  <2>5. DOMAIN gateIncidents' = {BucketOf(p) : p \in MatchingBelow(o + 1)}
    BY <1>3, <2>3, <2>4
  <2>6. ASSUME NEW p \in MatchingBelow(o + 1)
        PROVE  gateIncidents'[BucketOf(p)] = IdsOf(Catalog[p])
    BY <1>3, <2>3, <2>4
  <2>7. DatabaseAt(o + 1, gateEvents', gateIncidents')
    BY <1>9, <2>5, <2>6 DEF DatabaseAt
  <2> QED BY <1>6, <2>7
<1>11. CASE ~Matching(CaseOf(o))
  <2>1. \A m \in M : m[2] = {}
    BY <1>7, <1>11, DetectedAlone
  <2>2. /\ DOMAIN gateIncidents' = DOMAIN gateIncidents
        /\ \A b \in DOMAIN gateIncidents : gateIncidents'[b] = gateIncidents[b]
    BY <1>2, <2>1, PersistedNone
  <2>3. MatchingBelow(o + 1) = MatchingBelow(k)
    BY <1>6, <1>8, <1>11
  <2>4. DatabaseAt(o + 1, gateEvents', gateIncidents')
    BY <1>3, <1>9, <2>2, <2>3 DEF DatabaseAt
  <2> QED BY <1>6, <2>4
<1> QED BY <1>10, <1>11

-----------------------------------------------------------------------------
(* The catalog stays exact. *)

\* The batches are sent in order, each until it is accepted: the database is
\* that of a first part of the catalog, of all of it once the last is accepted.
CatalogInvariant ==
  \E k \in 0 .. 52 :
    /\ DatabaseAt(k, gateEvents, gateIncidents)
    /\ gatePhase \in {"rules", "provisioning", "manifests"} => k = 0
    /\ gatePhase = "ingestion" => k \in {gateNext, gateNext + 1}
    /\ gatePhase \in Opened => k = 52

\* A step of the gate that leaves events and incidents alone.
QuietStep ==
  /\ gateEvents' = gateEvents /\ gateIncidents' = gateIncidents
  /\ \/ gatePhase' = "failed"
     \/ /\ gatePhase \in {"rules", "provisioning", "manifests"}
        /\ gatePhase' \in {"provisioning", "manifests"}
     \/ gatePhase = "manifests" /\ gatePhase' = "ingestion" /\ gateNext' = 0
     \/ gatePhase = "ingestion" /\ gateNext \notin Scenarios /\ gatePhase' = "ingested"
     \/ gatePhase \in Opened /\ gatePhase' \in Opened
     \/ gatePhase' = gatePhase /\ gateNext' = gateNext

\* Such a step keeps the invariant, whatever phase it leads to.
LEMMA QuietKeeps ==
  ASSUME GateInvariant, CatalogInvariant, QuietStep
  PROVE  CatalogInvariant'
<1>1. PICK k \in 0 .. 52 :
        /\ DatabaseAt(k, gateEvents, gateIncidents)
        /\ gatePhase \in {"rules", "provisioning", "manifests"} => k = 0
        /\ gatePhase = "ingestion" => k \in {gateNext, gateNext + 1}
        /\ gatePhase \in Opened => k = 52
  BY DEF CatalogInvariant
<1>2. DatabaseAt(k, gateEvents', gateIncidents')
  BY <1>1 DEF QuietStep
<1>3. gatePhase = "ingestion" /\ gateNext \notin Scenarios => k = 52
  <2>1. Scenarios = 0 .. 51 /\ gateNext \in Nat
    BY CaseFacts DEF GateInvariant
  <2> QED BY <1>1, <2>1
<1>4. /\ gatePhase' \in {"rules", "provisioning", "manifests"} => k = 0
      /\ gatePhase' = "ingestion" => k \in {gateNext', gateNext' + 1}
      /\ gatePhase' \in Opened => k = 52
  BY <1>1, <1>3 DEF QuietStep, Opened
<1> QED BY <1>2, <1>4 DEF CatalogInvariant

\* All steps but those that send a batch are such.
LEMMA MostStepsQuiet ==
  ASSUME GateInvariant,
         \/ GateVerifyRules \/ GateProvision \/ GateMaterialize
         \/ GateIngestionSummary \/ GateVerifyIngestion
         \/ GateDeliver \/ GateDeliveryFails \/ GateVerifyDelivery
         \/ GateBrowse \/ GateBrowseFails \/ GateVerifyBrowser
         \/ GateVerifyReplay \/ GateShutdown \/ GateBackup \/ GateRestore \/ GateFails
  PROVE  QuietStep
<1>1. CASE GateVerifyRules
  <2>1. /\ gatePhase = "rules" /\ gatePhase' \in {"provisioning", "failed"}
        /\ UNCHANGED Database
    BY <1>1, CheckedPhase DEF GateVerifyRules
  <2> QED BY <2>1 DEF QuietStep, Database
<1>2. CASE GateProvision
  <2>1. /\ gatePhase = "provisioning" /\ gatePhase' = "manifests"
        /\ gateEvents' = gateEvents /\ gateIncidents' = gateIncidents
    BY <1>2 DEF GateProvision, Enter
  <2> QED BY <2>1 DEF QuietStep
<1>3. CASE GateMaterialize
  <2>1. /\ gatePhase = "manifests" /\ gatePhase' \in {"ingestion", "failed"} /\ gateNext' = 0
        /\ UNCHANGED Database
    BY <1>3, CheckedPhase DEF GateMaterialize
  <2> QED BY <2>1 DEF QuietStep, Database
<1>4. CASE GateIngestionSummary \/ GateVerifyIngestion
  <2>1. /\ UNCHANGED Database
        /\ \/ gatePhase' = "failed"
           \/ gatePhase = "ingestion" /\ gateNext \notin Scenarios /\ gatePhase' = "ingested"
           \/ gatePhase = "ingested" /\ gatePhase' = "delivery"
    BY <1>4, CheckedPhase DEF GateIngestionSummary, GateVerifyIngestion
  <2> QED BY <2>1 DEF QuietStep, Database, Opened
<1>5. CASE GateDeliver \/ GateDeliveryFails
  BY <1>5 DEF GateDeliver, GateDeliveryFails, QuietStep
<1>6. CASE GateVerifyDelivery
  <2>1. /\ UNCHANGED Database /\ gatePhase = "delivery" /\ gatePhase' \in {"browser", "failed"}
    BY <1>6, CheckedPhase DEF GateVerifyDelivery
  <2> QED BY <2>1 DEF QuietStep, Database, Opened
<1>7. CASE GateBrowse \/ GateBrowseFails
  <2>1. gateEvents' = gateEvents /\ gateIncidents' = gateIncidents
    BY <1>7 DEF GateBrowse, GateBrowseFails, BrowserEffect, Database
  <2>2. gatePhase = "browser" /\ gatePhase' \in {"browser", "failed"}
    BY <1>7 DEF GateBrowse, GateBrowseFails, Fail
  <2> QED BY <2>1, <2>2 DEF QuietStep, Opened
<1>8. CASE \/ GateVerifyBrowser \/ GateVerifyReplay \/ GateShutdown \/ GateBackup
           \/ GateRestore \/ GateFails
  <2>1. UNCHANGED Database
    BY <1>8 DEF GateVerifyBrowser, GateVerifyReplay, GateShutdown, GateBackup, GateRestore,
                GateFails, Database
  <2>2. \/ gatePhase' = "failed"
        \/ gatePhase \in Opened /\ gatePhase' \in Opened
    <3>1. CASE GateVerifyBrowser
      <4>1. gatePhase = "browser" /\ (gatePhase' = "replay" \/ gatePhase' = "failed")
        BY <3>1, Zenon DEF GateVerifyBrowser, Checked, Enter
      <4> QED BY <4>1 DEF Opened
    <3>2. CASE GateVerifyReplay
      <4>1. gatePhase = "replay" /\ (gatePhase' = "shutdown" \/ gatePhase' = "failed")
        BY <3>2, Zenon DEF GateVerifyReplay, Checked, Enter
      <4> QED BY <4>1 DEF Opened
    <3>3. CASE GateShutdown \/ GateBackup
      BY <3>3 DEF GateShutdown, GateBackup, Enter, Opened
    <3>4. CASE GateRestore
      <4>1. gatePhase = "restore" /\ (gatePhase' = "verified" \/ gatePhase' = "failed")
        BY <3>4, Zenon DEF GateRestore, Checked, Enter
      <4> QED BY <4>1 DEF Opened
    <3>5. CASE GateFails
      BY <3>5 DEF GateFails, Fail
    <3> QED BY <1>8, <3>1, <3>2, <3>3, <3>4, <3>5
  <2> QED BY <2>1, <2>2 DEF QuietStep, Database
<1> QED BY <1>1, <1>2, <1>3, <1>4, <1>5, <1>6, <1>7, <1>8

\* A batch: the next scenario for the first time, or again after a lost answer,
\* or in the replay.
LEMMA BatchKeeps ==
  ASSUME GateInvariant, CatalogInvariant, GateSend \/ GateRetry \/ GateRefused
  PROVE  CatalogInvariant'
<1>1. PICK n : n = gateNext
  OBVIOUS
<1>2. /\ gatePhase \in {"ingestion", "replay"} /\ n \in Scenarios
      /\ \/ gatePhase' = gatePhase /\ gateNext' = n + 1 /\ Commit(n)
         \/ /\ gatePhase' = gatePhase \/ gatePhase' = "failed"
            /\ gateNext' = n
            /\ Commit(n) \/ UNCHANGED Database
  BY <1>1 DEF GateSend, GateRetry, GateRefused, Sending, Fail
<1>3. n \in 0 .. 51
  BY <1>2, CaseFacts
<1>4. PICK k \in 0 .. 52 :
        /\ DatabaseAt(k, gateEvents, gateIncidents)
        /\ gatePhase = "ingestion" => k \in {n, n + 1}
        /\ gatePhase \in Opened => k = 52
  BY <1>1 DEF CatalogInvariant
<1>5. gatePhase = "replay" => k = 52
  BY <1>4 DEF Opened
<1>6. n = k \/ n < k
  BY <1>2, <1>3, <1>4, <1>5
<1>7. CASE ~Commit(n)
  <2>1. QuietStep
    BY <1>1, <1>2, <1>7 DEF QuietStep, Database
  <2> QED BY <2>1, QuietKeeps
<1>8. CASE Commit(n) /\ n < k
  <2>1. DatabaseAt(k, gateEvents', gateIncidents')
    BY <1>2, <1>4, <1>8, CommitAgain
  <2>2. gatePhase' = "ingestion" => k \in {gateNext', gateNext' + 1}
    BY <1>2, <1>3, <1>4, <1>8
  <2>3. gatePhase' \in Opened => k = 52
    BY <1>2, <1>5 DEF Opened
  <2>4. gatePhase' \notin {"rules", "provisioning", "manifests"}
    BY <1>2
  <2> QED BY <2>1, <2>2, <2>3, <2>4 DEF CatalogInvariant
<1>9. CASE Commit(n) /\ n = k
  <2>1. DatabaseAt(k + 1, gateEvents', gateIncidents')
    BY <1>2, <1>4, <1>9, CommitFirst
  <2>2. k + 1 \in 0 .. 52
    BY <1>3, <1>9
  <2>3. gatePhase' = "ingestion" => k + 1 \in {gateNext', gateNext' + 1}
    BY <1>2, <1>9
  <2>4. gatePhase' \notin Opened
    BY <1>2, <1>3, <1>5, <1>9 DEF Opened
  <2>5. gatePhase' \notin {"rules", "provisioning", "manifests"}
    BY <1>2
  <2> QED BY <2>1, <2>2, <2>3, <2>4, <2>5 DEF CatalogInvariant
<1> QED BY <1>6, <1>7, <1>8, <1>9

\* Whatever fails, the database is that of a first part of the catalog.
LEMMA CatalogFollowed == GateSpec => []CatalogInvariant
<1>1. GateInit => CatalogInvariant
  <2> SUFFICES ASSUME GateInit PROVE CatalogInvariant
    OBVIOUS
  <2>1. \A o \in Scenarios : ~(o < 0)
    BY CaseFacts
  <2>2. Sent(0) = {} /\ MatchingBelow(0) = {}
    BY <2>1 DEF Sent, MatchingBelow
  <2>3. DatabaseAt(0, gateEvents, gateIncidents)
    BY <2>2 DEF DatabaseAt, IdsOf, GateInit, NoFields
  <2>4. gatePhase = "rules"
    BY DEF GateInit
  <2> QED BY <2>3, <2>4 DEF CatalogInvariant, Opened
<1>2. GateInvariant /\ CatalogInvariant /\ [GateNext]_gateVars => CatalogInvariant'
  <2> SUFFICES ASSUME GateInvariant, CatalogInvariant, [GateNext]_gateVars PROVE CatalogInvariant'
    OBVIOUS
  <2>1. CASE UNCHANGED gateVars
    <3>1. QuietStep
      BY <2>1 DEF gateVars, QuietStep
    <3> QED BY <3>1, QuietKeeps
  <2>2. CASE GateNext
    BY <2>2, MostStepsQuiet, QuietKeeps, BatchKeeps DEF GateNext
  <2> QED BY <2>1, <2>2
<1> QED BY <1>1, <1>2, GatePhases, PTL DEF GateSpec

-----------------------------------------------------------------------------
\* The number of links is the number of events.
LEMMA LinksOf ==
  ASSUME NEW o \in Scenarios
  PROVE  Cardinality(IdsOf(Catalog[o])) = Cardinality(Catalog[o])
<1>1. PICK E : E = Catalog[o]
  OBVIOUS
<1>2. IsFiniteSet(E)
  BY <1>1, CatalogFinite
<1>3. \A e, f \in E : e.id = f.id => e = f
  BY <1>1, Apart
<1> DEFINE name == [e \in E |-> e.id]
<1>4. name \in Bijection(E, IdsOf(E))
  BY <1>3 DEF IdsOf, Bijection, Injection, Surjection, IsInjective
<1> HIDE DEF name
<1>5. ExistsBijection(E, IdsOf(E))
  BY <1>4 DEF ExistsBijection
<1> QED BY <1>1, <1>2, <1>5, FS_Bijection

\* Each matching scenario has an incident of its own.
LEMMA OneIncidentEach ==
  ASSUME NEW k \in 0 .. 52, NEW B, B = {BucketOf(o) : o \in MatchingBelow(k)}
  PROVE  Cardinality(B) = Cardinality(MatchingBelow(k))
<1>1. PICK S : S = MatchingBelow(k)
  OBVIOUS
<1>2. IsFiniteSet(S)
  <2>1. \A n \in Int : IsFiniteSet(0 .. n)
    BY FS_Interval
  <2>2. IsFiniteSet(Scenarios)
    <3>1. PICK n \in Int : n = 51
      OBVIOUS
    <3>2. Scenarios = 0 .. n
      BY <3>1, CaseFacts
    <3> QED BY <2>1, <3>2
  <2> QED BY <1>1, <2>2, FS_Subset DEF MatchingBelow
<1>3. \A o, p \in S : BucketOf(o) = BucketOf(p) => o = p
  BY <1>1, BucketsDiffer DEF MatchingBelow
<1> DEFINE place == [o \in S |-> BucketOf(o)]
<1>4. B = {BucketOf(o) : o \in S}
  BY <1>1
<1>5. place \in Bijection(S, B)
  BY <1>3, <1>4 DEF Bijection, Injection, Surjection, IsInjective
<1> HIDE DEF place
<1>6. ExistsBijection(S, B)
  BY <1>5 DEF ExistsBijection
<1> QED BY <1>1, <1>2, <1>6, FS_Bijection

\* The scenarios stored so far are those below k.
LEMMA StoredBelow ==
  ASSUME NEW k \in 0 .. 52, DatabaseAt(k, gateEvents, gateIncidents)
  PROVE  {o \in Committed : Matching(CaseOf(o))} = MatchingBelow(k)
<1>1. \A o \in Scenarios : Fresh(o) = IF o < k THEN {} ELSE Catalog[o]
  BY StoredIs DEF DatabaseAt
<1>2. \A o \in Scenarios : Catalog[o] # {}
  <2> SUFFICES ASSUME NEW o \in Scenarios PROVE Catalog[o] # {}
    OBVIOUS
  <2>1. Cardinality(Catalog[o]) > 0
    BY EveryScenario DEF Settled
  <2> QED BY <2>1, FS_EmptySet
<1>3. \A o \in Scenarios : o \in Committed <=> Fresh(o) = {}
  BY DEF Committed, Fresh
<1>4. Committed \subseteq Scenarios
  BY DEF Committed
<1>5. \A o \in Scenarios : o \in Committed <=> o < k
  BY <1>1, <1>2, <1>3
<1> QED BY <1>4, <1>5 DEF MatchingBelow

\* CatalogExact (DemoPipeline): whatever is lost, refused or sent again, the
\* shipped rules make of the scenarios stored so far exactly the incidents the
\* catalog promises, each with its own events (scenarios.py, orchestrator.py).
THEOREM CatalogIsExact == GateSpec => []CatalogExact
<1>1. CatalogInvariant => CatalogExact
  <2> SUFFICES ASSUME CatalogInvariant PROVE CatalogExact
    OBVIOUS
  <2>1. PICK k \in 0 .. 52 : DatabaseAt(k, gateEvents, gateIncidents)
    BY DEF CatalogInvariant
  <2>2. PICK S : S = MatchingBelow(k)
    OBVIOUS
  <2>3. {o \in Committed : Matching(CaseOf(o))} = S
    BY <2>1, <2>2, StoredBelow
  <2>4. Cardinality(DOMAIN gateIncidents) = Cardinality(S)
    BY <2>1, <2>2, OneIncidentEach DEF DatabaseAt
  <2>5. ASSUME NEW o \in S
        PROVE  \E b \in IncidentsOf(o) : Cardinality(gateIncidents[b]) = EvidenceCount[o \div 4 + 1]
    <3>1. o \in Scenarios /\ Matching(CaseOf(o))
      BY <2>2 DEF MatchingBelow
    <3>2. PICK b : b = BucketOf(o)
      OBVIOUS
    <3>3. b \in DOMAIN gateIncidents /\ gateIncidents[b] = IdsOf(Catalog[o])
      BY <2>1, <2>2, <3>2 DEF DatabaseAt
    <3>4. b[1] = RuleOf(o).rule_key
      BY <3>2 DEF BucketOf
    <3>5. b \in IncidentsOf(o)
      BY <3>3, <3>4 DEF IncidentsOf, IdsOf
    <3>6. Cardinality(gateIncidents[b]) = EvidenceCount[o \div 4 + 1]
      <4>1. Cardinality(Catalog[o]) = EvidenceCount[o \div 4 + 1]
        BY <3>1, EveryScenario DEF Settled
      <4> QED BY <3>1, <3>3, <4>1, LinksOf
    <3> QED BY <3>5, <3>6
  <2> QED BY <2>3, <2>4, <2>5, Zenon DEF CatalogExact
<1> QED BY <1>1, CatalogFollowed, PTL
=============================================================================
