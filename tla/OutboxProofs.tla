---------------------------- MODULE OutboxProofs ----------------------------
(***************************************************************************)
(* Proofs about Outbox, for every set of incidents, destinations and       *)
(* workers and every value of the limits.                                  *)
(*                                                                         *)
(* The invariant splits into what holds of each row (RowSound, a predicate *)
(* on the record, its number of claims and the accepted claims) and what   *)
(* holds of each worker's claim.  The lemmas on the row operators say that *)
(* every update the code performs keeps RowSound; the step lemmas then     *)
(* only have to say which rows a step updates.                             *)
(*                                                                         *)
(* The last part proves that the bound which the worker's timings are      *)
(* validated against is enough: no worker that answers in time ever loses  *)
(* its lease.                                                              *)
(***************************************************************************)
EXTENDS OutboxTimely, TLAPS

RowSound(m, c, S) ==
  /\ m \in RowType /\ c \in Nat /\ S \in SUBSET (Nat \ {0})
  /\ m.status = "processing" <=> m.token # NoToken
  /\ m.status = "processing" <=> m.leaseIn # None
  /\ m.status = "pending" <=> m.nextIn # None
  /\ m.status = "delivered" => m.error = "none"
  /\ m.status = "failed" => m.error # "none"
  /\ m.attempts <= m.max /\ m.max <= AttemptLimit
  /\ m.status = "pending" => m.attempts < m.max
  /\ m.attempts = c /\ S \subseteq 1..c
  /\ m.status = "delivered" => S # {}
  /\ m.status = "processing" => m.token = c
  /\ m.status = "absent" => m = Blank

WorkerSound(u, c, S) ==
  /\ u.pc \in {"deliver", "complete"} <=> u.claim # NoRow
  /\ u.claim # NoRow => u.token \in 1..c[u.claim]
  /\ u.pc = "deliver" => u.token \notin S[u.claim]
  /\ u.pc = "complete" => u.result # "none"
  /\ u.pc = "complete" /\ u.result = "delivered" => u.token \in S[u.claim]

DistinctTokens ==
  \A v, w \in Workers :
    v # w /\ worker[v].claim # NoRow /\ worker[v].claim = worker[w].claim
      => worker[v].token # worker[w].token

TypeInv ==
  /\ destination \in [Destinations -> [enabled: BOOLEAN, minimum: Ranks]]
  /\ raised \subseteq Incidents
  /\ row \in [Rows -> RowType]
  /\ worker \in [Workers -> WorkerType]
  /\ sent \in [Rows -> SUBSET (Nat \ {0})]
  /\ claims \in [Rows -> Nat]

RowsInv == \A r \in Rows : RowSound(row[r], claims[r], sent[r])

AbsentInv == \A r \in Rows : r[1] \notin raised => row[r].status = "absent"

WorkersInv == \A w \in Workers : WorkerSound(worker[w], claims, sent)

Inv == TypeInv /\ RowsInv /\ AbsentInv /\ WorkersInv /\ DistinctTokens

\* Inv is the invariant of Outbox, row by row and worker by worker.
LEMMA SplitIndInv == Inv <=> IndInv
  BY DEF Inv, TypeInv, RowsInv, AbsentInv, WorkersInv, IndInv, TypeOK, StateShape,
     AttemptsCountClaims, DeliveredWasSent, ClaimsSound, RowSound, WorkerSound, DistinctTokens

-----------------------------------------------------------------------------
(* The row operators *)

LEMMA ConstantBounds ==
  /\ AttemptLimit \in Nat /\ InitialAttempts \in Nat
  /\ InitialAttempts >= 1 /\ InitialAttempts <= AttemptLimit
  /\ LeaseTicks \in Nat /\ LeaseTicks >= 1
  /\ RecoveryTicks \in Nat /\ RecoveryTicks >= 1
  BY OutboxAssumption

\* A row starts without claims, and an enqueued one may be claimed.
LEMMA NewRowSound == RowSound(Blank, 0, {}) /\ RowSound(Enqueued, 0, {})
  BY ConstantBounds DEF RowSound, Blank, Enqueued, Release, RowType, Statuses, Errors,
     None, NoToken

\* Closing a claim, whatever the reason, leaves a sound row.
LEMMA ClosedSound ==
  ASSUME NEW m, NEW c, NEW S, RowSound(m, c, S), m.status = "processing"
  PROVE  /\ \A e \in Errors \ {"none"} : RowSound(Failed(m, e), c, S)
         /\ S # {} => RowSound(Delivered(m), c, S)
         /\ \A e \in Errors \ {"none"}, d \in Nat : RowSound(Rescheduled(m, d, e), c, S)
<1>1. \A e \in Errors \ {"none"} : RowSound(Failed(m, e), c, S)
  BY DEF RowSound, Failed, Release, RowType, Statuses, None, NoToken
<1>2. S # {} => RowSound(Delivered(m), c, S)
  BY DEF RowSound, Delivered, Release, RowType, Statuses, Errors, None, NoToken
<1>3. ASSUME NEW e \in Errors \ {"none"}, NEW d \in Nat
      PROVE  RowSound(Rescheduled(m, d, e), c, S)
  <2>1. CASE Exhausted(m)
    <3>1. "attempts_exhausted" \in Errors \ {"none"}
      BY DEF Errors
    <3> QED BY <1>1, <2>1, <3>1 DEF Rescheduled
  <2>2. CASE ~Exhausted(m)
    <3>1. RowSound(Release(m, "pending", d, e), c, S)
      BY <2>2 DEF RowSound, Exhausted, Release, RowType, Statuses, None, NoToken
    <3> QED BY <2>2, <3>1 DEF Rescheduled
  <2> QED BY <2>1, <2>2
<1> QED BY <1>1, <1>2, <1>3

LEMMA RecoveredSound ==
  ASSUME NEW m, NEW c, NEW S, RowSound(m, c, S)
  PROVE  RowSound(Recovered(m), c, S)
<1>1. "lease_expired" \in Errors \ {"none"} /\ 0 \in Nat
  BY DEF Errors
<1> QED BY <1>1, ClosedSound DEF Recovered

\* A claim is charged as one attempt, and takes the next token.
LEMMA ClaimedSound ==
  ASSUME NEW m, NEW c, NEW S, RowSound(m, c, S), Claimable(m)
  PROVE  RowSound(Claimed(m, c + 1), c + 1, S)
<1>1. S \subseteq 1..(c + 1)
  BY DEF RowSound
<1> QED
  BY <1>1, ConstantBounds DEF RowSound, Claimable, Claimed, RowType, Statuses, None, NoToken

LEMMA RequeuedSound ==
  ASSUME NEW m, NEW c, NEW S, RowSound(m, c, S), m.status = "failed",
         NEW k \in 1..MaxAdditional, m.max + k <= AttemptLimit
  PROVE  RowSound(Requeued(m, k), c, S)
<1>1. k \in Nat /\ k >= 1
  BY OutboxAssumption
<1> QED
  BY <1>1, ConstantBounds
  DEF RowSound, Requeued, Release, RowType, Statuses, Errors, None, NoToken

LEMMA AgedSound ==
  ASSUME NEW m, NEW c, NEW S, RowSound(m, c, S)
  PROVE  RowSound(Aged(m), c, S)
<1> DEFINE a == Earlier(m.nextIn)
           b == Earlier(m.leaseIn)
<1>1. /\ a \in Nat \cup {None} /\ (a = None <=> m.nextIn = None)
      /\ b \in Nat \cup {None} /\ (b = None <=> m.leaseIn = None)
  BY DEF RowSound, RowType, Earlier, None
<1>2. Aged(m) = [m EXCEPT !.nextIn = a, !.leaseIn = b]
  BY DEF Aged
<1> HIDE DEF a, b
<1>3. Aged(m) = [status |-> m.status, attempts |-> m.attempts, max |-> m.max, nextIn |-> a,
                 leaseIn |-> b, token |-> m.token, error |-> m.error]
  BY <1>2 DEF RowSound, RowType
<1> QED BY <1>1, <1>3 DEF RowSound, RowType

-----------------------------------------------------------------------------
(* The steps *)

LEMMA InitInv == Init => Inv
<1> SUFFICES ASSUME Init PROVE Inv
  OBVIOUS
<1>1. RowsInv
  BY NewRowSound DEF Init, RowsInv
<1>2. TypeInv
  <2>1. row \in [Rows -> RowType]
    BY NewRowSound DEF Init, RowSound
  <2>2. worker \in [Workers -> WorkerType]
    BY ConstantBounds DEF Init, WorkerType, Free, PCs, Dispositions, NoToken
  <2> QED BY <2>1, <2>2 DEF Init, TypeInv
<1>3. WorkersInv /\ DistinctTokens /\ AbsentInv
  BY DEF Init, Free, WorkersInv, WorkerSound, DistinctTokens, AbsentInv, Blank
<1> QED BY <1>1, <1>2, <1>3 DEF Inv

\* The row is sound and in the table, or not written yet, as before the step.
Update(r, m) ==
  /\ RowSound(m, claims[r], sent[r])
  /\ row[r].status = "absent" => m.status = "absent"

\* A step that only replaces rows by sound rows keeps the invariant.
LEMMA RowsOnly ==
  ASSUME Inv, UNCHANGED <<destination, raised, worker, sent, claims>>,
         row' = [r \in Rows |-> row'[r]], \A r \in Rows : Update(r, row'[r])
  PROVE  Inv'
<1>1. RowsInv' /\ AbsentInv' /\ row' \in [Rows -> RowType]
  BY DEF Inv, RowsInv, AbsentInv, RowSound, Update
<1> QED
  BY <1>1 DEF Inv, TypeInv, WorkersInv, DistinctTokens

\* A step that also lets one worker hold nothing keeps it as well.
LEMMA RowsAndFree ==
  ASSUME Inv, UNCHANGED <<destination, raised, sent, claims>>,
         row' = [r \in Rows |-> row'[r]], \A r \in Rows : Update(r, row'[r]),
         NEW w \in Workers, NEW pc \in {"down", "loop", "claim"}, NEW t \in 0..RecoveryTicks,
         worker' = [worker EXCEPT ![w] = Free(pc, t)]
  PROVE  Inv'
<1>1. RowsInv' /\ AbsentInv' /\ row' \in [Rows -> RowType]
  BY DEF Inv, RowsInv, AbsentInv, RowSound, Update
<1>2. Free(pc, t) \in WorkerType /\ WorkerSound(Free(pc, t), claims, sent)
  BY DEF Free, WorkerType, WorkerSound, PCs, Dispositions, NoToken
<1>3. worker' \in [Workers -> WorkerType]
  BY <1>2 DEF Inv, TypeInv
<1>4. WorkersInv'
  BY <1>2 DEF Inv, TypeInv, WorkersInv
<1>5. DistinctTokens'
  BY DEF Inv, TypeInv, DistinctTokens, Free
<1> QED
  BY <1>1, <1>3, <1>4, <1>5 DEF Inv, TypeInv

\* Recovery updates every row soundly.
LEMMA RecoverUpdates ==
  ASSUME Inv, RecoverExpiredClaims
  PROVE  row' = [r \in Rows |-> row'[r]] /\ \A r \in Rows : Update(r, row'[r])
<1>1. row' = [r \in Rows |-> row'[r]] /\ \A r \in Rows : row'[r] = Recovered(row[r])
  BY DEF RecoverExpiredClaims
<1>2. \A r \in Rows : row[r].status = "absent" => Recovered(row[r]) = row[r]
  BY DEF Recovered
<1> QED BY <1>1, <1>2, RecoveredSound DEF Inv, RowsInv, Update

\* So does leaving the rows alone.
LEMMA SameRows ==
  ASSUME Inv, row' = row
  PROVE  row' = [r \in Rows |-> row'[r]] /\ \A r \in Rows : Update(r, row'[r])
  BY DEF Inv, TypeInv, RowsInv, Update

\* And replacing one row, already written, by a sound one.
LEMMA OneRow ==
  ASSUME Inv, NEW r \in Rows, NEW m, row' = [row EXCEPT ![r] = m],
         RowSound(m, claims[r], sent[r]), row[r].status # "absent"
  PROVE  row' = [q \in Rows |-> row'[q]] /\ \A q \in Rows : Update(q, row'[q])
  BY DEF Inv, TypeInv, RowsInv, Update

-----------------------------------------------------------------------------
LEMMA CreateIncidentStep ==
  ASSUME Inv, NEW i \in Incidents, CreateIncident(i)
  PROVE  Inv'
<1>1. \A r \in Rows : row'[r] = row[r] \/ (row'[r] = Enqueued /\ r[1] = i)
  BY DEF CreateIncident
<1>2. \A r \in Rows : r[1] = i => claims[r] = 0 /\ sent[r] = {}
  <2>1. \A r \in Rows : r[1] = i => row[r] = Blank
    BY DEF Inv, RowsInv, AbsentInv, RowSound, CreateIncident
  <2> QED BY <2>1 DEF Inv, RowsInv, RowSound, Blank
<1>3. \A r \in Rows : RowSound(row'[r], claims[r], sent[r])
  BY <1>1, <1>2, NewRowSound DEF Inv, RowsInv
<1>4. AbsentInv'
  BY <1>1 DEF CreateIncident, Inv, AbsentInv
<1>5. row' \in [Rows -> RowType]
  BY <1>3 DEF CreateIncident, RowSound
<1> QED
  BY <1>3, <1>4, <1>5 DEF CreateIncident, Inv, TypeInv, RowsInv, WorkersInv, DistinctTokens

LEMMA SettingsStep ==
  ASSUME Inv, NEW d \in Destinations,
         SetEnabled(d) \/ \E k \in Ranks : SetMinimumSeverity(d, k)
  PROVE  Inv'
<1>1. destination' \in [Destinations -> [enabled: BOOLEAN, minimum: Ranks]]
  BY DEF Inv, TypeInv, SetEnabled, SetMinimumSeverity
<1> QED
  BY <1>1 DEF SetEnabled, SetMinimumSeverity, Inv, TypeInv, RowsInv, AbsentInv, WorkersInv,
              DistinctTokens

LEMMA StartStep ==
  ASSUME Inv, NEW w \in Workers, Start(w)
  PROVE  Inv'
<1>1. RecoveryTicks \in 0..RecoveryTicks
  BY ConstantBounds
<1>2. row' = [r \in Rows |-> row'[r]] /\ \A r \in Rows : Update(r, row'[r])
  BY RecoverUpdates DEF Start
<1> QED BY <1>1, <1>2, RowsAndFree DEF Start

LEMMA RecoverInLoopStep ==
  ASSUME Inv, NEW w \in Workers, RecoverInLoop(w)
  PROVE  Inv'
<1>1. RecoveryTicks \in 0..RecoveryTicks
  BY ConstantBounds
<1>2. row' = [r \in Rows |-> row'[r]] /\ \A r \in Rows : Update(r, row'[r])
  BY RecoverUpdates DEF RecoverInLoop
<1> QED BY <1>1, <1>2, RowsAndFree DEF RecoverInLoop

LEMMA FindNothingStep ==
  ASSUME Inv, NEW w \in Workers, FindNothing(w)
  PROVE  Inv'
<1>1. worker[w].recoverIn \in 0..RecoveryTicks
  BY DEF Inv, TypeInv, WorkerType
<1> QED BY <1>1, SameRows, RowsAndFree DEF FindNothing

LEMMA CrashStep ==
  ASSUME Inv, NEW w \in Workers, Crash(w)
  PROVE  Inv'
<1>1. 0 \in 0..RecoveryTicks
  BY ConstantBounds
<1>2. row' = [r \in Rows |-> row'[r]] /\ \A r \in Rows : Update(r, row'[r])
  BY SameRows DEF Crash
<1> QED BY <1>1, <1>2, RowsAndFree DEF Crash

LEMMA RecoverCommandStep == ASSUME Inv, RecoverCommand PROVE Inv'
  BY RecoverUpdates, RowsOnly DEF RecoverCommand

LEMMA RequeueFailedStep ==
  ASSUME Inv, NEW r \in Rows, RequeueFailed(r)
  PROVE  Inv'
<1>1. PICK k \in 1..MaxAdditional :
        row[r].max + k <= AttemptLimit /\ row' = [row EXCEPT ![r] = Requeued(row[r], k)]
  BY DEF RequeueFailed, Inv, TypeInv
<1>2. RowSound(Requeued(row[r], k), claims[r], sent[r])
  BY <1>1, RequeuedSound DEF RequeueFailed, Inv, RowsInv
<1> QED BY <1>1, <1>2, OneRow, RowsOnly DEF RequeueFailed

LEMMA TickStep == ASSUME Inv, Tick PROVE Inv'
<1>1. \A r \in Rows : Aged(row[r]).status = row[r].status
  BY DEF Aged, Inv, TypeInv, RowType
<1>2. row' = [r \in Rows |-> row'[r]] /\ \A r \in Rows : row'[r] = Aged(row[r])
  BY DEF Tick
<1>3. \A r \in Rows : RowSound(row'[r], claims[r], sent[r])
  BY <1>2, AgedSound DEF Inv, RowsInv
<1>4. RowsInv' /\ AbsentInv' /\ row' \in [Rows -> RowType]
  BY <1>1, <1>2, <1>3 DEF Tick, Inv, RowsInv, AbsentInv, RowSound
<1>5. ASSUME NEW w \in Workers
      PROVE  \E t \in 0..RecoveryTicks : worker'[w] = [worker[w] EXCEPT !.recoverIn = t]
  <2>1. worker[w].recoverIn \in 0..RecoveryTicks
    BY DEF Inv, TypeInv, WorkerType
  <2>2. Earlier(worker[w].recoverIn) \in 0..RecoveryTicks
    BY <2>1, ConstantBounds DEF Earlier
  <2> QED BY <2>2 DEF Tick
<1>6. worker' \in [Workers -> WorkerType]
  <2>1. ASSUME NEW w \in Workers PROVE worker'[w] \in WorkerType
    BY <1>5, <2>1 DEF Inv, TypeInv, WorkerType
  <2> QED BY <2>1 DEF Tick
<1>7. \A w \in Workers : /\ worker'[w].pc = worker[w].pc /\ worker'[w].claim = worker[w].claim
                         /\ worker'[w].token = worker[w].token
                         /\ worker'[w].result = worker[w].result
  BY <1>5 DEF Inv, TypeInv, WorkerType
<1>8. WorkersInv' /\ DistinctTokens'
  BY <1>7 DEF Tick, Inv, WorkersInv, WorkerSound, DistinctTokens
<1> QED BY <1>4, <1>6, <1>8 DEF Tick, Inv, TypeInv

\* A row that is closed in the transaction that claimed it.
LEMMA ClaimAndFail ==
  ASSUME Inv, NEW w \in Workers, NEW r \in Rows, Claimable(row[r]),
         claims' = [claims EXCEPT ![r] = claims[r] + 1],
         NEW e \in Errors \ {"none"},
         row' = [row EXCEPT ![r] = Failed(Claimed(row[r], claims[r] + 1), e)],
         worker' = [worker EXCEPT ![w] = Free("loop", worker[w].recoverIn)],
         UNCHANGED <<destination, raised, sent>>
  PROVE  Inv'
<1>1. RowSound(Claimed(row[r], claims[r] + 1), claims[r] + 1, sent[r])
  BY ClaimedSound DEF Inv, RowsInv
<1>2. RowSound(row'[r], claims'[r], sent'[r])
  BY <1>1, ClosedSound DEF Claimed, Inv, TypeInv
<1>3. row' \in [Rows -> RowType] /\ claims' \in [Rows -> Nat]
  BY <1>2 DEF RowSound, Inv, TypeInv
<1>4. RowsInv' /\ AbsentInv'
  BY <1>2 DEF Inv, TypeInv, RowsInv, AbsentInv, Claimable
<1>5. worker[w].recoverIn \in 0..RecoveryTicks
  BY DEF Inv, TypeInv, WorkerType
<1>6. worker' \in [Workers -> WorkerType]
  BY <1>5 DEF Inv, TypeInv, Free, WorkerType, PCs, Dispositions, NoToken
<1>7. WorkersInv'
  <2>1. ASSUME NEW v \in Workers, v # w PROVE WorkerSound(worker[v], claims', sent)
    BY <1>3 DEF Inv, TypeInv, WorkersInv, WorkerSound, WorkerType
  <2>2. WorkerSound(worker'[w], claims', sent)
    BY DEF Inv, TypeInv, WorkerSound, Free
  <2> QED BY <2>1, <2>2 DEF Inv, TypeInv, WorkersInv
<1>8. DistinctTokens'
  BY DEF Inv, TypeInv, DistinctTokens, Free
<1> QED BY <1>3, <1>4, <1>6, <1>7, <1>8 DEF Inv, TypeInv

\* The new holder has a token no other worker can hold, because tokens held
\* are at most the number of claims before this one.
LEMMA ClaimAndHold ==
  ASSUME Inv, NEW w \in Workers, NEW r \in Rows, Claimable(row[r]), AboutToClaim(w),
         claims' = [claims EXCEPT ![r] = claims[r] + 1],
         row' = [row EXCEPT ![r] = Claimed(row[r], claims[r] + 1)],
         worker' = [worker EXCEPT ![w] =
                      Holder(worker[w], "deliver", r, claims[r] + 1, "none")],
         UNCHANGED <<destination, raised, sent>>
  PROVE  Inv'
<1>1. RowSound(row'[r], claims'[r], sent'[r])
  BY ClaimedSound DEF Inv, TypeInv, RowsInv
<1>2. row' \in [Rows -> RowType] /\ claims' \in [Rows -> Nat]
  BY <1>1 DEF RowSound, Inv, TypeInv
<1>3. RowsInv' /\ AbsentInv'
  BY <1>1 DEF Inv, TypeInv, RowsInv, AbsentInv, Claimable
<1>4. worker[w].recoverIn \in 0..RecoveryTicks
  BY DEF Inv, TypeInv, WorkerType
<1>5. worker' \in [Workers -> WorkerType]
  BY <1>2, <1>4 DEF Inv, TypeInv, Holder, WorkerType, PCs, Dispositions
<1>6. r # NoRow
  BY OutboxAssumption
<1>7. claims[r] + 1 \notin sent[r] /\ claims[r] \in Nat
  BY DEF Inv, TypeInv, RowsInv, RowSound
<1>8. WorkersInv'
  <2>1. ASSUME NEW v \in Workers, v # w PROVE WorkerSound(worker[v], claims', sent)
    BY <1>2 DEF Inv, TypeInv, WorkersInv, WorkerSound, WorkerType
  <2>2. WorkerSound(worker'[w], claims', sent)
    BY <1>2, <1>6, <1>7 DEF Inv, TypeInv, WorkerSound, Holder
  <2> QED BY <2>1, <2>2 DEF Inv, TypeInv, WorkersInv
<1>9. DistinctTokens'
  <2>1. ASSUME NEW v \in Workers, worker[v].claim = r PROVE worker[v].token < claims[r] + 1
    BY <1>6, <1>7, <2>1 DEF Inv, TypeInv, WorkersInv, WorkerSound, WorkerType
  <2>2. ASSUME NEW v \in Workers, v # w, worker[v].claim = r
        PROVE  worker[v].token # claims[r] + 1
    BY <1>7, <2>1, <2>2 DEF Inv, TypeInv, WorkerType
  <2> QED BY <2>2 DEF Inv, TypeInv, DistinctTokens, Holder
<1> QED BY <1>2, <1>3, <1>5, <1>8, <1>9 DEF Inv, TypeInv

LEMMA ClaimStep ==
  ASSUME Inv, NEW w \in Workers, Claim(w)
  PROVE  Inv'
<1>1. "destination_disabled" \in Errors \ {"none"} /\ "rejected" \in Errors \ {"none"}
  BY DEF Errors
<1>2. PICK r \in Rows :
        /\ Claimable(row[r]) /\ claims' = [claims EXCEPT ![r] = claims[r] + 1]
        /\ \/ /\ row' = [row EXCEPT ![r] =
                           Failed(Claimed(row[r], claims[r] + 1), "destination_disabled")]
              /\ worker' = [worker EXCEPT ![w] = Free("loop", worker[w].recoverIn)]
           \/ /\ row' = [row EXCEPT ![r] = Failed(Claimed(row[r], claims[r] + 1), "rejected")]
              /\ worker' = [worker EXCEPT ![w] = Free("loop", worker[w].recoverIn)]
           \/ /\ row' = [row EXCEPT ![r] = Claimed(row[r], claims[r] + 1)]
              /\ worker' = [worker EXCEPT ![w] =
                              Holder(worker[w], "deliver", r, claims[r] + 1, "none")]
  BY DEF Claim
<1>3. AboutToClaim(w) /\ UNCHANGED <<destination, raised, sent>>
  BY DEF Claim
<1> QED BY <1>1, <1>2, <1>3, ClaimAndFail, ClaimAndHold

LEMMA DeliverStep ==
  ASSUME Inv, NEW w \in Workers, Deliver(w)
  PROVE  Inv'
<1> DEFINE r == worker[w].claim
           k == worker[w].token
<1>1. PICK result \in Dispositions, accepted \in BOOLEAN :
        /\ result = "delivered" => accepted
        /\ worker' = [worker EXCEPT ![w] = Holder(worker[w], "complete", r, k, result)]
        /\ sent' = [sent EXCEPT ![r] = IF accepted THEN sent[r] \cup {k} ELSE sent[r]]
  BY DEF Deliver
<1>2. r \in Rows /\ k \in 1..claims[r] /\ claims[r] \in Nat /\ r # NoRow
  BY OutboxAssumption DEF Deliver, Inv, TypeInv, WorkersInv, WorkerSound, WorkerType
<1>3. sent' \in [Rows -> SUBSET (Nat \ {0})]
  BY <1>1, <1>2 DEF Inv, TypeInv
<1>4. RowsInv' /\ AbsentInv'
  <2>1. ASSUME NEW q \in Rows
        PROVE  sent'[q] \in SUBSET (Nat \ {0}) /\ sent'[q] \subseteq 1..claims[q]
               /\ (sent[q] # {} => sent'[q] # {})
    BY <1>1, <1>2, <1>3 DEF Inv, TypeInv, RowsInv, RowSound
  <2> QED BY <2>1 DEF Deliver, Inv, RowsInv, AbsentInv, RowSound
<1>5. Holder(worker[w], "complete", r, k, result) \in WorkerType
  <2>1. worker[w].recoverIn \in 0..RecoveryTicks
    BY DEF Inv, TypeInv, WorkerType
  <2> QED BY <1>2, <2>1 DEF Holder, WorkerType, PCs
<1>6. worker' \in [Workers -> WorkerType]
  BY <1>1, <1>5 DEF Inv, TypeInv
<1>7. WorkersInv'
  <2>1. ASSUME NEW v \in Workers, v # w PROVE WorkerSound(worker[v], claims, sent')
    <3>1. CASE worker[v].pc = "deliver"
      <4>1. worker[v].claim # NoRow /\ worker[v].claim \in Rows
        BY <3>1 DEF Inv, TypeInv, WorkersInv, WorkerSound, WorkerType
      <4>2. worker[v].claim = r => worker[v].token # k
        BY <2>1, <4>1 DEF Inv, DistinctTokens
      <4>3. worker[v].token \notin sent'[worker[v].claim]
        BY <1>1, <1>2, <3>1, <4>1, <4>2 DEF Inv, TypeInv, WorkersInv, WorkerSound
      <4> QED BY <3>1, <4>3 DEF Inv, WorkersInv, WorkerSound
    <3>2. CASE worker[v].pc # "deliver"
      <4>1. \A q \in Rows : sent[q] \subseteq sent'[q]
        BY <1>1, <1>2 DEF Inv, TypeInv
      <4> QED BY <3>2, <4>1 DEF Inv, TypeInv, WorkersInv, WorkerSound, WorkerType
    <3> QED BY <3>1, <3>2
  <2>2. WorkerSound(worker'[w], claims, sent')
    <3>1. result # "none"
      BY DEF Dispositions
    <3>2. result = "delivered" => k \in sent'[r]
      BY <1>1, <1>2 DEF Inv, TypeInv
    <3>3. worker'[w] = Holder(worker[w], "complete", r, k, result)
      BY <1>1 DEF Inv, TypeInv
    <3> QED BY <1>2, <3>1, <3>2, <3>3 DEF WorkerSound, Holder
  <2> QED BY <1>1, <2>1, <2>2 DEF Deliver, Inv, TypeInv, WorkersInv
<1>8. DistinctTokens'
  BY <1>1 DEF Inv, TypeInv, DistinctTokens, Holder
<1> QED BY <1>3, <1>4, <1>6, <1>7, <1>8 DEF Deliver, Inv, TypeInv

LEMMA CompleteStep ==
  ASSUME Inv, NEW w \in Workers, Complete(w)
  PROVE  Inv'
<1> DEFINE r == worker[w].claim
<1>1. row' = [q \in Rows |-> row'[q]] /\ \A q \in Rows : Update(q, row'[q])
  <2>1. CASE Owns(w)
    <3>1. r \in Rows /\ row[r].status = "processing" /\ RowSound(row[r], claims[r], sent[r])
      BY <2>1 DEF Owns, Inv, RowsInv
    <3>2. "rejected" \in Errors \ {"none"} /\ "retryable" \in Errors \ {"none"}
      BY DEF Errors
    <3>3. worker[w].result = "delivered" => sent[r] # {}
      BY DEF Complete, Inv, WorkersInv, WorkerSound
    <3>4. \/ worker[w].result = "delivered" /\ row' = [row EXCEPT ![r] = Delivered(row[r])]
          \/ row' = [row EXCEPT ![r] = Failed(row[r], "rejected")]
          \/ \E d \in 1..MaxDelay : row' = [row EXCEPT ![r] = Rescheduled(row[r], d, "retryable")]
      BY <2>1 DEF Complete
    <3>5. \A d \in 1..MaxDelay : d \in Nat
      BY OutboxAssumption
    <3>6. \E m : row' = [row EXCEPT ![r] = m] /\ RowSound(m, claims[r], sent[r])
      BY <3>1, <3>2, <3>3, <3>4, <3>5, ClosedSound
    <3> QED BY <3>1, <3>6, OneRow
  <2>2. CASE ~Owns(w)
    BY <2>2, SameRows DEF Complete
  <2> QED BY <2>1, <2>2
<1>2. worker[w].recoverIn \in 0..RecoveryTicks
  BY DEF Inv, TypeInv, WorkerType
<1> QED BY <1>1, <1>2, RowsAndFree DEF Complete

-----------------------------------------------------------------------------
(* The theorems *)

LEMMA NextInv == Inv /\ [Next]_vars => Inv'
<1> SUFFICES ASSUME Inv, [Next]_vars PROVE Inv'
  OBVIOUS
<1>1. CASE Next
  <2>1. ASSUME NEW w \in Workers, WorkerStep(w) PROVE Inv'
    BY <2>1, StartStep, RecoverInLoopStep, ClaimStep, FindNothingStep, DeliverStep,
       CompleteStep DEF WorkerStep
  <2> QED
    BY <1>1, <2>1, CreateIncidentStep, SettingsStep, CrashStep, RecoverCommandStep,
       RequeueFailedStep, TickStep DEF Next, Untimed
<1>2. CASE UNCHANGED vars
  BY <1>2 DEF vars, Inv, TypeInv, RowsInv, AbsentInv, WorkersInv, DistinctTokens
<1> QED BY <1>1, <1>2

\* The inductive invariant holds in every reachable state of the outbox.
THEOREM OutboxInvariant == Spec => []IndInv
<1>1. Spec => []Inv
  BY InitInv, NextInv, PTL DEF Spec
<1> QED BY <1>1, SplitIndInv, PTL

\* The columns always hold values of their types.
THEOREM TypeCorrect == Spec => []TypeOK
<1>1. IndInv => TypeOK
  BY DEF IndInv
<1> QED BY <1>1, OutboxInvariant, PTL

\* No UPDATE of the worker, the recovery or the requeue is ever refused by the
\* CHECK constraints state_shape, attempt_count_range and max_attempts_range, and
\* no pending row is out of attempts, so the claim query can see every one.
THEOREM ConstraintsHold == Spec => []StateShape
<1>1. IndInv => StateShape
  BY DEF IndInv
<1> QED BY <1>1, OutboxInvariant, PTL

\* At most one live worker owns a row's claim, for any number of workers.
THEOREM SingleOwner == Spec => []OneOwner
<1>1. IndInv => OneOwner
  BY OutboxAssumption DEF IndInv, OneOwner, Owns, ClaimsSound
<1> QED BY <1>1, OutboxInvariant, PTL

\* The provider accepts at most one message per attempt charged to the row.
THEOREM BoundedDelivery == Spec => []AttemptsCountClaims
<1>1. IndInv => AttemptsCountClaims
  BY DEF IndInv
<1> QED BY <1>1, OutboxInvariant, PTL

\* A row marked delivered was accepted by the provider.
THEOREM HonestDelivery == Spec => []DeliveredWasSent
<1>1. IndInv => DeliveredWasSent
  BY DEF IndInv
<1> QED BY <1>1, OutboxInvariant, PTL

-----------------------------------------------------------------------------
(* What a step may do to a row *)

\* A recovery leaves a row alone unless its lease has run out; then the row is
\* pending again or failed, with the same limit.
LEMMA RecoveredRow ==
  ASSUME NEW m \in RowType
  PROVE  \/ Recovered(m) = m
         \/ /\ m.status = "processing" /\ m.leaseIn = 0
            /\ Recovered(m).status \in {"pending", "failed"} /\ Recovered(m).max = m.max
  BY DEF Recovered, Rescheduled, Failed, Release

LEMMA AgedRow ==
  ASSUME NEW m \in RowType
  PROVE  /\ Aged(m).status = m.status /\ Aged(m).max = m.max /\ Aged(m).token = m.token
         /\ m.nextIn = None /\ m.leaseIn = None => Aged(m) = m
<1> DEFINE a == Earlier(m.nextIn)
           b == Earlier(m.leaseIn)
<1>1. Aged(m) = [m EXCEPT !.nextIn = a, !.leaseIn = b]
  BY DEF Aged
<1>2. m.nextIn = None => a = m.nextIn
  BY DEF Earlier, None
<1>3. m.leaseIn = None => b = m.leaseIn
  BY DEF Earlier, None
<1> HIDE DEF a, b
<1>4. Aged(m) = [status |-> m.status, attempts |-> m.attempts, max |-> m.max, nextIn |-> a,
                 leaseIn |-> b, token |-> m.token, error |-> m.error]
  BY <1>1 DEF RowType
<1> QED BY <1>2, <1>3, <1>4 DEF RowType

OwnerCompletes(r) ==
  \E w \in Workers : Owns(w) /\ worker[w].claim = r /\ worker[w].pc = "complete"

\* Every transition of a row, with the evidence the step has for it.
RowStep(r) ==
  \/ row'[r] = row[r]
  \/ row[r].status = "absent" /\ row'[r] = Enqueued
  \/ row[r].status = "pending" /\ row'[r].status \in {"processing", "failed"}
       /\ row'[r].max = row[r].max
  \/ row[r].status = "processing" /\ row'[r].status \in {"pending", "failed"}
       /\ row'[r].max = row[r].max /\ (row[r].leaseIn = 0 \/ OwnerCompletes(r))
  \/ row[r].status = "processing" /\ row'[r].status = "delivered"
       /\ row'[r].max = row[r].max /\ OwnerCompletes(r) /\ sent[r] # {}
  \/ row[r].status = "failed" /\ row'[r].status = "pending"
       /\ row'[r].max \in row[r].max+1..AttemptLimit
  \/ row[r].status \in {"pending", "processing"} /\ row'[r].status = row[r].status
       /\ row'[r].max = row[r].max /\ row'[r].token = row[r].token

LEMMA RecoveryRowStep ==
  ASSUME Inv, RecoverExpiredClaims, NEW r \in Rows
  PROVE  RowStep(r)
<1>1. row'[r] = Recovered(row[r]) /\ row[r] \in RowType
  BY DEF RecoverExpiredClaims, Inv, TypeInv
<1> QED BY <1>1, RecoveredRow DEF RowStep

LEMMA ClaimRowStep ==
  ASSUME Inv, NEW w \in Workers, Claim(w), NEW r \in Rows
  PROVE  RowStep(r)
<1>1. PICK q \in Rows :
        /\ Claimable(row[q])
        /\ \/ \E e : row' = [row EXCEPT ![q] = Failed(Claimed(row[q], claims[q] + 1), e)]
           \/ row' = [row EXCEPT ![q] = Claimed(row[q], claims[q] + 1)]
  BY DEF Claim
<1> QED
  BY <1>1 DEF RowStep, Inv, TypeInv, Claimable, Claimed, Failed, Release

LEMMA CompleteRowStep ==
  ASSUME Inv, NEW w \in Workers, Complete(w), NEW r \in Rows
  PROVE  RowStep(r)
<1> DEFINE q == worker[w].claim
<1>1. CASE ~Owns(w)
  BY <1>1 DEF Complete, RowStep
<1>2. CASE Owns(w)
  <2>1. q \in Rows /\ row[q].status = "processing" /\ OwnerCompletes(q)
    BY <1>2 DEF Owns, Complete, OwnerCompletes
  <2>2. \/ worker[w].result = "delivered" /\ row' = [row EXCEPT ![q] = Delivered(row[q])]
        \/ row' = [row EXCEPT ![q] = Failed(row[q], "rejected")]
        \/ \E d \in 1..MaxDelay : row' = [row EXCEPT ![q] = Rescheduled(row[q], d, "retryable")]
    BY <1>2 DEF Complete
  <2>3. worker[w].result = "delivered" => sent[q] # {}
    BY DEF Complete, Inv, WorkersInv, WorkerSound
  <2>4. CASE q # r
    BY <2>2, <2>4 DEF RowStep, Inv, TypeInv
  <2>5. CASE q = r
    <3>1. \/ worker[w].result = "delivered" /\ row'[r] = Delivered(row[r])
          \/ row'[r] = Failed(row[r], "rejected")
          \/ \E d \in 1..MaxDelay : row'[r] = Rescheduled(row[r], d, "retryable")
      BY <2>2, <2>5 DEF Inv, TypeInv
    <3>2. row'[r] = Delivered(row[r]) => row'[r].status = "delivered" /\ row'[r].max = row[r].max
      BY DEF Delivered, Release
    <3>3. row'[r] = Failed(row[r], "rejected")
            => row'[r].status = "failed" /\ row'[r].max = row[r].max
      BY DEF Failed, Release
    <3>4. \A d \in 1..MaxDelay : row'[r] = Rescheduled(row[r], d, "retryable")
            => row'[r].status \in {"pending", "failed"} /\ row'[r].max = row[r].max
      BY DEF Rescheduled, Failed, Release
    <3>5. row[r].status = "processing" /\ OwnerCompletes(r)
      BY <2>1, <2>5
    <3> QED BY <2>3, <2>5, <3>1, <3>2, <3>3, <3>4, <3>5 DEF RowStep
  <2> QED BY <2>4, <2>5
<1> QED BY <1>1, <1>2

LEMMA RequeueRowStep ==
  ASSUME Inv, NEW q \in Rows, RequeueFailed(q), NEW r \in Rows
  PROVE  RowStep(r)
<1>1. PICK k \in 1..MaxAdditional :
        row[q].max + k <= AttemptLimit /\ row' = [row EXCEPT ![q] = Requeued(row[q], k)]
  BY DEF RequeueFailed, Inv, TypeInv
<1>2. k \in Nat /\ k >= 1 /\ row[q].max \in Nat /\ AttemptLimit \in Nat
  BY OutboxAssumption DEF Inv, TypeInv, RowType
<1>3. CASE q # r
  BY <1>1, <1>3 DEF RowStep, Inv, TypeInv
<1>4. CASE q = r
  <2>1. row'[r] = Requeued(row[r], k)
    BY <1>1, <1>4 DEF Inv, TypeInv
  <2>2. Requeued(row[r], k).max = row[r].max + k /\ Requeued(row[r], k).status = "pending"
    BY <1>2, <1>4 DEF Requeued, Release, Inv, TypeInv, RowType
  <2> QED BY <1>1, <1>2, <1>4, <2>1, <2>2 DEF RequeueFailed, RowStep
<1> QED BY <1>3, <1>4

LEMMA CreateRowStep ==
  ASSUME Inv, NEW i \in Incidents, CreateIncident(i), NEW r \in Rows
  PROVE  RowStep(r)
  BY DEF CreateIncident, RowStep, Inv, AbsentInv

LEMMA TickRowStep ==
  ASSUME Inv, Tick, NEW r \in Rows
  PROVE  RowStep(r)
<1>1. row'[r] = Aged(row[r]) /\ row[r] \in RowType /\ RowSound(row[r], claims[r], sent[r])
  BY DEF Tick, Inv, TypeInv, RowsInv
<1>2. row[r].status \notin {"pending", "processing"} => row[r].nextIn = None /\ row[r].leaseIn = None
  BY <1>1 DEF RowSound
<1> QED BY <1>1, <1>2, AgedRow DEF RowStep

LEMMA EveryRowStep ==
  ASSUME Inv, [Next]_vars, NEW r \in Rows
  PROVE  RowStep(r)
<1>1. CASE Next
  <2>1. ASSUME NEW w \in Workers, WorkerStep(w) \/ Crash(w) PROVE RowStep(r)
    <3>1. Start(w) \/ RecoverInLoop(w) => RowStep(r)
      BY RecoveryRowStep DEF Start, RecoverInLoop
    <3>2. FindNothing(w) \/ Deliver(w) \/ Crash(w) => RowStep(r)
      BY DEF FindNothing, Deliver, Crash, RowStep
    <3> QED BY <2>1, <3>1, <3>2, ClaimRowStep, CompleteRowStep DEF WorkerStep
  <2>2. (\E d \in Destinations : SetEnabled(d) \/ \E k \in Ranks : SetMinimumSeverity(d, k))
          => RowStep(r)
    BY DEF SetEnabled, SetMinimumSeverity, RowStep
  <2> QED
    BY <1>1, <2>1, <2>2, CreateRowStep, RecoveryRowStep, RequeueRowStep, TickRowStep
    DEF Next, Untimed, RecoverCommand
<1>2. CASE UNCHANGED vars
  BY <1>2 DEF vars, RowStep
<1> QED BY <1>1, <1>2

\* Delivered is final for every interleaving of workers, recovery and requeue.
THEOREM DeliveredFinal == Spec => DeliveredIsFinal
<1>1. ASSUME Inv, [Next]_vars
      PROVE  \A r \in Rows : row[r].status = "delivered" => row'[r] = row[r]
  BY <1>1, EveryRowStep DEF RowStep
<1>2. Spec => []Inv
  BY InitInv, NextInv, PTL DEF Spec
<1> QED BY <1>1, <1>2, PTL DEF Spec, DeliveredIsFinal

\* A claim ends by its owner's completion or after its lease ran out.
THEOREM LeasesRespected == Spec => LeaseRespected
<1>1. ASSUME Inv, [Next]_vars
      PROVE  \A r \in Rows :
               row[r].status = "processing" /\ row'[r].token # row[r].token =>
                 \/ row[r].leaseIn = 0
                 \/ \E w \in Workers : Owns(w) /\ worker[w].claim = r /\ worker[w].pc = "complete"
  BY <1>1, EveryRowStep DEF RowStep, OwnerCompletes
<1>2. Spec => []Inv
  BY InitInv, NextInv, PTL DEF Spec
<1> QED BY <1>1, <1>2, PTL DEF Spec, LeaseRespected

-----------------------------------------------------------------------------
(* The outbox implements the lifecycle *)

StageFn == [r \in Rows |-> Stage(row[r])]
QuotaFn == [r \in Rows |-> row[r].max]

LEMMA StageValues ==
  ASSUME NEW m \in RowType
  PROVE  /\ (Stage(m) = "none") <=> (m.status = "absent")
         /\ (Stage(m) = "open") <=> (m.status \in {"pending", "processing"})
         /\ (Stage(m) = "delivered") <=> (m.status = "delivered")
         /\ (Stage(m) = "failed") <=> (m.status = "failed")
  BY DEF Stage, RowType, Statuses

\* A step that changes no row's stage or limit and no acceptance stutters.
LEMMA Stutter ==
  ASSUME Inv, Inv', \A r \in Rows : Stage(row'[r]) = Stage(row[r]) /\ row'[r].max = row[r].max,
         sent' = sent
  PROVE  UNCHANGED Lifecycle!vars
  BY DEF Lifecycle!vars

\* Steps that only let some rows fail give them up together.
LEMMA SomeGiveUp ==
  ASSUME Inv, Inv', sent' = sent,
         \A r \in Rows :
           /\ row'[r].max = row[r].max
           /\ \/ Stage(row'[r]) = Stage(row[r])
              \/ Stage(row[r]) = "open" /\ Stage(row'[r]) = "failed"
  PROVE  Lifecycle!Next
<1> DEFINE S == {r \in Rows : Stage(row[r]) = "open" /\ Stage(row'[r]) = "failed"}
<1>1. S \in SUBSET Rows /\ \A r \in S : StageFn[r] = "open"
  BY DEF StageFn
<1>2. StageFn' = [r \in Rows |-> IF r \in S THEN "failed" ELSE StageFn[r]]
  BY DEF StageFn
<1>3. QuotaFn' = QuotaFn
  BY DEF QuotaFn
<1> QED
  BY <1>1, <1>2, <1>3 DEF Lifecycle!Next, Lifecycle!GiveUp, StageFn, QuotaFn

LEMMA RecoveryImplements ==
  ASSUME Inv, Inv', RecoverExpiredClaims, sent' = sent
  PROVE  Lifecycle!Next
<1>1. ASSUME NEW r \in Rows
      PROVE  /\ row'[r].max = row[r].max
             /\ \/ Stage(row'[r]) = Stage(row[r])
                \/ Stage(row[r]) = "open" /\ Stage(row'[r]) = "failed"
  <2>1. row'[r] = Recovered(row[r]) /\ row[r] \in RowType /\ row'[r] \in RowType
    BY DEF RecoverExpiredClaims, Inv, TypeInv
  <2> QED BY <2>1, RecoveredRow, StageValues
<1> QED BY <1>1, SomeGiveUp

LEMMA CreateImplements ==
  ASSUME Inv, Inv', NEW i \in Incidents, CreateIncident(i)
  PROVE  Lifecycle!Next
<1> DEFINE S == {r \in Rows : r[1] = i /\ Eligible(r[2], i)}
<1>1. \A r \in Rows : r[1] = i => row[r] = Blank
  BY DEF Inv, RowsInv, AbsentInv, RowSound, CreateIncident
<1>2. Stage(Blank) = "none" /\ Stage(Enqueued) = "open" /\ Enqueued.max = Blank.max
  BY DEF Stage, Blank, Enqueued, Release
<1>3. \A r \in Rows : row'[r] = IF r \in S THEN Enqueued ELSE row[r]
  BY DEF CreateIncident
<1>4. \A r \in S : StageFn[r] = "none"
  BY <1>1, <1>2 DEF StageFn
<1>5. StageFn' = [r \in Rows |-> IF r \in S THEN "open" ELSE StageFn[r]]
  BY <1>2, <1>3 DEF StageFn
<1>6. QuotaFn' = QuotaFn
  BY <1>1, <1>2, <1>3 DEF QuotaFn
<1> QED
  BY <1>4, <1>5, <1>6 DEF CreateIncident, Lifecycle!Next, Lifecycle!Announce, StageFn, QuotaFn

LEMMA ClaimImplements ==
  ASSUME Inv, Inv', NEW w \in Workers, Claim(w)
  PROVE  Lifecycle!Next
<1>1. ASSUME NEW r \in Rows
      PROVE  /\ row'[r].max = row[r].max
             /\ \/ Stage(row'[r]) = Stage(row[r])
                \/ Stage(row[r]) = "open" /\ Stage(row'[r]) = "failed"
  <2>1. row[r] \in RowType /\ row'[r] \in RowType
    BY DEF Inv, TypeInv
  <2>2. \/ row'[r] = row[r]
        \/ row[r].status = "pending" /\ row'[r].status \in {"processing", "failed"}
             /\ row'[r].max = row[r].max
    <3>1. PICK q \in Rows :
            /\ Claimable(row[q])
            /\ \/ \E e : row' = [row EXCEPT ![q] = Failed(Claimed(row[q], claims[q] + 1), e)]
               \/ row' = [row EXCEPT ![q] = Claimed(row[q], claims[q] + 1)]
      BY DEF Claim
    <3> QED BY <3>1 DEF Inv, TypeInv, Claimable, Claimed, Failed, Release
  <2> QED BY <2>1, <2>2, StageValues
<1> QED BY <1>1, SomeGiveUp DEF Claim

\* The provider accepts an attempt that is within the limit and was not
\* accepted before.
LEMMA DeliverImplements ==
  ASSUME Inv, Inv', NEW w \in Workers, Deliver(w)
  PROVE  [Lifecycle!Next]_(Lifecycle!vars)
<1> DEFINE r == worker[w].claim
           k == worker[w].token
<1>1. r \in Rows /\ k \in 1..claims[r] /\ k \notin sent[r] /\ r # NoRow
  BY OutboxAssumption DEF Deliver, Inv, TypeInv, WorkersInv, WorkerSound, WorkerType
<1>2. RowSound(row[r], claims[r], sent[r]) /\ row[r] \in RowType
  BY <1>1 DEF Inv, TypeInv, RowsInv
<1>3. k \in 1..row[r].max
  BY <1>1, <1>2 DEF RowSound, RowType
<1>4. StageFn[r] # "none"
  <2>1. row[r].status # "absent"
    BY <1>1, <1>2 DEF RowSound, Blank
  <2> QED BY <1>1, <1>2, <2>1, StageValues DEF StageFn
<1>5. sent' = sent \/ sent' = [sent EXCEPT ![r] = sent[r] \cup {k}]
  BY DEF Deliver, Inv, TypeInv
<1>6. row' = row
  BY DEF Deliver
<1>7. CASE sent' = sent
  BY <1>6, <1>7 DEF Lifecycle!vars
<1>8. CASE sent' = [sent EXCEPT ![r] = sent[r] \cup {k}]
  <2>1. QuotaFn[r] = row[r].max
    BY <1>1 DEF QuotaFn
  <2>2. Lifecycle!Accept(r)
    BY <1>1, <1>3, <1>4, <1>6, <1>8, <2>1 DEF Lifecycle!Accept, StageFn, QuotaFn
  <2> QED BY <1>1, <2>2 DEF Lifecycle!Next
<1> QED BY <1>5, <1>7, <1>8

LEMMA CompleteImplements ==
  ASSUME Inv, Inv', NEW w \in Workers, Complete(w)
  PROVE  Lifecycle!Next
<1> DEFINE r == worker[w].claim
<1>0. \A q \in Rows : row[q] \in RowType /\ row'[q] \in RowType
  BY DEF Inv, TypeInv
<1>1. CASE r \in Rows /\ Stage(row'[r]) = "delivered" /\ Stage(row[r]) # "delivered"
  <2>1. row[r].status = "processing" /\ sent[r] # {} /\ row'[r].max = row[r].max
    BY <1>0, <1>1, CompleteRowStep, StageValues DEF RowStep, Enqueued, Release
  <2>2. \A q \in Rows : q # r => row'[q] = row[q]
    BY DEF Complete, Inv, TypeInv
  <2>3. StageFn' = [StageFn EXCEPT ![r] = "delivered"]
    BY <1>1, <2>2 DEF StageFn
  <2>4. QuotaFn' = QuotaFn
    BY <2>1, <2>2 DEF QuotaFn
  <2>5. StageFn[r] = "open"
    BY <1>0, <1>1, <2>1, StageValues DEF StageFn
  <2>6. Lifecycle!Deliver(r)
    BY <2>1, <2>3, <2>4, <2>5 DEF Complete, Lifecycle!Deliver, StageFn, QuotaFn
  <2> QED BY <1>1, <2>6 DEF Lifecycle!Next
<1>2. CASE ~(r \in Rows /\ Stage(row'[r]) = "delivered" /\ Stage(row[r]) # "delivered")
  <2>1. ASSUME NEW q \in Rows
        PROVE  /\ row'[q].max = row[q].max
               /\ \/ Stage(row'[q]) = Stage(row[q])
                  \/ Stage(row[q]) = "open" /\ Stage(row'[q]) = "failed"
    <3>1. CASE row'[q] = row[q]
      BY <3>1
    <3>2. CASE row'[q] # row[q]
      <4>1. q = r /\ Owns(w)
        BY <3>2 DEF Complete, Inv, TypeInv
      <4>2. row[q].status = "processing"
        BY <4>1 DEF Owns
      <4> QED BY <1>0, <1>2, <3>2, <4>1, <4>2, CompleteRowStep, StageValues DEF RowStep
    <3> QED BY <3>1, <3>2
  <2> QED BY <2>1, SomeGiveUp DEF Complete
<1> QED BY <1>1, <1>2

LEMMA RequeueImplements ==
  ASSUME Inv, Inv', NEW r \in Rows, RequeueFailed(r)
  PROVE  Lifecycle!Next
<1>1. row[r].status = "failed" /\ row'[r].status = "pending"
      /\ row'[r].max \in row[r].max+1..AttemptLimit
  <2>1. row[r].status = "failed" /\ row'[r] # row[r]
    <3>1. PICK k \in 1..MaxAdditional : row' = [row EXCEPT ![r] = Requeued(row[r], k)]
      BY DEF RequeueFailed, Inv, TypeInv
    <3>2. row'[r].status = "pending"
      BY <3>1 DEF Requeued, Release, Inv, TypeInv
    <3> QED BY <3>2 DEF RequeueFailed
  <2> QED BY <2>1, RequeueRowStep DEF RowStep
<1>2. \A q \in Rows : q # r => row'[q] = row[q]
  BY DEF RequeueFailed, Inv, TypeInv
<1>3. row[r] \in RowType /\ row'[r] \in RowType
  BY DEF Inv, TypeInv
<1>4. StageFn[r] = "failed" /\ StageFn' = [StageFn EXCEPT ![r] = "open"]
  BY <1>1, <1>2, <1>3, StageValues DEF StageFn
<1>5. QuotaFn' = [QuotaFn EXCEPT ![r] = row'[r].max] /\ QuotaFn[r] = row[r].max
  BY <1>2 DEF QuotaFn
<1>6. Lifecycle!Reopen(r)
  BY <1>1, <1>4, <1>5 DEF RequeueFailed, Lifecycle!Reopen, StageFn, QuotaFn
<1> QED BY <1>6 DEF Lifecycle!Next

LEMMA StepImplements ==
  ASSUME Inv, Inv', [Next]_vars
  PROVE  [Lifecycle!Next]_(Lifecycle!vars)
<1>1. CASE Next
  <2>1. ASSUME NEW w \in Workers, WorkerStep(w) \/ Crash(w)
        PROVE  [Lifecycle!Next]_(Lifecycle!vars)
    <3>1. Start(w) \/ RecoverInLoop(w) => Lifecycle!Next
      BY RecoveryImplements DEF Start, RecoverInLoop
    <3>2. FindNothing(w) \/ Crash(w) => UNCHANGED Lifecycle!vars
      BY DEF FindNothing, Crash, Lifecycle!vars
    <3> QED
      BY <2>1, <3>1, <3>2, ClaimImplements, DeliverImplements, CompleteImplements
      DEF WorkerStep
  <2>2. (\E d \in Destinations : SetEnabled(d) \/ \E k \in Ranks : SetMinimumSeverity(d, k))
          => UNCHANGED Lifecycle!vars
    BY DEF SetEnabled, SetMinimumSeverity, Lifecycle!vars
  <2>3. RecoverCommand => Lifecycle!Next
    BY RecoveryImplements DEF RecoverCommand
  <2>4. Tick => UNCHANGED Lifecycle!vars
    <3>1. ASSUME Tick, NEW r \in Rows
          PROVE  Stage(row'[r]) = Stage(row[r]) /\ row'[r].max = row[r].max
      BY <3>1, AgedRow DEF Tick, Stage, Inv, TypeInv
    <3> QED BY <3>1, Stutter DEF Tick
  <2> QED
    BY <1>1, <2>1, <2>2, <2>3, <2>4, CreateImplements, RequeueImplements DEF Next, Untimed
<1>2. CASE UNCHANGED vars
  BY <1>2 DEF vars, Lifecycle!vars
<1> QED BY <1>1, <1>2

\* The outbox, with any number of workers, crashes, lost leases and late
\* results, implements the notification lifecycle.
THEOREM OutboxImplementsLifecycle == Spec => ImplementsLifecycle
<1>1. Init => Lifecycle!Init
  <2>1. Stage(Blank) = "none" /\ Blank.max = InitialAttempts
    BY DEF Stage, Blank
  <2> QED BY <2>1 DEF Init, Lifecycle!Init
<1>2. Spec => []Inv
  BY InitInv, NextInv, PTL DEF Spec
<1> QED BY <1>1, <1>2, StepImplements, PTL DEF Spec, ImplementsLifecycle, Lifecycle!Spec

-----------------------------------------------------------------------------
(* The outbox in time: the invariant above says which token each worker    *)
(* holds; Kept adds that a claim under way has time left, which a tick     *)
(* cannot use up and no recovery, requeue or other worker's step touches.  *)

TimeLeft(w) == Owns(w) /\ row[worker[w].claim].leaseIn >= 1

Kept == \A w \in Workers : Holding(w) => TimeLeft(w)

SameHeldRow(w) == row'[worker[w].claim] = row[worker[w].claim]

\* A step that lets worker v continue as u keeps the claims, if it leaves the
\* rows of the other holders alone and u, if it holds a row, has time left.
LEMMA OthersUntouched ==
  ASSUME Inv, Kept, NEW v \in Workers, NEW u, worker' = [worker EXCEPT ![v] = u],
         \A w \in Workers \ {v} : Holding(w) => SameHeldRow(w),
         u.pc \in {"deliver", "complete"} =>
           /\ u.claim \in Rows /\ row'[u.claim].status = "processing"
           /\ row'[u.claim].token = u.token /\ row'[u.claim].leaseIn >= 1
  PROVE  Kept'
<1>1. worker'[v] = u /\ \A w \in Workers \ {v} : worker'[w] = worker[w]
  BY DEF Inv, TypeInv
<1>2. ASSUME NEW w \in Workers, Holding(w)' PROVE TimeLeft(w)'
  <2>1. CASE w = v
    BY <1>1, <1>2, <2>1 DEF Holding, TimeLeft, Owns
  <2>2. CASE w # v
    BY <1>1, <1>2, <2>2 DEF Holding, Kept, TimeLeft, Owns, SameHeldRow
  <2> QED BY <2>1, <2>2
<1> QED BY <1>2 DEF Kept

\* A step that leaves the workers and the rows they hold alone.
LEMMA HoldersUntouched ==
  ASSUME Kept, worker' = worker, \A w \in Workers : Holding(w) => SameHeldRow(w)
  PROVE  Kept'
  BY DEF Kept, Holding, TimeLeft, Owns, SameHeldRow

\* Recovery does not reach a row with time left.
LEMMA RecoveryUntouched ==
  ASSUME Kept, RecoverExpiredClaims, NEW w \in Workers, Holding(w)
  PROVE  SameHeldRow(w)
<1> DEFINE r == worker[w].claim
<1>1. r \in Rows /\ row[r].leaseIn # 0
  BY DEF Kept, TimeLeft, Owns
<1>2. row'[r] = Recovered(row[r])
  BY <1>1 DEF RecoverExpiredClaims
<1> QED BY <1>1, <1>2 DEF Recovered, SameHeldRow

\* A step that replaces one row leaves the holders of the others alone.
LEMMA OneRowUntouched ==
  ASSUME Inv, Kept, NEW r \in Rows, NEW m, row' = [row EXCEPT ![r] = m],
         NEW w \in Workers, Holding(w), worker[w].claim # r
  PROVE  SameHeldRow(w)
  BY DEF Inv, TypeInv, Kept, TimeLeft, Owns, SameHeldRow

-----------------------------------------------------------------------------
\* A worker that loses everything it held, with every row left or recovered.
LEMMA FreeStep ==
  ASSUME Inv, Kept, NEW v \in Workers, NEW pc \in {"down", "loop", "claim"}, NEW t,
         worker' = [worker EXCEPT ![v] = Free(pc, t)], row' = row \/ RecoverExpiredClaims
  PROVE  Kept'
<1>1. \A w \in Workers : Holding(w) => SameHeldRow(w)
  BY RecoveryUntouched DEF SameHeldRow
<1>2. Free(pc, t).pc \notin {"deliver", "complete"}
  BY DEF Free
<1> QED BY <1>1, <1>2, OthersUntouched

LEMMA ClaimKeeps ==
  ASSUME Inv, Kept, NEW v \in Workers, Claim(v)
  PROVE  Kept'
<1>1. PICK r \in Rows :
        /\ row[r].status = "pending"
        /\ \/ /\ \E m : row' = [row EXCEPT ![r] = m]
              /\ worker' = [worker EXCEPT ![v] = Free("loop", worker[v].recoverIn)]
           \/ /\ row' = [row EXCEPT ![r] = Claimed(row[r], claims[r] + 1)]
              /\ worker' = [worker EXCEPT ![v] =
                              Holder(worker[v], "deliver", r, claims[r] + 1, "none")]
  BY DEF Claim, Claimable
<1>2. \A w \in Workers : Holding(w) => SameHeldRow(w)
  <2>1. \A w \in Workers : Holding(w) => worker[w].claim # r
    BY <1>1 DEF Kept, TimeLeft, Owns
  <2> QED BY <1>1, <2>1, OneRowUntouched
<1>3. CASE worker' = [worker EXCEPT ![v] = Free("loop", worker[v].recoverIn)]
  BY <1>2, <1>3, OthersUntouched DEF Free
<1>4. CASE /\ row' = [row EXCEPT ![r] = Claimed(row[r], claims[r] + 1)]
           /\ worker' = [worker EXCEPT ![v] =
                           Holder(worker[v], "deliver", r, claims[r] + 1, "none")]
  <2>1. row'[r] = Claimed(row[r], claims[r] + 1)
    BY <1>4 DEF Inv, TypeInv
  <2>2. /\ row'[r].status = "processing" /\ row'[r].token = claims[r] + 1
        /\ row'[r].leaseIn >= 1
    BY <2>1, ConstantBounds DEF Claimed
  <2> QED BY <1>2, <1>4, <2>2, OthersUntouched DEF Holder
<1> QED BY <1>1, <1>3, <1>4

LEMMA DeliverKeeps ==
  ASSUME Inv, Kept, NEW v \in Workers, Deliver(v)
  PROVE  Kept'
<1>1. PICK result \in Dispositions :
        worker' = [worker EXCEPT ![v] =
                     Holder(worker[v], "complete", worker[v].claim, worker[v].token, result)]
  BY DEF Deliver
<1>2. row' = row /\ TimeLeft(v)
  BY DEF Deliver, Kept, Holding
<1>3. \A w \in Workers : Holding(w) => SameHeldRow(w)
  BY <1>2 DEF SameHeldRow
<1> QED BY <1>1, <1>2, <1>3, OthersUntouched DEF Holder, TimeLeft, Owns

\* Only the owner completes, and two holders of one row have distinct tokens.
LEMMA CompleteKeeps ==
  ASSUME Inv, Kept, NEW v \in Workers, Complete(v)
  PROVE  Kept'
<1> DEFINE r == worker[v].claim
<1>1. Owns(v) /\ r \in Rows
  BY DEF Complete, Kept, Holding, TimeLeft, Owns
<1>2. \E m : row' = [row EXCEPT ![r] = m]
  BY <1>1 DEF Complete
<1>3. ASSUME NEW w \in Workers \ {v}, Holding(w) PROVE worker[w].claim # r
  BY <1>1, <1>3, OutboxAssumption DEF Kept, TimeLeft, Owns, Inv, DistinctTokens
<1>4. \A w \in Workers \ {v} : Holding(w) => SameHeldRow(w)
  BY <1>1, <1>2, <1>3, OneRowUntouched
<1>5. worker' = [worker EXCEPT ![v] = Free("loop", worker[v].recoverIn)]
  BY DEF Complete
<1> QED BY <1>4, <1>5, OthersUntouched DEF Free

\* New rows and requeued rows were not processing, so nobody held them.
LEMMA CreateKeeps ==
  ASSUME Inv, Kept, NEW i \in Incidents, CreateIncident(i)
  PROVE  Kept'
<1>1. ASSUME NEW w \in Workers, Holding(w) PROVE SameHeldRow(w)
  <2>1. worker[w].claim \in Rows /\ row[worker[w].claim].status = "processing"
    BY <1>1 DEF Kept, TimeLeft, Owns
  <2>2. worker[w].claim[1] # i
    BY <2>1 DEF CreateIncident, Inv, AbsentInv
  <2> QED BY <2>1, <2>2 DEF CreateIncident, SameHeldRow
<1> QED BY <1>1, HoldersUntouched DEF CreateIncident

LEMMA RequeueKeeps ==
  ASSUME Inv, Kept, NEW r \in Rows, RequeueFailed(r)
  PROVE  Kept'
<1>1. (\E m : row' = [row EXCEPT ![r] = m]) /\ row[r].status = "failed"
  BY DEF RequeueFailed
<1>2. \A w \in Workers : Holding(w) => worker[w].claim # r
  BY <1>1 DEF Kept, TimeLeft, Owns
<1>3. \A w \in Workers : Holding(w) => SameHeldRow(w)
  BY <1>1, <1>2, OneRowUntouched
<1> QED BY <1>3, HoldersUntouched DEF RequeueFailed

\* A tick takes one from every lease, and in time there are two to take from.
LEMMA TickKeeps ==
  ASSUME Inv, Kept, InTime, Tick
  PROVE  Kept'
<1>1. ASSUME NEW w \in Workers, Holding(w)' PROVE TimeLeft(w)'
  <2> DEFINE r == worker[w].claim
             l == row[r].leaseIn
  <2>1. /\ worker'[w].pc = worker[w].pc /\ worker'[w].claim = r
        /\ worker'[w].token = worker[w].token
    BY DEF Tick, Inv, TypeInv, WorkerType
  <2>2. Owns(w) /\ r \in Rows /\ row[r] \in RowType
    BY <1>1, <2>1 DEF Holding, Kept, TimeLeft, Owns, Inv, TypeInv
  <2>3. l \in Int /\ LeaseTicks - l < AdapterTicks
    BY <2>2 DEF InTime, RowType, None
  <2>4. l > 1
    BY <2>3, ConstantBounds, TimelyAssumption
  <2>5. row'[r] = Aged(row[r])
    BY <2>2 DEF Tick
  <2>6. Aged(row[r]).leaseIn = l - 1
    <3>1. Earlier(l) = l - 1
      BY <2>3, <2>4 DEF Earlier
    <3> QED BY <2>2, <3>1 DEF Aged, RowType
  <2>7. row'[r].status = row[r].status /\ row'[r].token = row[r].token
    BY <2>2, <2>5, AgedRow
  <2>8. row'[r].leaseIn >= 1
    BY <2>3, <2>4, <2>5, <2>6
  <2> QED BY <2>1, <2>2, <2>7, <2>8 DEF TimeLeft, Owns
<1> QED BY <1>1 DEF Kept

LEMMA TimelyNextKeeps == Inv /\ Kept /\ [TimelyNext]_vars => Kept'
<1> SUFFICES ASSUME Inv, Kept, [TimelyNext]_vars PROVE Kept'
  OBVIOUS
<1>1. ASSUME NEW v \in Workers, WorkerStep(v) \/ Crash(v) PROVE Kept'
  <2>1. Start(v) \/ RecoverInLoop(v) \/ FindNothing(v) \/ Crash(v) => Kept'
    BY FreeStep DEF Start, RecoverInLoop, FindNothing, Crash
  <2> QED BY <1>1, <2>1, ClaimKeeps, DeliverKeeps, CompleteKeeps DEF WorkerStep
<1>2. ASSUME NEW d \in Destinations,
             SetEnabled(d) \/ \E k \in Ranks : SetMinimumSeverity(d, k)
      PROVE  Kept'
  BY <1>2, HoldersUntouched DEF SetEnabled, SetMinimumSeverity, SameHeldRow
<1>3. CASE RecoverCommand
  BY <1>3, RecoveryUntouched, HoldersUntouched DEF RecoverCommand
<1>4. CASE UNCHANGED vars
  BY <1>4, HoldersUntouched DEF vars, SameHeldRow
<1> QED
  BY <1>1, <1>2, <1>3, <1>4, CreateKeeps, RequeueKeeps, TickKeeps DEF TimelyNext, Untimed

\* With adapter_timeout_seconds below lease_seconds, a worker that is not
\* suspended still owns its row whenever it sends and whenever it completes,
\* so no result is dropped and no two live workers send one row at once.
THEOREM LeaseOutlastsAdapter == TimelySpec => []NoLeaseLost
<1>1. Init => Kept
  BY DEF Init, Kept, Holding, Free
<1>2. [TimelyNext]_vars => [Next]_vars
  BY DEF TimelyNext, Next
<1>3. Kept => NoLeaseLost
  BY DEF Kept, NoLeaseLost, TimeLeft
<1> QED BY <1>1, <1>2, <1>3, InitInv, NextInv, TimelyNextKeeps, PTL DEF TimelySpec
=============================================================================
