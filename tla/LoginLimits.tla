---------------------------- MODULE LoginLimits ----------------------------
(***************************************************************************)
(* The process-local limiters (application/login_rate_limit.py and       *)
(* rate_limit.py): the login attempts of all operators, of one operator  *)
(* key, and those whose credential cannot be parsed; and the keyed       *)
(* limiter of agents, bot users and security log lines, of which one key *)
(* is modelled.  Requests are served by a pool of threads: a thread      *)
(* reads the clock, then waits for the lock, so the limiter sees the     *)
(* times of its requests out of order.                                   *)
(*                                                                       *)
(* A window is the sequence of the times admitted in it, as they came.   *)
(***************************************************************************)
EXTENDS Integers, FiniteSets, Sequences

CONSTANTS
  Limit,            \* the limit of each kind of bucket: "global", "malformed",
                    \* "subject", "keyed"
  WindowTicks,      \* its window
  MaxBuckets,       \* subjects counted at once
  Subjects,         \* public ids of operator keys
  CredentialMixes,  \* bound: the sets of credentials that arrive together
  LimitThreads,
  MaxLag,           \* bound: ticks a thread waits for the lock
  LimitTime         \* bound: ticks

\* A login with the key of a subject, one that cannot be parsed, or a request
\* of the keyed limiter.
Credentials == Subjects \cup {"malformed", "keyed"}

Shared == {"global", "malformed", "keyed"}

ASSUME LimitAssumption ==
  /\ {Limit, WindowTicks} \subseteq [Shared \cup {"subject"} -> Nat \ {0}]
  /\ IsFiniteSet(Subjects) /\ Subjects \cap (Shared \cup {"none"}) = {}
  /\ CredentialMixes \subseteq SUBSET Credentials
  /\ MaxBuckets \in Nat \ {0} /\ MaxLag \in Nat /\ LimitTime \in Nat

VARIABLES
  limitMix,         \* the credentials that arrive
  limitClock,       \* the monotonic clock
  limitWaiting,     \* thread -> the request it holds and the time it read
  limitWindow,      \* "global", "malformed", "keyed" -> times
  limitSubject,     \* subject with a bucket -> times
  limitAdmitted,    \* bucket -> the requests it let through, oldest first
  limitRefusal      \* the refusal of the request served last, if it was refused

limitVars == <<limitMix, limitClock, limitWaiting, limitWindow, limitSubject, limitAdmitted,
               limitRefusal>>

LimitBuckets == Shared \cup Subjects

KindOf(bucket) == IF bucket \in Subjects THEN "subject" ELSE bucket

NoAttempt == [credential |-> "none", read |-> 0]

NoRefusal == [scope |-> "none", bucket |-> "none", read |-> 0, retry |-> 0]

-----------------------------------------------------------------------------
(* One window. *)

\* Fault: the window starts anew when its oldest request is out of it.
ExpireWhole(times, cutoff) ==
  IF times # <<>> /\ Head(times) <= cutoff THEN <<>> ELSE times

\* Requests leave from the front, up to the first that is still inside: one
\* that read the clock earlier and waited longer stays behind it.
Expire(times, cutoff) ==
  LET inside == {i \in DOMAIN times : times[i] > cutoff}
  IN  IF inside = {} THEN <<>>
      ELSE SubSeq(times, CHOOSE i \in inside : \A j \in inside : i <= j, Len(times))

Inside(bucket, times, time) == Expire(times, time - WindowTicks[KindOf(bucket)])

Full(bucket, times) == Len(times) >= Limit[KindOf(bucket)]

\* The ticks until the oldest request leaves the window, at least one.
Retry(bucket, times, time) ==
  LET wait == Head(times) + WindowTicks[KindOf(bucket)] - time
  IN  IF wait > 1 THEN wait ELSE 1

\* What is left of a window after a request at time.
Consumed(bucket, times, time) ==
  LET inside == Inside(bucket, times, time)
  IN  IF Full(bucket, inside) THEN inside ELSE Append(inside, time)

Admits(bucket, times, time) == ~Full(bucket, Inside(bucket, times, time))

\* The subjects with an attempt inside their window.
LiveSubjects(time) ==
  LET live == {s \in DOMAIN limitSubject : Inside(s, limitSubject[s], time) # <<>>}
  IN  [s \in live |-> Inside(s, limitSubject[s], time)]

-----------------------------------------------------------------------------
(* Requests. *)

Admit(buckets, time) ==
  limitAdmitted' = [b \in LimitBuckets |->
     IF b \in buckets THEN Append(limitAdmitted[b], [read |-> time, passed |-> limitClock])
                      ELSE limitAdmitted[b]]

Refuse(scope, bucket, time, retry) ==
  limitRefusal' = [scope |-> scope, bucket |-> bucket, read |-> time, retry |-> retry]

LimitEnter(thread) ==
  /\ limitWaiting[thread] = NoAttempt
  /\ \E credential \in limitMix :
       limitWaiting' = [limitWaiting EXCEPT ![thread] =
                          [credential |-> credential, read |-> limitClock]]
  /\ UNCHANGED <<limitMix, limitClock, limitWindow, limitSubject, limitAdmitted, limitRefusal>>

\* A window of its own decides alone.
Decide(bucket, times, time, others) ==
  IF Admits(bucket, times, time)
  THEN Admit(others \cup {bucket}, time) /\ limitRefusal' = NoRefusal
  ELSE Admit(others, time) /\ Refuse(KindOf(bucket), bucket, time,
                                    Retry(bucket, Inside(bucket, times, time), time))

KeyedRequest(time) ==
  /\ limitWindow' = [limitWindow EXCEPT !["keyed"] = Consumed("keyed", @, time)]
  /\ Decide("keyed", limitWindow["keyed"], time, {})
  /\ UNCHANGED limitSubject

RefusedForAll(time) ==
  /\ ~Admits("global", limitWindow["global"], time)
  /\ limitWindow' = [limitWindow EXCEPT !["global"] = Consumed("global", @, time)]
  /\ Decide("global", limitWindow["global"], time, {})
  /\ UNCHANGED limitSubject

MalformedLogin(time) ==
  /\ Admits("global", limitWindow["global"], time)
  /\ limitWindow' = [limitWindow EXCEPT !["global"] = Consumed("global", @, time),
                                        !["malformed"] = Consumed("malformed", @, time)]
  /\ Decide("malformed", limitWindow["malformed"], time, {"global"})
  /\ UNCHANGED limitSubject

\* The buckets of subjects without a recent attempt make room; a subject that
\* finds none is told to wait for a whole window.
SubjectLogin(subject, time) ==
  LET live == LiveSubjects(time)
      times == IF subject \in DOMAIN live THEN live[subject] ELSE <<>>
  IN  /\ Admits("global", limitWindow["global"], time)
      /\ limitWindow' = [limitWindow EXCEPT !["global"] = Consumed("global", @, time)]
      /\ IF subject \notin DOMAIN live /\ Cardinality(DOMAIN live) >= MaxBuckets
         THEN /\ limitSubject' = live
              /\ Admit({"global"}, time)
              /\ Refuse("capacity", subject, time, WindowTicks["subject"])
         ELSE /\ limitSubject' = [s \in DOMAIN live \cup {subject} |->
                                    IF s = subject THEN Consumed(subject, times, time) ELSE live[s]]
              /\ Decide(subject, times, time, {"global"})

\* With the lock held, at the time the thread read before it had it.
LimitServe(thread) ==
  LET request == limitWaiting[thread]
  IN  /\ request # NoAttempt
      /\ limitWaiting' = [limitWaiting EXCEPT ![thread] = NoAttempt]
      /\ CASE request.credential = "keyed" -> KeyedRequest(request.read)
           [] request.credential = "malformed" ->
                RefusedForAll(request.read) \/ MalformedLogin(request.read)
           [] request.credential \in Subjects ->
                RefusedForAll(request.read) \/ SubjectLogin(request.credential, request.read)
      /\ UNCHANGED <<limitMix, limitClock>>

LimitTick ==
  /\ limitClock < LimitTime
  /\ \A thread \in LimitThreads :
       limitWaiting[thread] # NoAttempt => limitClock - limitWaiting[thread].read < MaxLag
  /\ limitClock' = limitClock + 1
  /\ UNCHANGED <<limitMix, limitWaiting, limitWindow, limitSubject, limitAdmitted, limitRefusal>>

-----------------------------------------------------------------------------
LimitsInit ==
  /\ limitMix \in CredentialMixes /\ limitClock = 0
  /\ limitWaiting = [thread \in LimitThreads |-> NoAttempt]
  /\ limitWindow = [kind \in Shared |-> <<>>]
  /\ limitSubject = [s \in {} |-> <<>>]
  /\ limitAdmitted = [b \in LimitBuckets |-> <<>>]
  /\ limitRefusal = NoRefusal

LimitsNext == LimitTick \/ \E thread \in LimitThreads : LimitEnter(thread) \/ LimitServe(thread)

LimitsSpec == LimitsInit /\ [][LimitsNext]_limitVars

-----------------------------------------------------------------------------
RateHeld(b, admitted) ==
  \A i, j \in DOMAIN admitted :
    j = i + Limit[KindOf(b)] =>
      admitted[j].passed - admitted[i].passed >= WindowTicks[KindOf(b)] - MaxLag

\* The requests of a bucket that passed within its window, and the wait,
\* before the time of another.
Recent(b, admitted, time) ==
  {i \in DOMAIN admitted : admitted[i].read > time - WindowTicks[KindOf(b)] - MaxLag}

RefusalDue ==
  LET refusal == limitRefusal
  IN  /\ refusal.scope \notin {"none", "capacity"} =>
           Cardinality(Recent(refusal.bucket, limitAdmitted[refusal.bucket], refusal.read))
             >= Limit[KindOf(refusal.bucket)]
      /\ refusal.scope = "capacity" =>
           Cardinality({s \in Subjects \ {refusal.bucket} :
                          Recent(s, limitAdmitted[s], refusal.read) # {}}) >= MaxBuckets
      /\ refusal.scope # "none" =>
           refusal.retry \in 1 .. WindowTicks[KindOf(refusal.bucket)] + MaxLag

\* However long the threads waited for the lock, no stretch of a window's length,
\* less the longest wait, sees more requests of a bucket pass than its limit; the
\* table of subjects stays within its capacity; and whoever was refused had to
\* be: that many requests of the bucket, or of as many other subjects, passed
\* within the window and the wait before, and waiting for the told time takes the
\* oldest of them out (LoginRateLimiter.consume, FixedWindowRateLimiter.consume).
LimitsHold ==
  /\ \A b \in LimitBuckets : RateHeld(b, limitAdmitted[b])
  /\ Cardinality(DOMAIN limitSubject) <= MaxBuckets
  /\ RefusalDue

-----------------------------------------------------------------------------
(* The inductive invariant *)

LimitsTypeOK ==
  /\ limitMix \in CredentialMixes /\ limitClock \in 0 .. LimitTime
  /\ limitWaiting \in [LimitThreads -> [credential : Credentials \cup {"none"}, read : Nat]]
  /\ limitWindow \in [Shared -> Seq(Nat)]
  /\ DOMAIN limitSubject \subseteq Subjects
  /\ limitSubject \in [DOMAIN limitSubject -> Seq(Nat)]
  /\ limitAdmitted \in [LimitBuckets -> Seq([read : Nat, passed : Nat])]
  /\ limitRefusal \in [scope : Shared \cup {"subject", "capacity", "none"},
                       bucket : LimitBuckets \cup {"none"}, read : Nat, retry : Nat]

\* No thread waits longer than the longest wait.
WaitingSound ==
  \A thread \in LimitThreads :
    LET request == limitWaiting[thread]
    IN  request # NoAttempt =>
          request.credential \in limitMix /\ limitClock \in request.read .. request.read + MaxLag

\* The window of a bucket; a subject without one has an empty window.
TimesOf(b) ==
  IF b \in Shared THEN limitWindow[b]
  ELSE IF b \in DOMAIN limitSubject THEN limitSubject[b] ELSE <<>>

\* The requests passed in the order of the lock, after they read the clock.
InOrder(admitted, clock) ==
  /\ \A i \in DOMAIN admitted :
       /\ admitted[i].read <= admitted[i].passed
       /\ admitted[i].passed <= admitted[i].read + MaxLag
       /\ admitted[i].passed <= clock
  /\ \A i, j \in DOMAIN admitted : i <= j => admitted[i].passed <= admitted[j].passed

\* A window holds the last requests that passed: those before are out of it.
Follows(b, admitted, times, clock) ==
  /\ Len(times) <= Len(admitted)
  /\ \A k \in 1 .. Len(times) : times[k] = admitted[Len(admitted) - Len(times) + k].read
  /\ \A i \in 1 .. Len(admitted) - Len(times) : admitted[i].read <= clock - WindowTicks[KindOf(b)]

BucketSound(b, admitted, times, clock) ==
  /\ InOrder(admitted, clock) /\ RateHeld(b, admitted)
  /\ Follows(b, admitted, times, clock) /\ Len(times) <= Limit[KindOf(b)]

LimitsInvariant ==
  /\ LimitsTypeOK /\ WaitingSound /\ LimitsHold
  /\ \A b \in LimitBuckets : BucketSound(b, limitAdmitted[b], TimesOf(b), limitClock)
=============================================================================
