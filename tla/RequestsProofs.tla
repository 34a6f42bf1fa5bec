---------------------------- MODULE RequestsProofs ----------------------------
(***************************************************************************)
(* What is proved of one command of the demo driver (CommandRunner), of    *)
(* the request limiters (LoginLimits) and of the paged lists               *)
(* (KeysetPages), for any limits, threads, page sizes and bounds.          *)
(***************************************************************************)
EXTENDS CommandRunner, LoginLimits, KeysetPages, SequenceTheorems, FiniteSetTheorems, WellFoundedInduction, TLAPS

-----------------------------------------------------------------------------
(* The processes and the threads *)

\* A step that only the processes take: the supervisor, the threads and the
\* file stay where they are.
LEMMA ProcessStep ==
  ASSUME CommandInvariant, ProcessPrints \/ LeaderStartsOther \/ LeaderExits \/ OtherExits
  PROVE  CommandInvariant'
<1>1. /\ UNCHANGED <<cmdCase, cmdPhase, cmdThen, cmdShutdown, cmdFailure, cmdFile>>
      /\ UNCHANGED <<cmdCaptured, cmdDrain, cmdFeed>>
      /\ CommandTypeOK
  BY DEF ProcessPrints, LeaderStartsOther, LeaderExits, OtherExits, threadVars, CommandInvariant
<1>2. CommandTypeOK'
  BY <1>1, CommandAssumption DEF CommandAssumption, CommandTypeOK, ProcessPrints, LeaderStartsOther,
     LeaderExits, OtherExits
<1>3. /\ cmdLeader' = cmdLeader \/ (cmdLeader = "running" /\ cmdLeader' = "gone")
      /\ cmdLeader # "running" => cmdCode' = cmdCode
      /\ cmdOther' = cmdOther \/ (cmdLeader = "running" /\ cmdLeader' = cmdLeader) \/ cmdOther' = "gone"
      /\ cmdLeader = "none" => cmdOther' = cmdOther \/ cmdOther # "none"
      /\ ~PipeOpen => cmdPrinted' = cmdPrinted
  BY <1>1 DEF ProcessPrints, LeaderStartsOther, LeaderExits, OtherExits, CommandTypeOK
<1>4. BeforeLaunch' /\ SupervisorSound' /\ Succeeded' /\ FileSound'
  BY <1>1, <1>3 DEF CommandInvariant, CommandTypeOK, BeforeLaunch, SupervisorSound, Succeeded, FileSound,
     ThreadsDone
<1>5. Drained'
  BY <1>1, <1>3 DEF CommandInvariant, CommandTypeOK, Drained, PipeOpen
<1>6. CommandOutcome'
  BY <1>1, <1>3 DEF CommandInvariant, CommandTypeOK, Drained, Succeeded, CommandOutcome, PipeOpen
<1> QED BY <1>2, <1>4, <1>5, <1>6 DEF CommandInvariant

LEMMA ShutdownStep ==
  ASSUME CommandInvariant, ShutdownRequested
  PROVE  CommandInvariant'
<1>1. /\ UNCHANGED <<cmdCase, cmdPhase, cmdThen, cmdLeader, cmdOther, cmdCode, cmdPrinted>>
      /\ UNCHANGED <<cmdCaptured, cmdDrain, cmdFeed, cmdFailure, cmdFile>>
      /\ cmdShutdown' = TRUE
  BY DEF ShutdownRequested, processVars, threadVars
<1> QED BY <1>1 DEF CommandInvariant, CommandTypeOK, BeforeLaunch, Drained, SupervisorSound, Succeeded,
     FileSound, CommandOutcome, ThreadsDone, PipeOpen

\* The stream counts as ended only when it is empty and nobody has its end.
LEMMA ThreadStep ==
  ASSUME CommandInvariant, Drain \/ Feed
  PROVE  CommandInvariant'
<1>1. /\ UNCHANGED <<cmdCase, cmdPhase, cmdThen, cmdLeader, cmdOther, cmdCode, cmdPrinted>>
      /\ UNCHANGED <<cmdShutdown, cmdFailure, cmdFile>>
      /\ cmdPhase \notin {"new", "done"} /\ cmdLeader # "none" /\ CommandTypeOK
  BY DEF Drain, Feed, Threads, processVars, CommandInvariant
<1>2. CommandTypeOK'
  BY <1>1, CommandAssumption DEF CommandAssumption, CommandTypeOK, Drain, Feed
<1>3. /\ cmdDrain' = cmdDrain \/ (cmdDrain = "reading" /\ cmdDrain' # "reading")
      /\ cmdFeed' = cmdFeed \/ cmdFeed' = "ended"
      /\ cmdDrain' = "ended" => cmdDrain = "ended" \/ (cmdCaptured = cmdPrinted /\ ~PipeOpen)
      /\ cmdDrain # "reading" \/ cmdDrain' = "ended" => cmdCaptured' = cmdCaptured
  <2>1. CASE Feed
    BY <2>1 DEF Feed
  <2>2. CASE Drain
    BY <2>2 DEF Drain
  <2> QED BY <2>1, <2>2
<1>4. BeforeLaunch' /\ SupervisorSound' /\ Succeeded' /\ FileSound'
  BY <1>1, <1>3 DEF CommandInvariant, BeforeLaunch, SupervisorSound, Succeeded, FileSound, ThreadsDone
<1>5. Drained'
  BY <1>1, <1>3 DEF CommandInvariant, Drained, PipeOpen
<1>6. CommandOutcome'
  BY <1>1 DEF CommandOutcome
<1> QED BY <1>2, <1>4, <1>5, <1>6 DEF CommandInvariant

-----------------------------------------------------------------------------
(* The supervisor *)

LEMMA LaunchStep ==
  ASSUME CommandInvariant, Launch
  PROVE  CommandInvariant'
<1>1. /\ UNCHANGED <<cmdCase, cmdShutdown, cmdOther, cmdCode, cmdPrinted, cmdCaptured, cmdDrain, cmdFeed>>
      /\ cmdThen' = "done" /\ cmdPhase = "new" /\ CommandTypeOK
      /\ cmdLeader = "none" /\ cmdOther = "none" /\ cmdDrain = "reading" /\ cmdFile = "none"
  BY DEF Launch, Goes, processVars, threadVars, CommandInvariant, BeforeLaunch
<1>2. \/ /\ cmdPhase' = "done" /\ cmdFailure' = "shutdown"
         /\ cmdLeader' = "none" /\ cmdFile' = "none"
      \/ /\ cmdFile' = IF cmdCase.to_file THEN "open" ELSE "none"
         /\ \/ cmdPhase' = "watch" /\ cmdFailure' = "none" /\ cmdLeader' = "running"
            \/ cmdPhase' = "final" /\ cmdFailure' = "start" /\ cmdLeader' = "none"
  BY <1>1 DEF Launch, Goes, processVars
<1>3. CommandTypeOK'
  BY <1>1, <1>2 DEF CommandTypeOK
<1> QED BY <1>1, <1>2, <1>3 DEF CommandInvariant, BeforeLaunch, Drained, SupervisorSound, Succeeded,
     FileSound, CommandOutcome, ThreadsDone

\* A step of the supervisor that leaves the processes, the threads and the
\* file alone and goes where it may.
LEMMA SupervisorMoves ==
  ASSUME CommandInvariant, cmdPhase \notin {"new", "done"}, UNCHANGED <<cmdCase, cmdShutdown, cmdFile>>,
         UNCHANGED <<cmdPrinted, cmdCaptured, cmdDrain, cmdFeed>>,
         CommandTypeOK', cmdPhase' \notin {"new", "done"},
         cmdLeader' # "running" \/ cmdLeader' = cmdLeader,
         cmdLeader' = "none" <=> cmdLeader = "none",
         cmdOther' = cmdOther \/ (cmdOther # "none" /\ cmdOther' = "gone"),
         SupervisorSound', Succeeded'
  PROVE  CommandInvariant'
<1>1. BeforeLaunch' /\ FileSound' /\ CommandOutcome'
  BY DEF CommandInvariant, BeforeLaunch, FileSound, CommandOutcome
<1>2. Drained'
  BY DEF CommandInvariant, Drained, PipeOpen
<1> QED BY <1>1, <1>2 DEF CommandInvariant

LEMMA WatchStep ==
  ASSUME CommandInvariant, Watch
  PROVE  CommandInvariant'
<1>1. /\ UNCHANGED <<cmdCase, cmdShutdown, cmdLeader, cmdOther, cmdCode, cmdPrinted, cmdCaptured>>
      /\ UNCHANGED <<cmdDrain, cmdFeed, cmdFile>> /\ cmdPhase = "watch" /\ cmdLeader # "none"
      /\ CommandTypeOK
  BY DEF Watch, Goes, processVars, threadVars, CommandInvariant, SupervisorSound
<1>2. \/ cmdPhase' = "join" /\ cmdThen' = "done" /\ cmdFailure' = "none" /\ cmdLeader = "gone"
      \/ /\ cmdPhase' = "term" /\ cmdThen' = "join"
         /\ cmdFailure' \in {"overflow", "stream", "shutdown", "timeout"}
  BY DEF Watch, Goes
<1>3. CommandTypeOK'
  BY <1>1, <1>2 DEF CommandTypeOK
<1>4. SupervisorSound' /\ Succeeded'
  BY <1>1, <1>2 DEF SupervisorSound, Succeeded
<1> QED BY <1>1, <1>2, <1>3, <1>4, SupervisorMoves

\* Whoever receives the signal is gone; nobody starts.
LEMMA TerminateStep ==
  ASSUME CommandInvariant, Terminate
  PROVE  CommandInvariant'
<1>1. /\ UNCHANGED <<cmdCase, cmdShutdown, cmdPrinted, cmdCaptured, cmdDrain, cmdFeed, cmdFile>>
      /\ cmdPhase = "term" /\ cmdPhase' = "kill" /\ cmdThen' = cmdThen /\ cmdFailure' = cmdFailure
      /\ cmdLeader # "none" /\ cmdFailure # "none" /\ cmdThen \in {"join", "final", "close"}
      /\ CommandTypeOK
  BY DEF Terminate, Goes, threadVars, CommandInvariant, SupervisorSound
<1>2. /\ cmdLeader' = cmdLeader \/ cmdLeader' = "gone"
      /\ cmdCode' = cmdCode \/ cmdCode' = 1
      /\ cmdOther' = cmdOther \/ (cmdOther # "none" /\ cmdOther' = "gone")
  BY DEF Terminate, Killed
<1>3. CommandTypeOK'
  BY <1>1, <1>2 DEF CommandTypeOK
<1>4. SupervisorSound' /\ Succeeded'
  BY <1>1, <1>2 DEF SupervisorSound, Succeeded
<1> QED BY <1>1, <1>2, <1>3, <1>4, SupervisorMoves

\* The supervisor goes on with the leader gone, or gives up on it.
LEMMA KillStep ==
  ASSUME CommandInvariant, Kill
  PROVE  CommandInvariant'
<1>1. /\ UNCHANGED <<cmdCase, cmdShutdown, cmdPrinted, cmdCaptured, cmdDrain, cmdFeed, cmdFile>>
      /\ cmdPhase = "kill" /\ cmdThen' = "done"
      /\ cmdLeader # "none" /\ cmdFailure # "none" /\ cmdThen \in {"join", "final", "close"}
      /\ CommandTypeOK
  BY DEF Kill, Goes, threadVars, CommandInvariant, SupervisorSound
<1>2. /\ cmdOther' = cmdOther \/ (cmdOther # "none" /\ cmdOther' = "gone")
      /\ cmdCode' = cmdCode \/ cmdCode' = 1
      /\ \/ cmdPhase' \in {"done", "final"} /\ cmdFailure' = "unterminated" /\ cmdLeader' = cmdLeader
         \/ cmdPhase' = cmdThen /\ cmdFailure' = cmdFailure /\ cmdLeader' = "gone"
  BY <1>1 DEF Kill, Goes, Killed, NeedsKill, CommandTypeOK
<1>3. CommandTypeOK'
  BY <1>1, <1>2 DEF CommandTypeOK
<1>4. SupervisorSound' /\ Succeeded'
  BY <1>1, <1>2 DEF SupervisorSound, Succeeded
<1>5. CASE cmdPhase' = "done"
  <2>1. cmdFailure' = "unterminated"
    BY <1>1, <1>2, <1>5
  <2>2. BeforeLaunch' /\ FileSound' /\ CommandOutcome'
    BY <1>1, <1>2, <1>5, <2>1 DEF CommandInvariant, BeforeLaunch, FileSound, CommandOutcome
  <2>3. Drained'
    BY <1>1, <1>2 DEF CommandInvariant, Drained, PipeOpen
  <2> QED BY <1>3, <1>4, <2>2, <2>3 DEF CommandInvariant
<1>6. CASE cmdPhase' # "done"
  BY <1>1, <1>2, <1>3, <1>4, <1>6, SupervisorMoves
<1> QED BY <1>5, <1>6

LEMMA JoinStep ==
  ASSUME CommandInvariant, Join
  PROVE  CommandInvariant'
<1>1. /\ UNCHANGED <<cmdCase, cmdShutdown, cmdLeader, cmdOther, cmdCode, cmdPrinted, cmdCaptured>>
      /\ UNCHANGED <<cmdDrain, cmdFeed, cmdFile>> /\ cmdPhase = "join" /\ cmdLeader = "gone"
      /\ CommandTypeOK
  BY DEF Join, Goes, processVars, threadVars, CommandInvariant, SupervisorSound
<1>2. \/ cmdPhase' = "check" /\ cmdThen' = "done" /\ cmdFailure' = cmdFailure /\ ThreadsDone
      \/ cmdPhase' = "term" /\ cmdThen' = "final" /\ cmdFailure' = "threads"
  BY DEF Join, Goes
<1>3. CommandTypeOK'
  BY <1>1, <1>2 DEF CommandTypeOK
<1>4. SupervisorSound' /\ Succeeded'
  BY <1>1, <1>2 DEF SupervisorSound, Succeeded, ThreadsDone
<1> QED BY <1>1, <1>2, <1>3, <1>4, SupervisorMoves

\* A command that neither was terminated nor is refused for its output or its
\* code has its stream drained to the end.
LEMMA CheckStep ==
  ASSUME CommandInvariant, Check
  PROVE  CommandInvariant'
<1>1. /\ UNCHANGED <<cmdCase, cmdShutdown, cmdLeader, cmdCode, cmdPrinted, cmdCaptured>>
      /\ UNCHANGED <<cmdDrain, cmdFeed, cmdFile>>
      /\ cmdPhase = "check" /\ cmdPhase' = "final" /\ cmdThen' = "done"
      /\ cmdLeader = "gone" /\ ThreadsDone /\ CommandTypeOK
  BY DEF Check, Goes, threadVars, CommandInvariant, SupervisorSound
<1>2. cmdOther' = cmdOther \/ (cmdOther # "none" /\ cmdOther' = "gone")
  BY DEF Check, Killed
<1>3. \/ cmdFailure' = cmdFailure /\ cmdFailure # "none"
      \/ cmdFailure' = "flush"
      \/ cmdFailure' = Verdict
  BY DEF Check, Goes
<1>4. /\ Verdict \in {"none", "overflow", "stream", "code"}
      /\ Verdict = "none" => cmdDrain = "ended" /\ (cmdCase.check => cmdCode = 0)
  BY <1>1 DEF Verdict, ThreadsDone, CommandTypeOK
<1>5. CommandTypeOK'
  BY <1>1, <1>2, <1>3, <1>4 DEF CommandTypeOK
<1>6. SupervisorSound' /\ Succeeded'
  BY <1>1, <1>2, <1>3, <1>4 DEF SupervisorSound, Succeeded
<1> QED BY <1>1, <1>2, <1>5, <1>6, SupervisorMoves

LEMMA FinallyStep ==
  ASSUME CommandInvariant, Finally
  PROVE  CommandInvariant'
<1>1. /\ UNCHANGED <<cmdCase, cmdShutdown, cmdLeader, cmdOther, cmdCode, cmdPrinted, cmdCaptured>>
      /\ UNCHANGED <<cmdDrain, cmdFeed, cmdFile>> /\ cmdPhase = "final" /\ cmdFailure' = cmdFailure
      /\ CommandTypeOK /\ Succeeded
  BY DEF Finally, Goes, processVars, threadVars, CommandInvariant
<1>2. \/ cmdPhase' = "term" /\ cmdThen' = "close" /\ cmdLeader = "running"
      \/ cmdPhase' = "close" /\ cmdThen' = "done" /\ cmdLeader # "running"
  BY DEF Finally, Goes
<1>3. CommandTypeOK'
  BY <1>1, <1>2 DEF CommandTypeOK
<1>4. SupervisorSound' /\ Succeeded'
  BY <1>1, <1>2 DEF SupervisorSound, Succeeded
<1> QED BY <1>1, <1>2, <1>3, <1>4, SupervisorMoves

\* The only way out but for a process that cannot be killed.
LEMMA CloseStep ==
  ASSUME CommandInvariant, Close
  PROVE  CommandInvariant'
<1>1. /\ UNCHANGED <<cmdCase, cmdShutdown, cmdLeader, cmdCode, cmdPrinted, cmdCaptured, cmdDrain, cmdFeed>>
      /\ cmdPhase = "close" /\ cmdPhase' = "done" /\ cmdThen' = "done" /\ cmdFailure' = cmdFailure
      /\ cmdLeader # "running" /\ CommandTypeOK
  BY DEF Close, Goes, threadVars, CommandInvariant, SupervisorSound
<1>2. /\ cmdOther' = cmdOther \/ (cmdOther # "none" /\ cmdOther' = "gone")
      /\ cmdCase.windows => cmdOther' # "running"
  BY DEF Close, Killed
<1>3. cmdFile' = IF ~cmdCase.to_file THEN "none" ELSE IF cmdFailure = "none" THEN "kept" ELSE "removed"
  BY <1>1 DEF Close, CommandInvariant, FileSound
<1>4. CommandTypeOK'
  BY <1>1, <1>2, <1>3 DEF CommandTypeOK
<1>5. Drained'
  BY <1>1, <1>2 DEF CommandInvariant, Drained, PipeOpen
<1>6. BeforeLaunch' /\ SupervisorSound' /\ Succeeded' /\ FileSound'
  BY <1>1, <1>2, <1>3 DEF CommandInvariant, BeforeLaunch, SupervisorSound, Succeeded, FileSound
<1>7. CommandOutcome'
  <2>1. cmdCaptured <= OutputLimit
    BY <1>1, CommandAssumption DEF CommandAssumption, CommandTypeOK
  <2> QED BY <1>1, <1>2, <1>3, <2>1 DEF CommandInvariant, Succeeded, Drained, CommandOutcome
<1> QED BY <1>4, <1>5, <1>6, <1>7 DEF CommandInvariant

-----------------------------------------------------------------------------
(* The specification *)

LEMMA CommandInitStep ==
  ASSUME CommandInit
  PROVE  CommandInvariant
<1>1. CommandTypeOK
  <2>1. 0 \in 0 .. MaxChunks /\ 0 \in 0 .. OutputLimit
    BY CommandAssumption DEF CommandAssumption
  <2> QED BY <2>1 DEF CommandInit, CommandTypeOK
<1> QED BY <1>1 DEF CommandInit, CommandInvariant, BeforeLaunch, Drained, SupervisorSound, Succeeded,
     FileSound, CommandOutcome

\* The inductive invariant of a command holds in every reachable state.
THEOREM CommandInvariantHolds == CommandSpec => []CommandInvariant
<1>1. CommandInit => CommandInvariant
  BY CommandInitStep
<1>2. CommandInvariant /\ [CommandNext]_cmdVars => CommandInvariant'
  <2> SUFFICES ASSUME CommandInvariant, [CommandNext]_cmdVars
               PROVE  CommandInvariant'
    OBVIOUS
  <2>1. CASE UNCHANGED cmdVars
    BY <2>1 DEF cmdVars, CommandInvariant, CommandTypeOK, BeforeLaunch, Drained, SupervisorSound, Succeeded,
       FileSound, CommandOutcome, ThreadsDone, PipeOpen
  <2> QED BY <2>1, ProcessStep, ShutdownStep, ThreadStep, LaunchStep, WatchStep, TerminateStep, KillStep,
     JoinStep, CheckStep, FinallyStep, CloseStep DEF CommandNext
<1> QED BY <1>1, <1>2, PTL DEF CommandSpec

\* The state of a command has its type: no more is captured than the limit.
THEOREM CommandTypeCorrect == CommandSpec => []CommandTypeOK
<1>1. CommandInvariant => CommandTypeOK
  BY DEF CommandInvariant
<1> QED BY <1>1, CommandInvariantHolds, PTL

\* A command that returns ended by itself with its output complete; one that
\* raises leaves neither its process nor a partial file, but for a process
\* that could not be killed (CommandRunner._execute, _communicate_bounded).
THEOREM CommandEndsClean == CommandSpec => []CommandOutcome
<1>1. CommandInvariant => CommandOutcome
  BY DEF CommandInvariant
<1> QED BY <1>1, CommandInvariantHolds, PTL

-----------------------------------------------------------------------------
(* Limiters: one window *)

LEMMA LimitParameters ==
  /\ \A b \in LimitBuckets : /\ Limit[KindOf(b)] \in Nat /\ Limit[KindOf(b)] > 0
                             /\ WindowTicks[KindOf(b)] \in Nat /\ WindowTicks[KindOf(b)] > 0
  /\ MaxBuckets \in Nat /\ MaxBuckets > 0 /\ MaxLag \in Nat /\ LimitTime \in Nat
  /\ IsFiniteSet(Subjects)
<1>1. \A b \in LimitBuckets : KindOf(b) \in Shared \cup {"subject"}
  BY DEF LimitBuckets, KindOf
<1>2. \A kind \in Shared \cup {"subject"} : Limit[kind] \in Nat \ {0} /\ WindowTicks[kind] \in Nat \ {0}
  BY LimitAssumption DEF LimitAssumption
<1> QED BY <1>1, <1>2, LimitAssumption DEF LimitAssumption

\* The natural numbers are well-founded: a set of them has a least one.
LEMMA LeastNatural ==
  ASSUME NEW S, S \subseteq Nat, S # {}
  PROVE  \E m \in S : \A k \in S : m <= k
<1> DEFINE less == OpToRel(<, Nat)
<1>1. IsWellFoundedOn(less, Nat)
  BY NatLessThanWellFounded, Zenon
<1>2. \A x, y \in Nat : x < y => <<x, y>> \in less
  BY Zenon DEF OpToRel
<1> HIDE DEF less
<1>3. PICK m \in S : \A k \in S : <<k, m>> \notin less
  BY <1>1, WFMin, Zenon
<1>4. ASSUME NEW k \in S
      PROVE  m <= k
  <2>1. ~(k < m)
    BY <1>2, <1>3
  <2> QED BY <2>1
<1> QED BY <1>4

\* The interval of a number of integers.
LEMMA IntervalSize ==
  ASSUME NEW m \in Int, NEW n \in Nat, n > 0
  PROVE  Cardinality(m + 1 .. m + n) = n
<1>1. PICK lo, hi : lo = m + 1 /\ hi = m + n
  OBVIOUS
<1>2. lo \in Int /\ hi \in Int /\ ~(lo > hi) /\ hi - lo + 1 = n
  BY <1>1
<1>3. Cardinality(lo .. hi) = hi - lo + 1
  BY <1>2, FS_Interval
<1> QED BY <1>1, <1>2, <1>3

Entries == [read : Nat, passed : Nat]

\* Expiry drops the requests up to the first that is inside.
LEMMA ExpireDrops ==
  ASSUME NEW w \in Seq(Nat), NEW cutoff \in Int
  PROVE  /\ Expire(w, cutoff) \in Seq(Nat)
         /\ \E n \in 0 .. Len(w) :
              /\ Len(Expire(w, cutoff)) = Len(w) - n
              /\ \A k \in 1 .. Len(w) - n : Expire(w, cutoff)[k] = w[n + k]
              /\ \A i \in 1 .. n : w[i] <= cutoff
              /\ n < Len(w) => w[n + 1] > cutoff
<1> DEFINE inside == {i \in DOMAIN w : w[i] > cutoff}
<1>1. DOMAIN w = 1 .. Len(w) /\ Len(w) \in Nat /\ \A i \in 1 .. Len(w) : w[i] \in Nat
  OBVIOUS
<1>2. CASE inside = {}
  <2>1. Expire(w, cutoff) = <<>>
    BY <1>2 DEF Expire
  <2>2. \A i \in 1 .. Len(w) : w[i] <= cutoff
    BY <1>1, <1>2
  <2>3. /\ Len(w) \in 0 .. Len(w) /\ Len(Expire(w, cutoff)) = Len(w) - Len(w)
        /\ Expire(w, cutoff) \in Seq(Nat)
        /\ \A k \in 1 .. Len(w) - Len(w) : Expire(w, cutoff)[k] = w[Len(w) + k]
    BY <1>1, <2>1
  <2> QED BY <2>2, <2>3
<1>3. CASE inside # {}
  <2>1. PICK m : m = CHOOSE i \in inside : \A j \in inside : i <= j
    OBVIOUS
  <2>2. Expire(w, cutoff) = SubSeq(w, m, Len(w))
    BY <1>3, <2>1 DEF Expire
  <2>3. inside \subseteq Nat
    BY <1>1
  <2>4. \E i \in inside : \A j \in inside : i <= j
    BY <1>3, <2>3, LeastNatural
  <2>5. m \in inside /\ \A j \in inside : m <= j
    BY <2>1, <2>4
  <2>6. m \in 1 .. Len(w) /\ w[m] > cutoff
    BY <1>1, <2>5
  <2>7. ASSUME NEW i \in 1 .. m - 1
        PROVE  w[i] <= cutoff
    <3>1. i \in 1 .. Len(w) /\ ~(m <= i)
      BY <1>1, <2>6
    <3>2. i \notin inside /\ w[i] \in Nat
      BY <1>1, <2>5, <3>1
    <3> QED BY <1>1, <3>1, <3>2
  <2>8. /\ SubSeq(w, m, Len(w)) \in Seq(Nat) /\ Len(SubSeq(w, m, Len(w))) = Len(w) - m + 1
        /\ \A k \in 1 .. Len(w) - m + 1 : SubSeq(w, m, Len(w))[k] = w[m + k - 1]
    <3>1. m \in Int /\ Len(w) \in Int /\ m <= Len(w) /\ \A i \in m .. Len(w) : w[i] \in Nat
      BY <1>1, <2>6
    <3> QED BY <3>1, SubSeqProperties
  <2>9. /\ m - 1 \in 0 .. Len(w)
        /\ Len(w) - (m - 1) = Len(w) - m + 1
        /\ \A k \in 1 .. Len(w) - m + 1 : (m - 1) + k = m + k - 1
    BY <1>1, <2>6
  <2>10. /\ Len(Expire(w, cutoff)) = Len(w) - (m - 1)
         /\ \A k \in 1 .. Len(w) - (m - 1) : Expire(w, cutoff)[k] = w[(m - 1) + k]
         /\ w[(m - 1) + 1] > cutoff
    BY <1>1, <2>2, <2>6, <2>8, <2>9
  <2> QED BY <2>2, <2>7, <2>8, <2>9, <2>10
<1> QED BY <1>2, <1>3

\* Time alone does not unsettle a bucket.
LEMMA BucketLater ==
  ASSUME NEW b \in LimitBuckets, NEW a \in Seq(Entries), NEW w \in Seq(Nat), NEW c \in Nat, NEW d \in Nat,
         c <= d, BucketSound(b, a, w, c)
  PROVE  BucketSound(b, a, w, d)
<1>1. /\ \A i \in DOMAIN a : a[i].read \in Nat /\ a[i].passed \in Nat
      /\ WindowTicks[KindOf(b)] \in Nat
  <2>1. \A i \in DOMAIN a : a[i] \in Entries
    OBVIOUS
  <2> QED BY <2>1, LimitParameters DEF Entries
<1>2. \A i \in 1 .. Len(a) - Len(w) : i \in DOMAIN a
  OBVIOUS
<1>3. Follows(b, a, w, d)
  BY <1>1, <1>2 DEF BucketSound, Follows
<1>4. InOrder(a, d)
  BY <1>1 DEF BucketSound, InOrder
<1> QED BY <1>3, <1>4 DEF BucketSound

\* What leaves a window at a time has been out of it since then.
LEMMA BucketExpired ==
  ASSUME NEW b \in LimitBuckets, NEW a \in Seq(Entries), NEW w \in Seq(Nat), NEW c \in Nat, NEW time \in Nat,
         time <= c, BucketSound(b, a, w, c)
  PROVE  /\ Inside(b, w, time) \in Seq(Nat)
         /\ BucketSound(b, a, Inside(b, w, time), c)
         /\ Inside(b, w, time) # <<>> => Head(Inside(b, w, time)) > time - WindowTicks[KindOf(b)]
<1> DEFINE cutoff == time - WindowTicks[KindOf(b)]
<1>1. WindowTicks[KindOf(b)] \in Nat /\ Limit[KindOf(b)] \in Nat /\ cutoff \in Int /\ Len(a) \in Nat /\ Len(w) \in Nat
  BY LimitParameters
<1> HIDE DEF cutoff
<1>2. PICK e : e = Inside(b, w, time)
  OBVIOUS
<1>3. e = Expire(w, cutoff)
  BY <1>2 DEF Inside, cutoff
<1>4. PICK n \in 0 .. Len(w) :
        /\ Len(e) = Len(w) - n
        /\ \A k \in 1 .. Len(w) - n : e[k] = w[n + k]
        /\ \A i \in 1 .. n : w[i] <= cutoff
        /\ n < Len(w) => w[n + 1] > cutoff
  BY <1>1, <1>3, ExpireDrops
<1>5. /\ e \in Seq(Nat) /\ DOMAIN e = 1 .. Len(e) /\ n \in Nat /\ n <= Len(w)
      /\ \A i \in 1 .. Len(w) : w[i] \in Nat
  <2>1. e \in Seq(Nat)
    BY <1>1, <1>3, ExpireDrops
  <2>2. DOMAIN e = 1 .. Len(e) /\ \A i \in 1 .. Len(w) : w[i] \in Nat
    BY <2>1
  <2> QED BY <1>1, <2>1, <2>2
<1>6. PICK gone : gone = Len(a) - Len(w)
  OBVIOUS
<1>7. /\ gone \in Nat
      /\ \A k \in 1 .. Len(w) : w[k] = a[gone + k].read
      /\ \A i \in 1 .. gone : a[i].read <= c - WindowTicks[KindOf(b)]
  BY <1>1, <1>6 DEF BucketSound, Follows
<1>8. cutoff <= c - WindowTicks[KindOf(b)]
  BY <1>1 DEF cutoff
<1>9. Follows(b, a, e, c)
  <2>1. Len(a) - Len(e) = gone + n
    BY <1>1, <1>4, <1>6
  <2>2. ASSUME NEW k \in DOMAIN e
        PROVE  e[k] = a[gone + n + k].read
    <3>1. k \in 1 .. Len(w) - n
      BY <1>1, <1>4, <1>5
    <3>2. e[k] = w[n + k] /\ n + k \in 1 .. Len(w)
      <4>1. e[k] = w[n + k]
        BY <1>4, <3>1
      <4>2. Len(w) \in Nat /\ n \in Nat
        BY <1>1, <1>5
      <4>3. n + k \in 1 .. Len(w)
        BY <3>1, <4>2
      <4> QED BY <4>1, <4>3
    <3>3. w[n + k] = a[gone + (n + k)].read
      BY <1>7, <3>2
    <3>4. gone + (n + k) = gone + n + k
      BY <1>1, <1>7, <3>1
    <3> QED BY <3>2, <3>3, <3>4
  <2>3. ASSUME NEW i \in 1 .. gone + n
        PROVE  a[i].read <= c - WindowTicks[KindOf(b)]
    <3>1. CASE i <= gone
      <4>1. i \in 1 .. gone
        BY <1>7, <3>1
      <4> QED BY <1>7, <4>1
    <3>2. CASE i > gone
      <4>1. i - gone \in 1 .. n /\ i - gone \in 1 .. Len(w) /\ gone + (i - gone) = i
        BY <1>1, <1>4, <1>7, <3>2
      <4>2. w[i - gone] = a[i].read /\ w[i - gone] <= cutoff /\ w[i - gone] \in Nat
        BY <1>4, <1>5, <1>7, <4>1
      <4> QED BY <1>1, <1>8, <4>2
    <3> QED BY <1>1, <1>7, <3>1, <3>2
  <2>4. gone + n >= 0
    BY <1>7
  <2> QED BY <2>1, <2>2, <2>3, <2>4 DEF Follows
<1>10. Len(e) <= Limit[KindOf(b)]
  BY <1>1, <1>4 DEF BucketSound
<1>11. BucketSound(b, a, e, c)
  BY <1>9, <1>10 DEF BucketSound
<1>12. ASSUME e # <<>>
       PROVE  Head(e) > cutoff
  <2>1. Len(e) > 0 /\ Head(e) = e[1]
    BY <1>5, <1>12
  <2>2. n < Len(w) /\ e[1] = w[n + 1]
    BY <1>1, <1>4, <1>5, <2>1
  <2> QED BY <1>4, <2>1, <2>2
<1> QED BY <1>2, <1>5, <1>11, <1>12 DEF cutoff

\* A window that is not full takes the request: the one that comes a limit's
\* number before it is out of the window by then.
LEMMA BucketAdmits ==
  ASSUME NEW b \in LimitBuckets, NEW a \in Seq(Entries), NEW w \in Seq(Nat), NEW c \in Nat, NEW time \in Nat,
         time <= c, c <= time + MaxLag, BucketSound(b, a, w, c), Admits(b, w, time),
         NEW request, request = [read |-> time, passed |-> c]
  PROVE  /\ Append(a, request) \in Seq(Entries) /\ Consumed(b, w, time) \in Seq(Nat)
         /\ BucketSound(b, Append(a, request), Consumed(b, w, time), c)
<1> DEFINE W == WindowTicks[KindOf(b)]
           L == Limit[KindOf(b)]
<1>1. PICK v : v = Inside(b, w, time)
  OBVIOUS
<1>2. v \in Seq(Nat) /\ BucketSound(b, a, v, c)
  BY <1>1, BucketExpired
<1>3. W \in Nat /\ L \in Nat /\ L > 0 /\ MaxLag \in Nat
  BY LimitParameters
<1>4. Len(v) < L
  BY <1>1, <1>2, <1>3 DEF Admits, Full
<1>5. Consumed(b, w, time) = Append(v, time)
  BY <1>1, <1>2, <1>3, <1>4 DEF Consumed, Full
<1>6. PICK n : n = Len(a)
  OBVIOUS
<1>7. PICK x : x = Append(a, request)
  OBVIOUS
<1>8. PICK y : y = Append(v, time)
  OBVIOUS
<1>9. request \in Entries /\ request.read = time /\ request.passed = c
  BY DEF Entries
<1>10. /\ n \in Nat /\ x \in Seq(Entries) /\ Len(x) = n + 1 /\ DOMAIN x = 1 .. n + 1
       /\ \A i \in 1 .. n : x[i] = a[i]
       /\ x[n + 1] = request
  BY <1>6, <1>7, <1>9
<1>11. /\ Len(v) \in Nat /\ y \in Seq(Nat) /\ Len(y) = Len(v) + 1
       /\ \A k \in 1 .. Len(v) : y[k] = v[k]
       /\ y[Len(v) + 1] = time
  BY <1>2, <1>8
<1>12. \A i \in 1 .. n : a[i].read \in Nat /\ a[i].passed \in Nat
  <2>1. \A i \in 1 .. n : a[i] \in Entries
    BY <1>6
  <2> QED BY <2>1 DEF Entries
<1>13. /\ InOrder(a, c) /\ RateHeld(b, a) /\ DOMAIN a = 1 .. n
       /\ Len(v) <= n
       /\ \A k \in 1 .. Len(v) : v[k] = a[n - Len(v) + k].read
       /\ \A i \in 1 .. n - Len(v) : a[i].read <= c - W
  BY <1>2, <1>6 DEF BucketSound, Follows
<1>14. Follows(b, x, y, c)
  <2>1. Len(y) <= Len(x) /\ Len(x) - Len(y) = n - Len(v)
    BY <1>10, <1>11, <1>13
  <2>2. ASSUME NEW k \in 1 .. Len(v) + 1
        PROVE  y[k] = x[n - Len(v) + k].read
    <3>1. CASE k = Len(v) + 1
      <4>1. n - Len(v) + k = n + 1
        BY <1>10, <1>11, <3>1
      <4> QED BY <1>9, <1>10, <1>11, <3>1, <4>1
    <3>2. CASE k # Len(v) + 1
      <4>1. k \in 1 .. Len(v) /\ n - Len(v) + k \in 1 .. n
        BY <1>10, <1>11, <1>13, <3>2
      <4> QED BY <1>10, <1>11, <1>13, <4>1
    <3> QED BY <3>1, <3>2
  <2>3. ASSUME NEW i \in 1 .. n - Len(v)
        PROVE  x[i].read <= c - W
    <3>1. i \in 1 .. n
      BY <1>10, <1>11
    <3> QED BY <1>10, <1>13, <3>1
  <2> QED BY <1>11, <2>1, <2>2, <2>3 DEF Follows
<1>15. InOrder(x, c)
  <2>1. \A i \in 1 .. n + 1 : i \in 1 .. n \/ i = n + 1
    BY <1>10
  <2>2. ASSUME NEW i \in 1 .. n + 1
        PROVE  x[i].read <= x[i].passed /\ x[i].passed <= x[i].read + MaxLag /\ x[i].passed <= c
    <3>1. CASE i = n + 1
      BY <1>9, <1>10, <3>1
    <3>2. CASE i \in 1 .. n
      BY <1>10, <1>13, <3>2 DEF InOrder
    <3> QED BY <2>1, <3>1, <3>2
  <2>3. ASSUME NEW i \in 1 .. n + 1, NEW j \in 1 .. n + 1, i <= j
        PROVE  x[i].passed <= x[j].passed
    <3>1. CASE j = n + 1
      BY <1>9, <1>10, <2>2, <3>1
    <3>2. CASE j # n + 1
      <4>1. i \in 1 .. n /\ j \in 1 .. n
        BY <1>10, <2>3, <3>2
      <4> QED BY <1>10, <1>13, <2>3, <4>1 DEF InOrder
    <3> QED BY <3>1, <3>2
  <2> QED BY <1>10, <2>2, <2>3 DEF InOrder
<1>16. RateHeld(b, x)
  <2> SUFFICES ASSUME NEW i \in 1 .. n + 1, NEW j \in 1 .. n + 1, j = i + L
               PROVE  x[j].passed - x[i].passed >= W - MaxLag
    BY <1>10 DEF RateHeld
  <2>1. i \in 1 .. n
    BY <1>3, <1>10
  <2>2. CASE j = n + 1
    <3>1. i \in 1 .. n - Len(v)
      <4>1. n \in Nat /\ Len(v) \in Nat /\ L \in Nat /\ Len(v) < L /\ n + 1 = i + L
        BY <1>3, <1>4, <1>10, <1>11, <2>2
      <4> QED BY <2>1, <4>1
    <3>2. a[i].read <= c - W /\ a[i].passed <= a[i].read + MaxLag /\ a[i].read \in Nat /\ a[i].passed \in Nat
      BY <1>12, <1>13, <2>1, <3>1 DEF InOrder
    <3>3. x[i] = a[i] /\ x[j].passed = c
      BY <1>9, <1>10, <2>1, <2>2
    <3>4. W \in Nat /\ MaxLag \in Nat
      BY <1>3
    <3>5. PICK old : old = a[i]
      OBVIOUS
    <3>6. PICK read, passed, width : read = old.read /\ passed = old.passed /\ width = W
      OBVIOUS
    <3>7. /\ read \in Nat /\ passed \in Nat /\ width \in Nat
          /\ read <= c - width /\ passed <= read + MaxLag
      BY <3>2, <3>4, <3>5, <3>6
    <3>8. c - passed >= width - MaxLag
      BY <3>4, <3>7
    <3> QED BY <3>3, <3>5, <3>6, <3>8
  <2>3. CASE j # n + 1
    <3>1. j \in 1 .. n
      BY <1>10, <2>3
    <3> QED BY <1>10, <1>13, <2>1, <3>1 DEF RateHeld
  <2> QED BY <2>2, <2>3
<1>17. Len(y) <= L
  BY <1>3, <1>4, <1>11
<1> HIDE DEF W, L
<1>18. BucketSound(b, x, y, c)
  BY <1>14, <1>15, <1>16, <1>17 DEF BucketSound, L
<1> QED BY <1>5, <1>7, <1>8, <1>10, <1>11, <1>18

\* What is in a window after expiry passed within it and the wait.
LEMMA InsideIsRecent ==
  ASSUME NEW b \in LimitBuckets, NEW a \in Seq(Entries), NEW v \in Seq(Nat), NEW c \in Nat, NEW time \in Nat,
         BucketSound(b, a, v, c), v # <<>>, Head(v) > time - WindowTicks[KindOf(b)]
  PROVE  \A k \in 1 .. Len(v) : Len(a) - Len(v) + k \in Recent(b, a, time)
<1>1. WindowTicks[KindOf(b)] \in Nat /\ MaxLag \in Nat /\ Len(a) \in Nat /\ Len(v) \in Nat
  BY LimitParameters
<1>2. PICK gone : gone = Len(a) - Len(v)
  OBVIOUS
<1>3. /\ gone \in Nat /\ Len(v) > 0 /\ v[1] = Head(v)
      /\ \A k \in 1 .. Len(v) : gone + k \in DOMAIN a
  BY <1>1, <1>2 DEF BucketSound, Follows
<1>4. Head(v) = a[gone + 1].read /\ gone + 1 \in DOMAIN a
  BY <1>1, <1>2, <1>3 DEF BucketSound, Follows
<1>5. \A i \in DOMAIN a : a[i].read \in Nat /\ a[i].passed \in Nat
  <2>1. \A i \in DOMAIN a : a[i] \in Entries
    OBVIOUS
  <2> QED BY <2>1 DEF Entries
<1>6. ASSUME NEW k \in 1 .. Len(v)
      PROVE  a[gone + k].read > time - WindowTicks[KindOf(b)] - MaxLag
  <2>1. gone + k \in DOMAIN a /\ gone + 1 <= gone + k
    BY <1>1, <1>3
  <2>2. /\ a[gone + 1].read <= a[gone + 1].passed
        /\ a[gone + 1].passed <= a[gone + k].passed
        /\ a[gone + k].passed <= a[gone + k].read + MaxLag
    BY <1>4, <2>1 DEF BucketSound, InOrder
  <2>3. /\ a[gone + 1].read \in Nat /\ a[gone + 1].passed \in Nat
        /\ a[gone + k].read \in Nat /\ a[gone + k].passed \in Nat
    BY <1>4, <1>5, <2>1
  <2>4. a[gone + 1].read > time - WindowTicks[KindOf(b)]
    BY <1>4
  <2>5. PICK r, p, q, s, width :
          /\ r = a[gone + 1].read /\ p = a[gone + 1].passed
          /\ q = a[gone + k].read /\ s = a[gone + k].passed
          /\ width = WindowTicks[KindOf(b)]
    OBVIOUS
  <2>6. r \in Nat /\ p \in Nat /\ q \in Nat /\ s \in Nat /\ width \in Nat /\ MaxLag \in Nat
    BY <1>1, <2>3, <2>5
  <2>7. r <= p /\ p <= s /\ s <= q + MaxLag /\ r > time - width
    BY <2>2, <2>4, <2>5
  <2>8. q > time - width - MaxLag
    BY <2>6, <2>7
  <2> QED BY <2>5, <2>8
<1> QED BY <1>2, <1>3, <1>6 DEF Recent

LEMMA WaitBound ==
  ASSUME NEW h \in Nat, NEW width \in Nat, NEW time \in Nat, NEW lag \in Nat, h <= time + lag
  PROVE  h + width - time \in Int /\ h + width - time <= width + lag
OBVIOUS

\* A full window refuses with reason, and its oldest request is soon out of it.
LEMMA BucketRefuses ==
  ASSUME NEW b \in LimitBuckets, NEW a \in Seq(Entries), NEW w \in Seq(Nat), NEW c \in Nat, NEW time \in Nat,
         time <= c, c <= time + MaxLag, BucketSound(b, a, w, c), ~Admits(b, w, time)
  PROVE  /\ Consumed(b, w, time) = Inside(b, w, time)
         /\ Cardinality(Recent(b, a, time)) >= Limit[KindOf(b)]
         /\ Retry(b, Inside(b, w, time), time) \in 1 .. WindowTicks[KindOf(b)] + MaxLag
<1>1. PICK v : v = Inside(b, w, time)
  OBVIOUS
<1>2. /\ v \in Seq(Nat) /\ BucketSound(b, a, v, c)
      /\ v # <<>> => Head(v) > time - WindowTicks[KindOf(b)]
  BY <1>1, BucketExpired
<1>3. /\ WindowTicks[KindOf(b)] \in Nat /\ WindowTicks[KindOf(b)] > 0 /\ MaxLag \in Nat
      /\ Limit[KindOf(b)] \in Nat /\ Limit[KindOf(b)] > 0 /\ Len(a) \in Nat /\ Len(v) \in Nat
  BY <1>2, LimitParameters
<1>4. Len(v) >= Limit[KindOf(b)] /\ Full(b, v)
  BY <1>1, <1>2, <1>3 DEF Admits, Full
<1>5. Consumed(b, w, time) = v
  BY <1>1, <1>4 DEF Consumed
<1>6. v # <<>> /\ Len(v) <= Len(a)
  BY <1>2, <1>3, <1>4 DEF BucketSound, Follows
<1>7. Cardinality(Recent(b, a, time)) >= Limit[KindOf(b)]
  <2>1. PICK gone : gone = Len(a) - Len(v)
    OBVIOUS
  <2>2. \A k \in 1 .. Len(v) : gone + k \in Recent(b, a, time)
    BY <1>2, <1>6, <2>1, InsideIsRecent
  <2>3. gone \in Nat
    BY <1>3, <1>6, <2>1
  <2>4. gone + 1 .. gone + Len(v) \subseteq Recent(b, a, time)
    <3>1. ASSUME NEW i \in gone + 1 .. gone + Len(v)
          PROVE  i \in Recent(b, a, time)
      <4>1. i - gone \in 1 .. Len(v) /\ gone + (i - gone) = i
        BY <1>3, <2>3
      <4> QED BY <2>2, <4>1
    <3> QED BY <3>1
  <2>5. IsFiniteSet(Recent(b, a, time))
    <3>1. Recent(b, a, time) \subseteq 1 .. Len(a)
      BY DEF Recent
    <3>2. IsFiniteSet(1 .. Len(a))
      BY <1>3, FS_Interval
    <3> QED BY <3>1, <3>2, FS_Subset
  <2>6. Cardinality(gone + 1 .. gone + Len(v)) = Len(v)
    <3>1. gone \in Int /\ Len(v) \in Nat /\ Len(v) > 0
      BY <1>3, <1>4, <2>3
    <3> QED BY <3>1, IntervalSize
  <2>7. Cardinality(gone + 1 .. gone + Len(v)) <= Cardinality(Recent(b, a, time))
    BY <2>4, <2>5, FS_Subset
  <2>8. Cardinality(Recent(b, a, time)) \in Nat
    BY <2>5, FS_CardinalityType
  <2> QED BY <1>3, <1>4, <2>6, <2>7, <2>8
<1>8. Retry(b, v, time) \in 1 .. WindowTicks[KindOf(b)] + MaxLag
  <2>1. Head(v) \in Nat /\ Head(v) = v[1] /\ Len(v) > 0
    BY <1>2, <1>6
  <2>2. PICK i \in DOMAIN a : Head(v) = a[i].read
    <3>1. Len(a) - Len(v) + 1 \in DOMAIN a
      BY <1>3, <1>6, <2>1
    <3>2. v[1] = a[Len(a) - Len(v) + 1].read
      BY <1>2, <1>3, <2>1 DEF BucketSound, Follows
    <3> QED BY <2>1, <3>1, <3>2
  <2>3. a[i].read <= a[i].passed /\ a[i].passed <= c
    BY <1>2, <2>2 DEF BucketSound, InOrder
  <2>4. a[i].passed \in Nat
    <3>1. a[i] \in Entries
      BY <2>2
    <3> QED BY <3>1 DEF Entries
  <2>5. Head(v) <= time + MaxLag
    BY <1>3, <2>1, <2>2, <2>3, <2>4
  <2>6. PICK wait : wait = Head(v) + WindowTicks[KindOf(b)] - time
    OBVIOUS
  <2>7. wait \in Int /\ wait <= WindowTicks[KindOf(b)] + MaxLag
    <3>1. /\ Head(v) \in Nat /\ WindowTicks[KindOf(b)] \in Nat /\ time \in Nat /\ MaxLag \in Nat
          /\ Head(v) <= time + MaxLag
      BY <1>3, <2>1, <2>5
    <3> QED BY <3>1, <2>6, WaitBound
  <2>8. Retry(b, v, time) = IF wait > 1 THEN wait ELSE 1
    BY <2>6 DEF Retry
  <2> QED BY <1>3, <2>7, <2>8
<1> QED BY <1>1, <1>5, <1>7, <1>8

-----------------------------------------------------------------------------
(* Limiters: one request *)

\* What a request at a time may do to a bucket: nothing, take out what has
\* expired, or take the request in, whatever was taken out before.
Moves(b, time) ==
  \E w \in {TimesOf(b), Inside(b, TimesOf(b), time)} :
    \/ limitAdmitted'[b] = limitAdmitted[b] /\ TimesOf(b)' \in {w, Inside(b, w, time)}
    \/ /\ Admits(b, w, time)
       /\ limitAdmitted'[b] = Append(limitAdmitted[b], [read |-> time, passed |-> limitClock])
       /\ TimesOf(b)' = Consumed(b, w, time)

Refusals ==
  [scope : Shared \cup {"subject", "capacity", "none"},
   bucket : LimitBuckets \cup {"none"}, read : Nat, retry : Nat]

LEMMA LimitTypes ==
  ASSUME LimitsInvariant
  PROVE  /\ limitClock \in Nat
         /\ \A b \in LimitBuckets : /\ limitAdmitted[b] \in Seq(Entries) /\ TimesOf(b) \in Seq(Nat)
                                    /\ BucketSound(b, limitAdmitted[b], TimesOf(b), limitClock)
<1>1. LimitsTypeOK
  BY DEF LimitsInvariant
<1>2. limitClock \in Nat
  BY <1>1, LimitParameters DEF LimitsTypeOK
<1>3. limitAdmitted \in [LimitBuckets -> Seq(Entries)]
  BY <1>1 DEF LimitsTypeOK, Entries
<1>4. /\ \A b \in Shared : limitWindow[b] \in Seq(Nat)
      /\ \A s \in DOMAIN limitSubject : limitSubject[s] \in Seq(Nat)
  BY <1>1 DEF LimitsTypeOK
<1>5. \A b \in LimitBuckets : TimesOf(b) \in Seq(Nat)
  BY <1>4 DEF TimesOf
<1> QED BY <1>2, <1>3, <1>5 DEF LimitsInvariant

\* A window before or after expiry is a sound one for its bucket.
LEMMA WindowsSound ==
  ASSUME LimitsInvariant, NEW b \in LimitBuckets, NEW time \in Nat, time <= limitClock,
         NEW w \in {TimesOf(b), Inside(b, TimesOf(b), time)}
  PROVE  w \in Seq(Nat) /\ BucketSound(b, limitAdmitted[b], w, limitClock)
<1>1. /\ limitClock \in Nat /\ limitAdmitted[b] \in Seq(Entries) /\ TimesOf(b) \in Seq(Nat)
      /\ BucketSound(b, limitAdmitted[b], TimesOf(b), limitClock)
  BY LimitTypes
<1>2. /\ Inside(b, TimesOf(b), time) \in Seq(Nat)
      /\ BucketSound(b, limitAdmitted[b], Inside(b, TimesOf(b), time), limitClock)
  BY <1>1, BucketExpired
<1> QED BY <1>1, <1>2

LEMMA BucketMoves ==
  ASSUME LimitsInvariant, NEW b \in LimitBuckets, NEW time \in Nat, time <= limitClock,
         limitClock <= time + MaxLag, limitClock' = limitClock, Moves(b, time)
  PROVE  /\ limitAdmitted'[b] \in Seq(Entries) /\ TimesOf(b)' \in Seq(Nat)
         /\ BucketSound(b, limitAdmitted'[b], TimesOf(b)', limitClock)
<1>1. PICK w \in {TimesOf(b), Inside(b, TimesOf(b), time)} :
        \/ limitAdmitted'[b] = limitAdmitted[b] /\ TimesOf(b)' \in {w, Inside(b, w, time)}
        \/ /\ Admits(b, w, time)
           /\ limitAdmitted'[b] = Append(limitAdmitted[b], [read |-> time, passed |-> limitClock])
           /\ TimesOf(b)' = Consumed(b, w, time)
  BY DEF Moves
<1>2. PICK a, c : a = limitAdmitted[b] /\ c = limitClock
  OBVIOUS
<1>3. a \in Seq(Entries) /\ c \in Nat /\ w \in Seq(Nat) /\ BucketSound(b, a, w, c)
  BY <1>2, LimitTypes, WindowsSound
<1>4. Inside(b, w, time) \in Seq(Nat) /\ BucketSound(b, a, Inside(b, w, time), c)
  BY <1>2, <1>3, BucketExpired
<1>5. CASE limitAdmitted'[b] = a /\ TimesOf(b)' \in {w, Inside(b, w, time)}
  BY <1>2, <1>3, <1>4, <1>5
<1>6. CASE /\ Admits(b, w, time)
           /\ limitAdmitted'[b] = Append(a, [read |-> time, passed |-> c])
           /\ TimesOf(b)' = Consumed(b, w, time)
  <2>1. PICK request : request = [read |-> time, passed |-> c]
    OBVIOUS
  <2>2. /\ Append(a, request) \in Seq(Entries) /\ Consumed(b, w, time) \in Seq(Nat)
        /\ BucketSound(b, Append(a, request), Consumed(b, w, time), c)
    BY <1>2, <1>3, <1>6, <2>1, BucketAdmits
  <2> QED BY <1>2, <1>6, <2>1, <2>2
<1> QED BY <1>1, <1>2, <1>5, <1>6

\* A request that is served keeps the invariant if it moves the buckets as
\* requests do, keeps the table of subjects small and is refused with reason.
LEMMA RequestServed ==
  ASSUME LimitsInvariant, NEW thread \in LimitThreads, NEW time \in Nat, time <= limitClock,
         limitClock <= time + MaxLag,
         limitWaiting' = [limitWaiting EXCEPT ![thread] = NoAttempt], UNCHANGED <<limitMix, limitClock>>,
         \A b \in LimitBuckets : Moves(b, time),
         limitWindow' = [kind \in Shared |-> limitWindow'[kind]],
         DOMAIN limitSubject' \subseteq Subjects,
         limitSubject' = [s \in DOMAIN limitSubject' |-> limitSubject'[s]],
         Cardinality(DOMAIN limitSubject') <= MaxBuckets,
         limitAdmitted' = [b \in LimitBuckets |-> limitAdmitted'[b]],
         limitRefusal' \in Refusals, RefusalDue'
  PROVE  LimitsInvariant'
<1>1. /\ LimitsTypeOK /\ WaitingSound
      /\ \A b \in LimitBuckets : /\ limitAdmitted'[b] \in Seq(Entries) /\ TimesOf(b)' \in Seq(Nat)
                                 /\ BucketSound(b, limitAdmitted'[b], TimesOf(b)', limitClock)
  BY BucketMoves DEF LimitsInvariant
<1>2. limitWaiting' \in [LimitThreads -> [credential : Credentials \cup {"none"}, read : Nat]]
  <2>1. NoAttempt \in [credential : Credentials \cup {"none"}, read : Nat]
    BY DEF NoAttempt
  <2> QED BY <1>1, <2>1 DEF LimitsTypeOK
<1>3. limitWindow' \in [Shared -> Seq(Nat)]
  <2>1. \A kind \in Shared : limitWindow'[kind] \in Seq(Nat)
    BY <1>1 DEF TimesOf, LimitBuckets
  <2> QED BY <2>1
<1>4. limitSubject' \in [DOMAIN limitSubject' -> Seq(Nat)]
  <2>1. \A s \in Subjects : s \in LimitBuckets /\ s \notin Shared
    BY LimitAssumption DEF LimitBuckets, LimitAssumption
  <2>2. ASSUME NEW s \in DOMAIN limitSubject'
        PROVE  limitSubject'[s] \in Seq(Nat)
    BY <1>1, <2>1 DEF TimesOf
  <2> QED BY <2>2
<1>5. limitAdmitted' \in [LimitBuckets -> Seq([read : Nat, passed : Nat])]
  BY <1>1 DEF Entries
<1>6. LimitsTypeOK'
  BY <1>1, <1>2, <1>3, <1>4, <1>5 DEF LimitsTypeOK, Refusals
<1>7. WaitingSound'
  BY <1>1 DEF LimitsTypeOK, WaitingSound
<1>8. LimitsHold'
  BY <1>1 DEF LimitsHold, BucketSound
<1> QED BY <1>1, <1>6, <1>7, <1>8 DEF LimitsInvariant

\* What a bucket of its own decides, and what it does to the history.
LEMMA DecideMoves ==
  ASSUME LimitsInvariant, NEW b \in LimitBuckets, NEW time \in Nat, time <= limitClock,
         limitClock <= time + MaxLag, NEW w \in Seq(Nat), BucketSound(b, limitAdmitted[b], w, limitClock),
         NEW others, others \subseteq LimitBuckets, b \notin others, Decide(b, w, time, others)
  PROVE  /\ limitAdmitted' = [c \in LimitBuckets |-> limitAdmitted'[c]]
         /\ \A c \in LimitBuckets \ {b} :
              limitAdmitted'[c] = IF c \in others
                                  THEN Append(limitAdmitted[c], [read |-> time, passed |-> limitClock])
                                  ELSE limitAdmitted[c]
         /\ \/ /\ Admits(b, w, time)
               /\ limitAdmitted'[b] = Append(limitAdmitted[b], [read |-> time, passed |-> limitClock])
            \/ /\ limitAdmitted'[b] = limitAdmitted[b]
               /\ Consumed(b, w, time) = Inside(b, w, time)
         /\ limitRefusal' \in Refusals /\ RefusalDue'
<1>1. limitClock \in Nat /\ limitAdmitted[b] \in Seq(Entries)
  BY LimitTypes
<1>2. CASE Admits(b, w, time)
  <2>1. Admit(others \cup {b}, time) /\ limitRefusal' = NoRefusal
    BY <1>2 DEF Decide
  <2>2. limitRefusal' \in Refusals
    BY <2>1 DEF NoRefusal, Refusals
  <2>3. RefusalDue'
    BY <2>1 DEF NoRefusal, RefusalDue
  <2> QED BY <1>2, <2>1, <2>2, <2>3 DEF Admit
<1>3. CASE ~Admits(b, w, time)
  <2>1. /\ Admit(others, time)
        /\ Refuse(KindOf(b), b, time, Retry(b, Inside(b, w, time), time))
    BY <1>3 DEF Decide
  <2>2. PICK retry : retry = Retry(b, Inside(b, w, time), time)
    OBVIOUS
  <2>3. /\ Consumed(b, w, time) = Inside(b, w, time)
        /\ Cardinality(Recent(b, limitAdmitted[b], time)) >= Limit[KindOf(b)]
        /\ retry \in 1 .. WindowTicks[KindOf(b)] + MaxLag
    BY <1>1, <1>3, <2>2, BucketRefuses
  <2>4. /\ limitRefusal' = [scope |-> KindOf(b), bucket |-> b, read |-> time, retry |-> retry]
        /\ limitAdmitted'[b] = limitAdmitted[b]
    BY <2>1, <2>2 DEF Refuse, Admit
  <2>5. KindOf(b) \in Shared \cup {"subject"} /\ KindOf(b) \notin {"none", "capacity"}
    BY DEF KindOf, LimitBuckets, Shared
  <2>6. limitRefusal' \in Refusals
    <3>1. retry \in Nat
      BY <2>3, LimitParameters
    <3> QED BY <2>4, <2>5, <3>1 DEF Refusals
  <2>7. RefusalDue'
    BY <2>3, <2>4, <2>5 DEF RefusalDue
  <2> QED BY <2>1, <2>3, <2>4, <2>6, <2>7 DEF Admit
<1> QED BY <1>2, <1>3

\* The lock is held by a thread that read the time before it had it.
Serving(thread, time) ==
  /\ time \in Nat /\ time <= limitClock /\ limitClock <= time + MaxLag
  /\ limitWaiting' = [limitWaiting EXCEPT ![thread] = NoAttempt]
  /\ UNCHANGED <<limitMix, limitClock>>

\* Subjects and the other buckets have different names.
LEMMA SubjectsApart ==
  /\ Shared \subseteq LimitBuckets /\ Subjects \subseteq LimitBuckets
  /\ LimitBuckets = Shared \cup Subjects /\ Shared \cap Subjects = {} /\ "none" \notin LimitBuckets
  BY LimitAssumption DEF LimitBuckets, LimitAssumption, Shared

\* A request that consumes windows that are always there, b after others.
LEMMA WindowRequest ==
  ASSUME LimitsInvariant, NEW thread \in LimitThreads, NEW time, Serving(thread, time),
         UNCHANGED limitSubject, NEW b \in Shared, NEW others, others \subseteq Shared, b \notin others,
         Decide(b, limitWindow[b], time, others),
         \A c \in others : Admits(c, limitWindow[c], time),
         limitWindow' = [c \in Shared |-> IF c \in others \cup {b} THEN Consumed(c, limitWindow[c], time)
                                                                   ELSE limitWindow[c]]
  PROVE  LimitsInvariant'
<1>1. time \in Nat /\ time <= limitClock /\ limitClock <= time + MaxLag
  BY DEF Serving
<1>2. /\ \A c \in Shared : TimesOf(c) = limitWindow[c] /\ TimesOf(c)' = limitWindow'[c]
      /\ \A s \in Subjects : TimesOf(s)' = TimesOf(s)
  BY SubjectsApart DEF TimesOf
<1>3. limitWindow[b] \in Seq(Nat) /\ BucketSound(b, limitAdmitted[b], limitWindow[b], limitClock)
  BY <1>2, LimitTypes, SubjectsApart
<1>4. /\ limitAdmitted' = [c \in LimitBuckets |-> limitAdmitted'[c]]
      /\ \A c \in LimitBuckets \ {b} :
           limitAdmitted'[c] = IF c \in others
                               THEN Append(limitAdmitted[c], [read |-> time, passed |-> limitClock])
                               ELSE limitAdmitted[c]
      /\ \/ /\ Admits(b, limitWindow[b], time)
            /\ limitAdmitted'[b] = Append(limitAdmitted[b], [read |-> time, passed |-> limitClock])
         \/ /\ limitAdmitted'[b] = limitAdmitted[b]
            /\ Consumed(b, limitWindow[b], time) = Inside(b, limitWindow[b], time)
      /\ limitRefusal' \in Refusals /\ RefusalDue'
  BY <1>1, <1>3, SubjectsApart, DecideMoves
<1>5. ASSUME NEW c \in LimitBuckets
      PROVE  Moves(c, time)
  <2>1. CASE c \in Subjects
    <3>1. limitAdmitted'[c] = limitAdmitted[c] /\ TimesOf(c)' = TimesOf(c)
      BY <1>2, <1>4, <2>1, SubjectsApart
    <3> QED BY <3>1 DEF Moves
  <2>2. CASE c = b
    <3>1. TimesOf(c) = limitWindow[c] /\ TimesOf(c)' = Consumed(c, limitWindow[c], time)
      BY <1>2, <2>2
    <3> QED BY <1>4, <2>2, <3>1 DEF Moves
  <2>3. CASE c \in others
    <3>1. TimesOf(c) = limitWindow[c] /\ TimesOf(c)' = Consumed(c, limitWindow[c], time)
      BY <1>2, <2>3
    <3>2. limitAdmitted'[c] = Append(limitAdmitted[c], [read |-> time, passed |-> limitClock])
      BY <1>4, <2>3
    <3> QED BY <2>3, <3>1, <3>2 DEF Moves
  <2>4. CASE c \in Shared /\ c # b /\ c \notin others
    <3>1. limitAdmitted'[c] = limitAdmitted[c] /\ TimesOf(c)' = TimesOf(c)
      BY <1>2, <1>4, <2>4
    <3> QED BY <3>1 DEF Moves
  <2> QED BY <2>1, <2>2, <2>3, <2>4, SubjectsApart
<1>6. limitWindow' = [kind \in Shared |-> limitWindow'[kind]]
  OBVIOUS
<1>7. /\ DOMAIN limitSubject' \subseteq Subjects
      /\ limitSubject' = [s \in DOMAIN limitSubject' |-> limitSubject'[s]]
      /\ Cardinality(DOMAIN limitSubject') <= MaxBuckets
  BY DEF LimitsInvariant, LimitsTypeOK, LimitsHold
<1> QED BY <1>1, <1>4, <1>5, <1>6, <1>7, RequestServed DEF Serving

LEMMA KeyedStep ==
  ASSUME LimitsInvariant, NEW thread \in LimitThreads, NEW time, Serving(thread, time), KeyedRequest(time)
  PROVE  LimitsInvariant'
<1>1. limitWindow' = [c \in Shared |-> IF c \in {} \cup {"keyed"} THEN Consumed(c, limitWindow[c], time)
                                                                  ELSE limitWindow[c]]
  BY DEF LimitsInvariant, LimitsTypeOK, KeyedRequest, Shared
<1>2. "keyed" \in Shared /\ Decide("keyed", limitWindow["keyed"], time, {}) /\ UNCHANGED limitSubject
  BY DEF KeyedRequest, Shared
<1> QED BY <1>1, <1>2, WindowRequest

LEMMA RefusedForAllStep ==
  ASSUME LimitsInvariant, NEW thread \in LimitThreads, NEW time, Serving(thread, time), RefusedForAll(time)
  PROVE  LimitsInvariant'
<1>1. limitWindow' = [c \in Shared |-> IF c \in {} \cup {"global"} THEN Consumed(c, limitWindow[c], time)
                                                                   ELSE limitWindow[c]]
  BY DEF LimitsInvariant, LimitsTypeOK, RefusedForAll, Shared
<1>2. "global" \in Shared /\ Decide("global", limitWindow["global"], time, {}) /\ UNCHANGED limitSubject
  BY DEF RefusedForAll, Shared
<1> QED BY <1>1, <1>2, WindowRequest

LEMMA MalformedStep ==
  ASSUME LimitsInvariant, NEW thread \in LimitThreads, NEW time, Serving(thread, time), MalformedLogin(time)
  PROVE  LimitsInvariant'
<1>1. limitWindow' = [c \in Shared |-> IF c \in {"global"} \cup {"malformed"}
                                       THEN Consumed(c, limitWindow[c], time) ELSE limitWindow[c]]
  BY DEF LimitsInvariant, LimitsTypeOK, MalformedLogin, Shared
<1>2. /\ "malformed" \in Shared /\ {"global"} \subseteq Shared /\ "malformed" \notin {"global"}
      /\ Decide("malformed", limitWindow["malformed"], time, {"global"})
      /\ \A c \in {"global"} : Admits(c, limitWindow[c], time)
      /\ UNCHANGED limitSubject
  BY DEF MalformedLogin, Shared
<1> QED BY <1>1, <1>2, WindowRequest

\* The table of subjects after the cleanup.
LEMMA LiveTimes ==
  ASSUME LimitsInvariant, NEW time \in Nat, NEW live, live = LiveSubjects(time)
  PROVE  /\ DOMAIN live \subseteq DOMAIN limitSubject /\ DOMAIN live \subseteq Subjects
         /\ live = [s \in DOMAIN live |-> live[s]]
         /\ \A s \in DOMAIN live : live[s] = Inside(s, TimesOf(s), time) /\ live[s] # <<>>
         /\ \A s \in Subjects : (IF s \in DOMAIN live THEN live[s] ELSE <<>>)
                                  \in {TimesOf(s), Inside(s, TimesOf(s), time)}
         /\ IsFiniteSet(DOMAIN live) /\ Cardinality(DOMAIN live) <= MaxBuckets
<1>1. /\ DOMAIN limitSubject \subseteq Subjects /\ Cardinality(DOMAIN limitSubject) <= MaxBuckets
  BY DEF LimitsInvariant, LimitsTypeOK, LimitsHold
<1>2. \A s \in Subjects : TimesOf(s) = IF s \in DOMAIN limitSubject THEN limitSubject[s] ELSE <<>>
  BY SubjectsApart DEF TimesOf
<1>3. live = [s \in {s \in DOMAIN limitSubject : Inside(s, limitSubject[s], time) # <<>>} |->
                Inside(s, limitSubject[s], time)]
  BY DEF LiveSubjects
<1>4. DOMAIN live = {s \in DOMAIN limitSubject : Inside(s, limitSubject[s], time) # <<>>}
  BY <1>3
<1>5. \A s \in DOMAIN live : live[s] = Inside(s, limitSubject[s], time) /\ live[s] # <<>>
  BY <1>3
<1>6. \A s \in DOMAIN live : live[s] = Inside(s, TimesOf(s), time)
  BY <1>1, <1>2, <1>4, <1>5
<1>7. ASSUME NEW s \in Subjects
      PROVE  (IF s \in DOMAIN live THEN live[s] ELSE <<>>) \in {TimesOf(s), Inside(s, TimesOf(s), time)}
  BY <1>2, <1>4, <1>6
<1>8. IsFiniteSet(DOMAIN limitSubject) /\ IsFiniteSet(DOMAIN live)
  BY <1>1, <1>4, LimitParameters, FS_Subset
<1>9. Cardinality(DOMAIN live) <= MaxBuckets
  <2>1. Cardinality(DOMAIN live) <= Cardinality(DOMAIN limitSubject)
    BY <1>4, <1>8, FS_Subset
  <2>2. Cardinality(DOMAIN live) \in Nat /\ Cardinality(DOMAIN limitSubject) \in Nat
    BY <1>8, FS_CardinalityType
  <2> QED BY <1>1, <2>1, <2>2, LimitParameters
<1> QED BY <1>1, <1>3, <1>4, <1>5, <1>6, <1>7, <1>8, <1>9

\* A subject that finds no room: as many others have a request in their windows.
LEMMA CapacityDue ==
  ASSUME LimitsInvariant, NEW time \in Nat, time <= limitClock, NEW subject \in Subjects,
         NEW live, live = LiveSubjects(time), subject \notin DOMAIN live,
         Cardinality(DOMAIN live) >= MaxBuckets,
         \A s \in Subjects : limitAdmitted'[s] = limitAdmitted[s],
         Refuse("capacity", subject, time, WindowTicks["subject"])
  PROVE  limitRefusal' \in Refusals /\ RefusalDue'
<1>1. KindOf(subject) = "subject" /\ subject \in LimitBuckets
  BY SubjectsApart DEF KindOf
<1>2. PICK retry : retry = WindowTicks["subject"]
  OBVIOUS
<1>3. retry \in Nat /\ retry > 0 /\ MaxLag \in Nat
  BY <1>1, <1>2, LimitParameters
<1>4. limitRefusal' = [scope |-> "capacity", bucket |-> subject, read |-> time, retry |-> retry]
  BY <1>2 DEF Refuse
<1>5. limitRefusal' \in Refusals
  BY <1>1, <1>3, <1>4 DEF Refusals
<1>6. PICK full : full = {s \in Subjects \ {subject} : Recent(s, limitAdmitted[s], time) # {}}
  OBVIOUS
<1>7. ASSUME NEW s \in DOMAIN live
      PROVE  s \in full
  <2>1. s \in Subjects /\ s # subject /\ s \in LimitBuckets
    BY LiveTimes, SubjectsApart
  <2>2. PICK v : v = live[s]
    OBVIOUS
  <2>3. PICK a, c : a = limitAdmitted[s] /\ c = limitClock
    OBVIOUS
  <2>4. v = Inside(s, TimesOf(s), time) /\ v # <<>>
    BY <2>2, LiveTimes
  <2>5. /\ a \in Seq(Entries) /\ c \in Nat /\ TimesOf(s) \in Seq(Nat)
        /\ BucketSound(s, a, TimesOf(s), c)
    BY <2>1, <2>3, LimitTypes
  <2>6. /\ v \in Seq(Nat) /\ BucketSound(s, a, v, c)
        /\ Head(v) > time - WindowTicks[KindOf(s)]
    BY <2>1, <2>3, <2>4, <2>5, BucketExpired
  <2>7. \A k \in 1 .. Len(v) : Len(a) - Len(v) + k \in Recent(s, a, time)
    BY <2>1, <2>4, <2>5, <2>6, InsideIsRecent
  <2>8. 1 \in 1 .. Len(v)
    BY <2>4, <2>6
  <2> QED BY <1>6, <2>1, <2>3, <2>7, <2>8
<1>8. Cardinality(full) >= MaxBuckets
  <2>1. IsFiniteSet(full) /\ IsFiniteSet(DOMAIN live)
    BY <1>6, LimitParameters, FS_Subset, LiveTimes
  <2>2. Cardinality(DOMAIN live) <= Cardinality(full)
    BY <1>7, <2>1, FS_Subset
  <2>3. Cardinality(DOMAIN live) \in Nat /\ Cardinality(full) \in Nat
    BY <2>1, FS_CardinalityType
  <2> QED BY <2>2, <2>3, LimitParameters
<1>9. {s \in Subjects \ {subject} : Recent(s, limitAdmitted'[s], time) # {}} = full
  BY <1>6
<1>10. retry \in 1 .. WindowTicks[KindOf(subject)] + MaxLag
  BY <1>1, <1>2, <1>3
<1>11. RefusalDue'
  BY <1>4, <1>8, <1>9, <1>10 DEF RefusalDue
<1> QED BY <1>5, <1>11

\* The cleanup takes out what has expired; the subject takes the request in.
LEMMA SubjectStep ==
  ASSUME LimitsInvariant, NEW thread \in LimitThreads, NEW time, Serving(thread, time),
         NEW subject \in Subjects, SubjectLogin(subject, time)
  PROVE  LimitsInvariant'
<1>1. time \in Nat /\ time <= limitClock /\ limitClock <= time + MaxLag
  BY DEF Serving
<1>2. PICK live : live = LiveSubjects(time)
  OBVIOUS
<1>3. PICK times : times = IF subject \in DOMAIN live THEN live[subject] ELSE <<>>
  OBVIOUS
<1>4. /\ DOMAIN live \subseteq Subjects /\ live = [s \in DOMAIN live |-> live[s]]
      /\ \A s \in DOMAIN live : live[s] = Inside(s, TimesOf(s), time)
      /\ \A s \in Subjects : (IF s \in DOMAIN live THEN live[s] ELSE <<>>)
                               \in {TimesOf(s), Inside(s, TimesOf(s), time)}
      /\ IsFiniteSet(DOMAIN live) /\ Cardinality(DOMAIN live) <= MaxBuckets
  BY <1>1, <1>2, LiveTimes
<1>5. /\ Admits("global", limitWindow["global"], time)
      /\ limitWindow' = [limitWindow EXCEPT !["global"] = Consumed("global", @, time)]
  BY DEF SubjectLogin
<1>6. /\ DOMAIN limitWindow = Shared /\ "global" \in Shared /\ "global" \in LimitBuckets
      /\ TimesOf("global") = limitWindow["global"]
      /\ TimesOf("global")' = Consumed("global", limitWindow["global"], time)
      /\ \A b \in Shared \ {"global"} : TimesOf(b)' = TimesOf(b)
      /\ limitWindow' = [kind \in Shared |-> limitWindow'[kind]]
  BY <1>5 DEF LimitsInvariant, LimitsTypeOK, TimesOf, Shared, LimitBuckets
<1>7. \A s \in Subjects : TimesOf(s)' = IF s \in DOMAIN limitSubject' THEN limitSubject'[s] ELSE <<>>
  BY SubjectsApart DEF TimesOf
<1>8. SUFFICES
        /\ \A s \in Subjects : Moves(s, time)
        /\ limitAdmitted' = [b \in LimitBuckets |-> limitAdmitted'[b]]
        /\ \A b \in Shared : limitAdmitted'[b] =
             IF b = "global" THEN Append(limitAdmitted[b], [read |-> time, passed |-> limitClock])
                             ELSE limitAdmitted[b]
        /\ DOMAIN limitSubject' \subseteq Subjects
        /\ limitSubject' = [s \in DOMAIN limitSubject' |-> limitSubject'[s]]
        /\ Cardinality(DOMAIN limitSubject') <= MaxBuckets
        /\ limitRefusal' \in Refusals /\ RefusalDue'
  <2>1. Moves("global", time)
    BY <1>5, <1>6, <1>8 DEF Moves
  <2>2. \A b \in Shared \ {"global"} : Moves(b, time)
    BY <1>6, <1>8 DEF Moves
  <2>3. \A b \in LimitBuckets : Moves(b, time)
    BY <1>8, <2>1, <2>2, SubjectsApart
  <2> QED BY <1>1, <1>6, <1>8, <2>3, RequestServed DEF Serving
<1>9. CASE subject \notin DOMAIN live /\ Cardinality(DOMAIN live) >= MaxBuckets
  <2>1. /\ limitSubject' = live /\ Admit({"global"}, time)
        /\ Refuse("capacity", subject, time, WindowTicks["subject"])
    BY <1>2, <1>9 DEF SubjectLogin
  <2>2. /\ limitAdmitted' = [b \in LimitBuckets |-> limitAdmitted'[b]]
        /\ \A b \in Shared : limitAdmitted'[b] =
             IF b = "global" THEN Append(limitAdmitted[b], [read |-> time, passed |-> limitClock])
                             ELSE limitAdmitted[b]
        /\ \A s \in Subjects : limitAdmitted'[s] = limitAdmitted[s]
    BY <1>6, <2>1, SubjectsApart DEF Admit
  <2>3. \A s \in Subjects : Moves(s, time)
    BY <1>4, <1>7, <2>1, <2>2 DEF Moves
  <2>4. limitRefusal' \in Refusals /\ RefusalDue'
    BY <1>1, <1>2, <1>9, <2>1, <2>2, CapacityDue
  <2> QED BY <1>4, <2>1, <2>2, <2>3, <2>4
<1>10. CASE ~(subject \notin DOMAIN live /\ Cardinality(DOMAIN live) >= MaxBuckets)
  <2>1. /\ limitSubject' = [s \in DOMAIN live \cup {subject} |->
                              IF s = subject THEN Consumed(subject, times, time) ELSE live[s]]
        /\ Decide(subject, times, time, {"global"})
    BY <1>2, <1>3, <1>10 DEF SubjectLogin
  <2>2. times \in {TimesOf(subject), Inside(subject, TimesOf(subject), time)}
    BY <1>3, <1>4
  <2>3. subject \in LimitBuckets /\ subject \notin {"global"} /\ {"global"} \subseteq LimitBuckets
    BY <1>6, SubjectsApart
  <2>4. times \in Seq(Nat) /\ BucketSound(subject, limitAdmitted[subject], times, limitClock)
    BY <1>1, <2>2, <2>3, WindowsSound
  <2>5. /\ limitAdmitted' = [b \in LimitBuckets |-> limitAdmitted'[b]]
        /\ \A b \in LimitBuckets \ {subject} :
             limitAdmitted'[b] = IF b \in {"global"}
                                 THEN Append(limitAdmitted[b], [read |-> time, passed |-> limitClock])
                                 ELSE limitAdmitted[b]
        /\ \/ /\ Admits(subject, times, time)
              /\ limitAdmitted'[subject]
                   = Append(limitAdmitted[subject], [read |-> time, passed |-> limitClock])
           \/ /\ limitAdmitted'[subject] = limitAdmitted[subject]
              /\ Consumed(subject, times, time) = Inside(subject, times, time)
        /\ limitRefusal' \in Refusals /\ RefusalDue'
    BY <1>1, <2>1, <2>3, <2>4, DecideMoves
  <2>6. TimesOf(subject)' = Consumed(subject, times, time)
    BY <1>7, <2>1
  <2>7. Moves(subject, time)
    BY <2>2, <2>5, <2>6 DEF Moves
  <2>8. ASSUME NEW s \in Subjects, s # subject
        PROVE  Moves(s, time)
    <3>1. TimesOf(s)' = IF s \in DOMAIN live THEN live[s] ELSE <<>>
      BY <1>7, <2>1, <2>8
    <3>2. limitAdmitted'[s] = limitAdmitted[s]
      BY <2>5, <2>8, <1>6, SubjectsApart
    <3>3. TimesOf(s)' \in {TimesOf(s), Inside(s, TimesOf(s), time)}
      BY <1>4, <3>1
    <3> QED BY <3>2, <3>3 DEF Moves
  <2>9. Cardinality(DOMAIN limitSubject') <= MaxBuckets
    <3>1. DOMAIN limitSubject' = DOMAIN live \cup {subject}
      BY <2>1
    <3>2. Cardinality(DOMAIN live) \in Nat
      BY <1>4, FS_CardinalityType
    <3>3. Cardinality(DOMAIN live \cup {subject})
            = IF subject \in DOMAIN live THEN Cardinality(DOMAIN live) ELSE Cardinality(DOMAIN live) + 1
      BY <1>4, FS_AddElement
    <3> QED BY <1>4, <1>10, <3>1, <3>2, <3>3, LimitParameters
  <2>10. /\ DOMAIN limitSubject' \subseteq Subjects
         /\ limitSubject' = [s \in DOMAIN limitSubject' |-> limitSubject'[s]]
    BY <1>4, <2>1
  <2>11. \A b \in Shared : limitAdmitted'[b] =
           IF b = "global" THEN Append(limitAdmitted[b], [read |-> time, passed |-> limitClock])
                           ELSE limitAdmitted[b]
    BY <2>5, SubjectsApart
  <2> QED BY <2>5, <2>7, <2>8, <2>9, <2>10, <2>11
<1> QED BY <1>9, <1>10

LEMMA ServeStep ==
  ASSUME LimitsInvariant, NEW thread \in LimitThreads, LimitServe(thread)
  PROVE  LimitsInvariant'
<1>1. PICK request : request = limitWaiting[thread]
  OBVIOUS
<1>2. PICK time : time = request.read
  OBVIOUS
<1>3. /\ LimitsTypeOK /\ WaitingSound /\ request # NoAttempt
      /\ limitWaiting' = [limitWaiting EXCEPT ![thread] = NoAttempt]
      /\ UNCHANGED <<limitMix, limitClock>>
  BY <1>1 DEF LimitServe, LimitsInvariant
<1>4. request.credential \in limitMix /\ limitClock \in time .. time + MaxLag /\ time \in Nat
  BY <1>1, <1>2, <1>3 DEF WaitingSound, LimitsTypeOK
<1>5. request.credential \in Credentials
  BY <1>3, <1>4, LimitAssumption DEF LimitsTypeOK, LimitAssumption
<1>6. Serving(thread, time)
  BY <1>3, <1>4, LimitParameters DEF Serving
<1>7. \/ KeyedRequest(time) \/ RefusedForAll(time) \/ MalformedLogin(time)
      \/ \E subject \in Subjects : SubjectLogin(subject, time)
  BY <1>1, <1>2, <1>5 DEF LimitServe, Credentials
<1> QED BY <1>6, <1>7, KeyedStep, RefusedForAllStep, MalformedStep, SubjectStep

LEMMA EnterStep ==
  ASSUME LimitsInvariant, NEW thread \in LimitThreads, LimitEnter(thread)
  PROVE  LimitsInvariant'
<1>1. /\ UNCHANGED <<limitMix, limitClock, limitWindow, limitSubject, limitAdmitted, limitRefusal>>
      /\ LimitsTypeOK /\ WaitingSound
  BY DEF LimitEnter, LimitsInvariant
<1>2. PICK credential \in limitMix :
        limitWaiting' = [limitWaiting EXCEPT ![thread] = [credential |-> credential, read |-> limitClock]]
  BY DEF LimitEnter
<1>3. limitClock \in Nat /\ limitClock \in limitClock .. limitClock + MaxLag
  BY LimitTypes, LimitParameters
<1>4. credential \in Credentials
  BY <1>1, LimitAssumption DEF LimitsTypeOK, LimitAssumption
<1>5. LimitsTypeOK'
  BY <1>1, <1>2, <1>3, <1>4 DEF LimitsTypeOK
<1>6. WaitingSound'
  <2> SUFFICES ASSUME NEW other \in LimitThreads, limitWaiting'[other] # NoAttempt
               PROVE  /\ limitWaiting'[other].credential \in limitMix
                      /\ limitClock \in limitWaiting'[other].read .. limitWaiting'[other].read + MaxLag
    BY <1>1 DEF WaitingSound
  <2>1. CASE other = thread
    <3>1. limitWaiting'[other] = [credential |-> credential, read |-> limitClock]
      BY <1>1, <1>2, <2>1 DEF LimitsTypeOK
    <3> QED BY <1>3, <3>1
  <2>2. CASE other # thread
    <3>1. limitWaiting'[other] = limitWaiting[other]
      BY <1>1, <1>2, <2>2 DEF LimitsTypeOK
    <3> QED BY <1>1, <3>1 DEF WaitingSound
  <2> QED BY <2>1, <2>2
<1>7. /\ LimitsHold'
      /\ \A b \in LimitBuckets : BucketSound(b, limitAdmitted[b], TimesOf(b), limitClock)'
  BY <1>1 DEF LimitsInvariant, LimitsHold, RefusalDue, TimesOf
<1> QED BY <1>5, <1>6, <1>7 DEF LimitsInvariant

\* The clock stands while a thread has waited for the longest.
LEMMA TickStep ==
  ASSUME LimitsInvariant, LimitTick
  PROVE  LimitsInvariant'
<1>1. /\ UNCHANGED <<limitMix, limitWaiting, limitWindow, limitSubject, limitAdmitted, limitRefusal>>
      /\ limitClock' = limitClock + 1 /\ limitClock < LimitTime
      /\ \A thread \in LimitThreads :
           limitWaiting[thread] # NoAttempt => limitClock - limitWaiting[thread].read < MaxLag
      /\ LimitsTypeOK /\ WaitingSound
  BY DEF LimitTick, LimitsInvariant
<1>2. limitClock \in Nat /\ limitClock' \in 0 .. LimitTime /\ limitClock' \in Nat /\ limitClock <= limitClock'
  BY <1>1, LimitTypes, LimitParameters
<1>3. LimitsTypeOK'
  BY <1>1, <1>2 DEF LimitsTypeOK
<1>4. WaitingSound'
  <2> SUFFICES ASSUME NEW thread \in LimitThreads, limitWaiting[thread] # NoAttempt
               PROVE  /\ limitWaiting[thread].credential \in limitMix
                      /\ limitClock' \in limitWaiting[thread].read .. limitWaiting[thread].read + MaxLag
    BY <1>1 DEF WaitingSound
  <2>1. /\ limitWaiting[thread].credential \in limitMix
        /\ limitClock \in limitWaiting[thread].read .. limitWaiting[thread].read + MaxLag
        /\ limitClock - limitWaiting[thread].read < MaxLag
    BY <1>1 DEF WaitingSound
  <2>2. PICK read : read = limitWaiting[thread].read
    OBVIOUS
  <2>3. read \in Nat /\ MaxLag \in Nat
    BY <1>1, <2>2, LimitParameters DEF LimitsTypeOK
  <2>4. limitClock' \in read .. read + MaxLag
    BY <1>1, <1>2, <2>1, <2>2, <2>3
  <2> QED BY <2>1, <2>2, <2>4
<1>5. LimitsHold'
  BY <1>1 DEF LimitsInvariant, LimitsHold, RefusalDue
<1>6. ASSUME NEW b \in LimitBuckets
      PROVE  BucketSound(b, limitAdmitted[b], TimesOf(b), limitClock)'
  <2>1. TimesOf(b)' = TimesOf(b)
    BY <1>1 DEF TimesOf
  <2>2. BucketSound(b, limitAdmitted[b], TimesOf(b), limitClock')
    BY <1>2, LimitTypes, BucketLater
  <2> QED BY <1>1, <2>1, <2>2
<1> QED BY <1>3, <1>4, <1>5, <1>6 DEF LimitsInvariant

LEMMA LimitsInitStep ==
  ASSUME LimitsInit
  PROVE  LimitsInvariant
<1>1. /\ limitMix \in CredentialMixes /\ limitClock = 0
      /\ limitWaiting = [thread \in LimitThreads |-> NoAttempt]
      /\ limitWindow = [kind \in Shared |-> <<>>] /\ limitSubject = [s \in {} |-> <<>>]
      /\ limitAdmitted = [b \in LimitBuckets |-> <<>>] /\ limitRefusal = NoRefusal
  BY DEF LimitsInit
<1>2. DOMAIN limitSubject = {} /\ limitSubject \in [DOMAIN limitSubject -> Seq(Nat)]
  BY <1>1
<1>3. /\ limitWaiting \in [LimitThreads -> [credential : Credentials \cup {"none"}, read : Nat]]
      /\ limitRefusal \in [scope : Shared \cup {"subject", "capacity", "none"},
                           bucket : LimitBuckets \cup {"none"}, read : Nat, retry : Nat]
  BY <1>1 DEF NoAttempt, NoRefusal
<1>4. limitClock \in 0 .. LimitTime
  BY <1>1, LimitParameters
<1>5. LimitsTypeOK
  BY <1>1, <1>2, <1>3, <1>4 DEF LimitsTypeOK
<1>6. WaitingSound
  BY <1>1 DEF WaitingSound
<1>7. ASSUME NEW b \in LimitBuckets
      PROVE  BucketSound(b, limitAdmitted[b], TimesOf(b), limitClock)
  <2>1. limitAdmitted[b] = <<>> /\ TimesOf(b) = <<>>
    BY <1>1, <1>2 DEF TimesOf
  <2>2. Len(<<>>) = 0 /\ DOMAIN <<>> = {} /\ Limit[KindOf(b)] \in Nat
    BY LimitParameters
  <2>3. InOrder(<<>>, limitClock) /\ RateHeld(b, <<>>)
    BY <2>2 DEF InOrder, RateHeld
  <2>4. Follows(b, <<>>, <<>>, limitClock)
    BY <2>2 DEF Follows
  <2> QED BY <2>1, <2>2, <2>3, <2>4 DEF BucketSound
<1>8. LimitsHold
  <2>1. Cardinality(DOMAIN limitSubject) <= MaxBuckets
    BY <1>2, FS_EmptySet, LimitParameters
  <2>2. RefusalDue
    BY <1>1 DEF RefusalDue, NoRefusal
  <2> QED BY <1>7, <2>1, <2>2 DEF LimitsHold, BucketSound
<1> QED BY <1>5, <1>6, <1>7, <1>8 DEF LimitsInvariant

\* The inductive invariant of the limiters holds in every reachable state.
THEOREM LimitsInvariantHolds == LimitsSpec => []LimitsInvariant
<1>1. LimitsInit => LimitsInvariant
  BY LimitsInitStep
<1>2. LimitsInvariant /\ [LimitsNext]_limitVars => LimitsInvariant'
  <2> SUFFICES ASSUME LimitsInvariant, [LimitsNext]_limitVars
               PROVE  LimitsInvariant'
    OBVIOUS
  <2>1. CASE UNCHANGED limitVars
    <3>1. UNCHANGED <<limitMix, limitClock, limitWaiting, limitWindow, limitSubject, limitAdmitted,
                      limitRefusal>>
      BY <2>1 DEF limitVars
    <3>2. LimitsTypeOK' /\ WaitingSound' /\ LimitsHold'
      BY <3>1 DEF LimitsInvariant, LimitsTypeOK, WaitingSound, LimitsHold, RefusalDue
    <3>3. \A b \in LimitBuckets : BucketSound(b, limitAdmitted[b], TimesOf(b), limitClock)'
      BY <3>1 DEF LimitsInvariant, TimesOf
    <3> QED BY <3>2, <3>3 DEF LimitsInvariant
  <2> QED BY <2>1, TickStep, EnterStep, ServeStep DEF LimitsNext
<1> QED BY <1>1, <1>2, PTL DEF LimitsSpec

\* The state of the limiters has its type.
THEOREM LimitsTypeCorrect == LimitsSpec => []LimitsTypeOK
<1>1. LimitsInvariant => LimitsTypeOK
  BY DEF LimitsInvariant
<1> QED BY <1>1, LimitsInvariantHolds, PTL

\* However the threads overtake each other on the way to the lock, no stretch
\* of a window sees more requests pass than the limit, the table of subjects
\* keeps its capacity, and every refusal is due and ends in time
\* (LoginRateLimiter.consume, FixedWindowRateLimiter.consume).
THEOREM LimitersHold == LimitsSpec => []LimitsHold
<1>1. LimitsInvariant => LimitsHold
  BY DEF LimitsInvariant
<1> QED BY <1>1, LimitsInvariantHolds, PTL

-----------------------------------------------------------------------------
(* The paged lists *)

\* What the nine lists have in common, and what tells them apart.
LEMMA ListFacts ==
  ASSUME pageList \in Lists
  PROVE  /\ pageList.growth \in {"late", "serial", "numbered", "named", "replaced"}
         /\ pageList.growth = "replaced" <=> pageList = RulesList
         /\ pageList.name \in Relabelled => pageList.growth = "late"
         /\ pageList.growth \in {"serial", "numbered"} => pageList.sorts = {"asc"}
         /\ pageList.sorts \subseteq {"asc", "desc"}
         /\ "filter" \in pageList.bound
         /\ "sort" \in pageList.bound \/ pageList.sorts = {"desc"}
<1>1. /\ IncidentsList.growth = "late" /\ IncidentsList.sorts = {"asc", "desc"}
      /\ ApiIncidentsList.growth = "late" /\ ApiIncidentsList.sorts = {"desc"}
      /\ AuditList.growth = "late" /\ AuditList.sorts = {"asc", "desc"}
      /\ ApiAuditList.growth = "late" /\ ApiAuditList.sorts = {"desc"}
      /\ CommentsList.growth = "late" /\ CommentsList.sorts = {"desc"}
      /\ EvidenceList.growth = "serial" /\ EvidenceList.sorts = {"asc"}
      /\ HistoryList.growth = "numbered" /\ HistoryList.sorts = {"asc"}
      /\ ServersList.growth = "named" /\ ServersList.sorts = {"asc", "desc"}
      /\ RulesList.growth = "replaced" /\ RulesList.sorts = {"asc", "desc"}
  BY DEF List, IncidentsList, ApiIncidentsList, AuditList, ApiAuditList, CommentsList, EvidenceList,
     HistoryList, ServersList, RulesList
<1>2. pageList \in {IncidentsList, ApiIncidentsList, AuditList, ApiAuditList, CommentsList, EvidenceList,
                    HistoryList, ServersList, RulesList}
  BY DEF Lists
<1>3. pageList.name \in Relabelled => pageList \in {IncidentsList, ApiIncidentsList}
  <2>1. /\ AuditList.name = "audit" /\ ApiAuditList.name = "api audit" /\ CommentsList.name = "comments"
        /\ EvidenceList.name = "evidence" /\ HistoryList.name = "history"
        /\ ServersList.name = "servers" /\ RulesList.name = "rules"
        /\ IncidentsList.name = "incidents" /\ ApiIncidentsList.name = "api incidents"
    BY DEF List, IncidentsList, ApiIncidentsList, AuditList, ApiAuditList, CommentsList, EvidenceList,
       HistoryList, ServersList, RulesList
  <2> QED BY <1>2, <2>1 DEF Relabelled
<1>4. /\ ApiIncidentsList.bound = FilterOnly /\ ApiAuditList.bound = FilterOnly
      /\ IncidentsList.bound = Whole /\ AuditList.bound = Whole /\ CommentsList.bound = Whole
      /\ EvidenceList.bound = Whole /\ HistoryList.bound = Whole
      /\ ServersList.bound = Whole /\ RulesList.bound = Whole
  BY DEF List, IncidentsList, ApiIncidentsList, AuditList, ApiAuditList, CommentsList, EvidenceList,
     HistoryList, ServersList, RulesList
<1>5. "filter" \in pageList.bound /\ ("sort" \in pageList.bound \/ pageList.sorts = {"desc"})
  BY <1>1, <1>2, <1>4 DEF Whole, FilterOnly
<1> QED BY <1>1, <1>2, <1>3, <1>5

\* The order of a list is transitive.
LEMMA PrecedesTransitive ==
  ASSUME NEW a, NEW b, NEW c, NEW sort, Precedes(a, b, sort), Precedes(b, c, sort),
         a.at \in Int, b.at \in Int, c.at \in Int, a.id \in Int, b.id \in Int, c.id \in Int
  PROVE  Precedes(a, c, sort)
BY DEF Precedes

\* The page that is shown: rows of the list in its order, and the rows behind
\* the cursor that it leaves out come after it.
LEMMA PageTaken ==
  ASSUME PagesTypeOK, NEW query \in Queries(pageList), NEW rows \in Fetched(query, pageCursor),
         NEW next, next = NextCursor(rows, query),
         NEW k, k = IF next = Nowhere THEN Len(rows) ELSE query.size
  PROVE  /\ rows \in Seq(Listed(query, pageCursor)) /\ k \in Nat /\ k <= Len(rows)
         /\ Listed(query, pageCursor) \subseteq PageRowType
         /\ \A i, j \in 1 .. Len(rows) : i < j => Precedes(rows[i], rows[j], query.sort)
         /\ next = Nowhere \/ (k > 0 /\ next = Encode(rows[k], query))
         /\ \A row \in Listed(query, pageCursor) :
              \/ \E i \in 1 .. k : rows[i] = row
              \/ next # Nowhere /\ Precedes(rows[k], row, query.sort)
<1> DEFINE listed == Listed(query, pageCursor)
<1>1. PICK n \in 0 .. query.size + 1 : rows \in [1 .. n -> listed]
  BY DEF Fetched
<1>2. query.size \in Nat /\ query.size > 0
  <2>1. query.size \in PageSizes
    BY DEF Queries
  <2>2. \A size \in PageSizes : size \in Nat /\ size > 0
    BY PagesAssumption DEF PagesAssumption
  <2> QED BY <2>1, <2>2
<1>3. n \in Nat /\ rows \in Seq(listed) /\ Len(rows) = n /\ DOMAIN rows = 1 .. n
  BY <1>1, <1>2
<1>4. listed \subseteq PageRowType
  BY DEF PagesTypeOK, Listed
<1>5. /\ \A i, j \in 1 .. n : i < j => Precedes(rows[i], rows[j], query.sort)
      /\ \A row \in listed \ Range(rows) :
           n = query.size + 1 /\ \A i \in 1 .. n : Precedes(rows[i], row, query.sort)
  BY <1>3 DEF Fetched
<1>6. next # Nowhere <=> n > query.size
  <2>1. n > query.size => rows[query.size].at \in Nat
    BY <1>1, <1>2, <1>4, PagesAssumption DEF PageRowType, PagesAssumption
  <2> QED BY <1>2, <1>3, <2>1 DEF NextCursor, Encode, Nowhere
<1>7. /\ k \in Nat /\ k <= n
      /\ next # Nowhere => k > 0 /\ n = k + 1 /\ next = Encode(rows[k], query)
      /\ next = Nowhere => k = n
  BY <1>1, <1>2, <1>3, <1>6 DEF NextCursor
<1>8. ASSUME NEW row \in listed
      PROVE  \/ \E i \in 1 .. k : rows[i] = row
             \/ next # Nowhere /\ Precedes(rows[k], row, query.sort)
  <2>1. CASE row \in Range(rows)
    <3>1. PICK i \in 1 .. n : rows[i] = row
      BY <2>1, <1>3 DEF Range
    <3>2. CASE i <= k
      BY <3>1, <3>2, <1>7
    <3>3. CASE i > k
      <4>1. next # Nowhere /\ k \in 1 .. n /\ k < i
        BY <3>1, <3>3, <1>3, <1>7
      <4> QED BY <3>1, <4>1, <1>5
    <3> QED BY <3>1, <3>2, <3>3, <1>7
  <2>2. CASE row \notin Range(rows)
    <3>1. n = query.size + 1 /\ \A i \in 1 .. n : Precedes(rows[i], row, query.sort)
      BY <2>2, <1>5
    <3>2. next # Nowhere /\ k \in 1 .. n
      BY <3>1, <1>2, <1>6, <1>7
    <3> QED BY <3>1, <3>2
  <2> QED BY <2>1, <2>2
<1> QED BY <1>3, <1>4, <1>5, <1>7, <1>8

LEMMA PrefixAdded ==
  ASSUME NEW S, NEW shown \in Seq(S), NEW rows \in Seq(S), NEW k \in Nat, k <= Len(rows),
         NEW longer, longer = shown \o SubSeq(rows, 1, k)
  PROVE  /\ longer \in Seq(S) /\ Len(longer) = Len(shown) + k
         /\ \A i \in 1 .. Len(shown) : longer[i] = shown[i]
         /\ \A i \in 1 .. k : longer[Len(shown) + i] = rows[i]
         /\ \A i \in 1 .. Len(longer) :
              i <= Len(shown) \/ (i - Len(shown) \in 1 .. k /\ longer[i] = rows[i - Len(shown)])
<1>1. PICK part : part = SubSeq(rows, 1, k)
  OBVIOUS
<1>2. part \in Seq(S) /\ Len(part) = k /\ \A i \in 1 .. k : part[i] = rows[i]
  BY <1>1
<1>3. longer \in Seq(S) /\ Len(longer) = Len(shown) + k
  BY <1>1, <1>2
<1>4. \A i \in 1 .. Len(longer) : longer[i] = IF i <= Len(shown) THEN shown[i] ELSE part[i - Len(shown)]
  <2>1. longer = shown \o part
    BY <1>1
  <2> QED BY <1>2, <1>3, <2>1
<1>5. \A i \in 1 .. Len(shown) : longer[i] = shown[i]
  BY <1>3, <1>4
<1>6. \A i \in 1 .. Len(longer) :
        i <= Len(shown) \/ (i - Len(shown) \in 1 .. k /\ longer[i] = rows[i - Len(shown)])
  BY <1>2, <1>3, <1>4
<1>7. ASSUME NEW i \in 1 .. k PROVE longer[Len(shown) + i] = rows[i]
  <2>1. Len(shown) + i \in 1 .. Len(longer) /\ ~(Len(shown) + i <= Len(shown))
    BY <1>3
  <2>2. (Len(shown) + i) - Len(shown) = i
    OBVIOUS
  <2> QED BY <1>6, <2>1, <2>2
<1> QED BY <1>3, <1>5, <1>6, <1>7

\* A page keeps the invariant when its cursor is the last row shown and nothing
\* before the cursor is missing.
LEMMA PageStep ==
  ASSUME PagesTypeOK, SubjectsHeld, NEW query \in Queries(pageList), pageQuery' = query,
         ShowPage(query, pageCursor), UNCHANGED <<pageList, pageRows>>,
         pageStable' \subseteq SubjectsOfRows,
         \/ pageCursor = Nowhere /\ pageShown = <<>>
         \/ /\ pageCursor # Nowhere /\ pageShown # <<>>
            /\ pageCursor.at = pageShown[Len(pageShown)].at
            /\ pageCursor.id = pageShown[Len(pageShown)].id,
         \A i, j \in DOMAIN pageShown : i < j => Precedes(pageShown[i], pageShown[j], query.sort),
         pageCursor = Nowhere \/
           \A row \in pageRows :
             /\ Passes(row, query.filter)
             /\ row.subject \in pageStable' \/ pageList.growth \in {"serial", "numbered"}
             => row.subject \in SubjectsShown \/ Precedes(pageCursor, row, query.sort)
  PROVE  PagesInvariant'
<1>1. PICK rows \in Fetched(query, pageCursor) :
        /\ pageCursor' = NextCursor(rows, query)
        /\ pageShown' = pageShown \o SubSeq(rows, 1, IF pageCursor' = Nowhere THEN Len(rows)
                                                                              ELSE query.size)
        /\ pageState' = IF pageCursor' = Nowhere THEN "ended" ELSE "reading"
  BY DEF ShowPage
<1>2. PICK k : k = IF pageCursor' = Nowhere THEN Len(rows) ELSE query.size
  OBVIOUS
<1>3. /\ rows \in Seq(Listed(query, pageCursor)) /\ k \in Nat /\ k <= Len(rows)
      /\ Listed(query, pageCursor) \subseteq PageRowType
      /\ \A i, j \in 1 .. Len(rows) : i < j => Precedes(rows[i], rows[j], query.sort)
      /\ pageCursor' = Nowhere \/ (k > 0 /\ pageCursor' = Encode(rows[k], query))
      /\ \A row \in Listed(query, pageCursor) :
           \/ \E i \in 1 .. k : rows[i] = row
           \/ pageCursor' # Nowhere /\ Precedes(rows[k], row, query.sort)
  BY <1>1, <1>2, PageTaken
<1>4. \A i \in 1 .. Len(rows) :
        /\ rows[i] \in PageRowType /\ rows[i] \in pageRows
        /\ pageCursor = Nowhere \/ Precedes(pageCursor, rows[i], query.sort)
  <2>1. \A i \in 1 .. Len(rows) : rows[i] \in Listed(query, pageCursor)
    BY <1>3
  <2> QED BY <1>3, <2>1 DEF Listed, Beyond
<1>5. pageShown \in Seq(PageRowType) /\ rows \in Seq(PageRowType)
  <2>1. rows \in [1 .. Len(rows) -> Listed(query, pageCursor)] /\ Len(rows) \in Nat
    BY <1>3
  <2>2. rows \in [1 .. Len(rows) -> PageRowType]
    BY <1>3, <2>1
  <2> QED BY <2>1, <2>2 DEF PagesTypeOK
<1> DEFINE n == Len(pageShown)
<1>6. /\ pageShown' \in Seq(PageRowType) /\ Len(pageShown') = n + k
      /\ \A i \in 1 .. n : pageShown'[i] = pageShown[i]
      /\ \A i \in 1 .. k : pageShown'[n + i] = rows[i]
      /\ \A i \in 1 .. Len(pageShown') : i <= n \/ (i - n \in 1 .. k /\ pageShown'[i] = rows[i - n])
  <2>1. pageShown' = pageShown \o SubSeq(rows, 1, k)
    BY <1>1, <1>2
  <2>2. k \in Nat /\ k <= Len(rows)
    BY <1>3
  <2>3. PICK longer : longer = pageShown'
    OBVIOUS
  <2>4. /\ longer \in Seq(PageRowType) /\ Len(longer) = n + k
        /\ \A i \in 1 .. n : longer[i] = pageShown[i]
        /\ \A i \in 1 .. k : longer[n + i] = rows[i]
        /\ \A i \in 1 .. Len(longer) : i <= n \/ (i - n \in 1 .. k /\ longer[i] = rows[i - n])
    BY <2>1, <2>2, <2>3, <1>5, PrefixAdded
  <2> QED BY <2>3, <2>4
<1>7. n \in Nat /\ DOMAIN pageShown = 1 .. n /\ DOMAIN pageShown' = 1 .. n + k
  BY <1>3, <1>5, <1>6
<1>8. UNCHANGED <<pageList, pageRows>> /\ pageQuery' = query
  OBVIOUS
<1> HIDE DEF n
<1>9. PagesTypeOK'
  <2>1. pageState' \in {"new", "reading", "ended", "refused", "unavailable"} /\ pageState' # "new"
    BY <1>1
  <2>2. \/ pageCursor' = Nowhere
        \/ pageCursor' \in [at : 0 .. MaxAt, id : PageIds, query : Queries(pageList)]
    <3>1. CASE k > 0
      <4>1. rows[k] \in PageRowType
        BY <3>1, <1>3, <1>4
      <4> QED BY <4>1, <1>3 DEF Encode, PageRowType
    <3> QED BY <3>1, <1>3
  <2> QED BY <1>6, <1>8, <2>1, <2>2 DEF PagesTypeOK, Queries
<1>10. SubjectsHeld'
  <2>1. \A row \in pageRows : row.subject = SubjectOf(row)
    BY DEF SubjectsHeld
  <2>2. ASSUME NEW i \in 1 .. n + k PROVE pageShown'[i].subject = SubjectOf(pageShown'[i])
    <3>1. CASE i <= n
      BY <3>1, <1>6, <1>7 DEF SubjectsHeld
    <3>2. CASE ~(i <= n)
      BY <3>2, <2>1, <1>3, <1>4, <1>6
    <3> QED BY <3>1, <3>2
  <2>3. (\A row \in pageRows : row.subject = SubjectOf(row))'
    BY <1>8, <2>1 DEF SubjectOf
  <2>4. (\A i \in DOMAIN pageShown : pageShown[i].subject = SubjectOf(pageShown[i]))'
    BY <1>7, <1>8, <2>2 DEF SubjectOf
  <2>5. (pageStable \subseteq SubjectsOfRows)'
    BY <1>8 DEF SubjectsOfRows
  <2> QED BY <2>3, <2>4, <2>5 DEF SubjectsHeld
<1>11. AtCursor'
  <2> SUFFICES ASSUME pageState' = "reading"
               PROVE  /\ pageShown' # <<>>
                      /\ pageCursor' = Encode(pageShown'[Len(pageShown')], query)
                      /\ pageList.growth \in {"serial", "numbered"} => pageCursor'.at \in Ats
    BY <1>8 DEF AtCursor, Encode, Ats
  <2>1. pageCursor' # Nowhere
    BY <1>1
  <2>2. k > 0 /\ pageCursor' = Encode(rows[k], query) /\ rows[k] \in pageRows
    BY <2>1, <1>3, <1>4
  <2>3. pageShown'[n + k] = rows[k] /\ Len(pageShown') = n + k /\ n + k > 0
    BY <2>2, <1>3, <1>6, <1>7
  <2>4. pageCursor'.at \in Ats
    BY <2>2 DEF Encode, Ats
  <2> QED BY <2>2, <2>3, <2>4
<1>12. ASSUME NEW row \in pageRows, Passes(row, query.filter),
              row.subject \in pageStable' \/ pageList.growth \in {"serial", "numbered"}
       PROVE  \/ row.subject \in SubjectsShown'
              \/ pageCursor' # Nowhere /\ Precedes(pageCursor', row, query.sort)
  <2>1. CASE row \in Listed(query, pageCursor)
    <3>1. CASE \E i \in 1 .. k : rows[i] = row
      <4>1. PICK i \in 1 .. k : rows[i] = row
        BY <3>1
      <4>2. n + i \in DOMAIN pageShown' /\ pageShown'[n + i].subject = row.subject
        BY <4>1, <1>3, <1>6, <1>7
      <4> QED BY <4>2 DEF SubjectsShown
    <3>2. CASE pageCursor' # Nowhere /\ Precedes(rows[k], row, query.sort)
      <4>1. pageCursor'.at = rows[k].at /\ pageCursor'.id = rows[k].id
        BY <3>2, <1>3 DEF Encode
      <4> QED BY <3>2, <4>1 DEF Precedes
    <3> QED BY <2>1, <3>1, <3>2, <1>3
  <2>2. CASE row \notin Listed(query, pageCursor)
    <3>1. row.subject \in SubjectsShown
      BY <1>12, <2>2 DEF Listed, Beyond
    <3>2. PICK i \in 1 .. n : pageShown[i].subject = row.subject
      BY <3>1, <1>7 DEF SubjectsShown
    <3>3. i \in DOMAIN pageShown' /\ pageShown'[i].subject = row.subject
      BY <3>2, <1>3, <1>6, <1>7
    <3> QED BY <3>3 DEF SubjectsShown
  <2> QED BY <2>1, <2>2
<1>13. NothingPassed'
  BY <1>1, <1>8, <1>12 DEF NothingPassed, MustShow, Passes
<1>14. \A i, j \in 1 .. n + k : i < j => Precedes(pageShown'[i], pageShown'[j], query.sort)
  <2> SUFFICES ASSUME NEW i \in 1 .. n + k, NEW j \in 1 .. n + k, i < j
               PROVE  Precedes(pageShown'[i], pageShown'[j], query.sort)
    OBVIOUS
  <2>1. CASE j <= n
    BY <2>1, <1>6, <1>7
  <2>2. CASE i > n
    <3>1. i - n \in 1 .. k /\ j - n \in 1 .. k /\ i - n < j - n
      BY <2>2, <1>3, <1>7
    <3>2. pageShown'[i] = rows[i - n] /\ pageShown'[j] = rows[j - n]
      <4>1. i \in 1 .. Len(pageShown') /\ j \in 1 .. Len(pageShown') /\ ~(i <= n) /\ ~(j <= n)
        BY <2>2, <1>3, <1>6, <1>7
      <4> QED BY <4>1, <1>6
    <3>3. 1 .. k \subseteq 1 .. Len(rows)
      BY <1>3
    <3> QED BY <3>1, <3>2, <3>3, <1>3
  <2>3. CASE i <= n /\ j > n
    <3>1. j - n \in 1 .. k /\ pageShown'[j] = rows[j - n] /\ pageShown'[i] = pageShown[i]
      BY <2>3, <1>3, <1>6, <1>7
    <3>2. pageCursor # Nowhere /\ pageShown # <<>>
      BY <2>3, <1>7 DEF n
    <3> DEFINE last == pageShown[n]
    <3>3. pageCursor.at = last.at /\ pageCursor.id = last.id
      BY <3>2 DEF n
    <3>4. Precedes(last, rows[j - n], query.sort)
      <4>1. Precedes(pageCursor, rows[j - n], query.sort)
        <5>1. j - n \in 1 .. Len(rows)
          BY <3>1, <1>3
        <5> QED BY <3>2, <5>1, <1>4
      <4> QED BY <3>3, <4>1 DEF Precedes
    <3>5. i = n \/ Precedes(pageShown[i], last, query.sort)
      BY <2>3, <1>7
    <3>6. pageShown[i] \in PageRowType /\ last \in PageRowType /\ rows[j - n] \in PageRowType
      <4>1. i \in 1 .. n /\ n \in 1 .. n /\ j - n \in 1 .. Len(rows)
        BY <2>3, <3>1, <1>3, <1>7
      <4> QED BY <4>1, <1>4, <1>5, <1>7
    <3>7. \A row \in PageRowType : row.at \in Int /\ row.id \in Int
      <4>1. PageIds \subseteq Int /\ 0 .. MaxAt \subseteq Int
        BY PagesAssumption DEF PagesAssumption
      <4> QED BY <4>1 DEF PageRowType
    <3>8. Precedes(pageShown[i], rows[j - n], query.sort)
      <4>1. CASE i = n
        BY <3>4, <4>1
      <4>2. CASE Precedes(pageShown[i], last, query.sort)
        <5> HIDE DEF last
        <5> QED BY <3>4, <3>6, <3>7, <4>2, PrecedesTransitive
      <4> QED BY <3>5, <4>1, <4>2
    <3> QED BY <3>1, <3>8
  <2> QED BY <2>1, <2>2, <2>3, <1>7
<1>15. PagesExact'
  <2>1. (\A i, j \in DOMAIN pageShown :
           i < j => Precedes(pageShown[i], pageShown[j], pageQuery.sort) \/ pageState = "refused")'
    BY <1>7, <1>8, <1>14 DEF Precedes
  <2>2. ASSUME pageState' = "ended", NEW row \in pageRows', Passes(row, pageQuery'.filter),
               row.subject \in pageStable' \/ pageList'.growth \in {"serial", "numbered"}
        PROVE  \E i \in DOMAIN pageShown' : pageShown'[i].subject = row.subject
    <3>1. pageCursor' = Nowhere
      BY <1>1, <2>2
    <3> QED BY <2>2, <3>1, <1>8, <1>12 DEF SubjectsShown
  <2> QED BY <2>1, <2>2 DEF PagesExact, Passes
<1>16. pageState' # "new"
  BY <1>1
<1> QED BY <1>9, <1>10, <1>11, <1>13, <1>15, <1>16 DEF PagesInvariant

\* While the list is read: the cursor and its list.
LEMMA Reading ==
  ASSUME PagesInvariant, pageState = "reading"
  PROVE  /\ pageQuery \in Queries(pageList) /\ pageQuery.sort \in {"asc", "desc"}
         /\ Len(pageShown) \in DOMAIN pageShown /\ pageShown[Len(pageShown)] \in PageRowType
         /\ pageCursor = Encode(pageShown[Len(pageShown)], pageQuery) /\ pageCursor # Nowhere
         /\ pageCursor.at \in 0 .. MaxAt /\ pageCursor.id \in PageIds
         /\ pageList \in Lists
         /\ \A row \in PageRowType : row.at \in Int /\ row.id \in Int
<1>1. pageShown \in Seq(PageRowType) /\ pageShown # <<>> /\ pageList \in Lists
  BY DEF PagesInvariant, PagesTypeOK, AtCursor
<1>2. Len(pageShown) \in DOMAIN pageShown /\ pageShown[Len(pageShown)] \in PageRowType
  BY <1>1
<1>3. pageQuery \in Queries(pageList) /\ pageCursor = Encode(pageShown[Len(pageShown)], pageQuery)
  BY DEF PagesInvariant, PagesTypeOK, AtCursor
<1>4. pageQuery.sort \in {"asc", "desc"}
  <2>1. pageQuery.sort \in pageList.sorts
    BY <1>3 DEF Queries
  <2> QED BY <2>1, <1>1, ListFacts
<1>5. pageCursor.at \in 0 .. MaxAt /\ pageCursor.id \in PageIds
  BY <1>2, <1>3 DEF Encode, PageRowType
<1>6. pageCursor # Nowhere
  BY <1>5, PagesAssumption DEF Nowhere, PagesAssumption
<1>7. \A row \in PageRowType : row.at \in Int /\ row.id \in Int
  <2>1. PageIds \subseteq Int /\ 0 .. MaxAt \subseteq Int
    BY PagesAssumption DEF PagesAssumption
  <2> QED BY <2>1 DEF PageRowType
<1> QED BY <1>1, <1>2, <1>3, <1>4, <1>5, <1>6, <1>7

\* The rows change between two pages, and no row that must be shown falls
\* behind the cursor unseen.
LEMMA RowsChange ==
  ASSUME PagesInvariant, pageState = "reading", NEW rows, pageRows' = rows,
         UNCHANGED <<pageList, pageQuery, pageCursor, pageShown, pageState>>,
         rows \subseteq PageRowType, \A row \in rows : row.subject = SubjectOf(row),
         \A subject \in pageStable' : \E row \in rows : row.subject = subject,
         pageList.growth \in {"serial", "numbered"} => pageRows \subseteq rows,
         \A row \in rows :
           /\ Passes(row, pageQuery.filter)
           /\ row.subject \in pageStable' \/ pageList.growth \in {"serial", "numbered"}
           => row.subject \in SubjectsShown \/ Precedes(pageCursor, row, pageQuery.sort)
  PROVE  PagesInvariant'
<1>1. /\ pageRows' = rows
      /\ UNCHANGED <<pageList, pageQuery, pageCursor, pageShown, pageState>>
  OBVIOUS
<1>2. PagesTypeOK'
  BY <1>1 DEF PagesInvariant, PagesTypeOK, Queries
<1>3. SubjectsHeld'
  <2>1. (\A row \in pageRows : row.subject = SubjectOf(row))'
    BY <1>1 DEF SubjectOf
  <2>2. (\A i \in DOMAIN pageShown : pageShown[i].subject = SubjectOf(pageShown[i]))'
    BY <1>1 DEF PagesInvariant, SubjectsHeld, SubjectOf
  <2>3. (pageStable \subseteq SubjectsOfRows)'
    BY <1>1 DEF SubjectsOfRows
  <2> QED BY <2>1, <2>2, <2>3 DEF SubjectsHeld
<1>4. AtCursor'
  <2>1. pageList.growth \in {"serial", "numbered"} => Ats \subseteq Ats'
    BY <1>1 DEF Ats
  <2>2. pageList.growth \in {"serial", "numbered"} => pageCursor.at \in Ats'
    BY <2>1 DEF PagesInvariant, AtCursor
  <2> QED BY <1>1, <2>2 DEF PagesInvariant, AtCursor, Encode
<1>5. NothingPassed'
  BY <1>1 DEF NothingPassed, MustShow, SubjectsShown, Passes
<1>6. PagesExact'
  BY <1>1 DEF PagesInvariant, PagesExact, Precedes
<1> QED BY <1>1, <1>2, <1>3, <1>4, <1>5, <1>6 DEF PagesInvariant

\* A new row is no row that was there, and where nothing may be missed it comes
\* after the cursor.
LEMMA PageRowStep ==
  ASSUME PagesInvariant, PageRow
  PROVE  PagesInvariant'
<1>1. PICK id \in UnusedIds, at \in NewAts, match \in BOOLEAN :
        pageRows' = pageRows \cup {Row(id, at, IF pageList = RulesList THEN at ELSE id, match)}
  BY DEF PageRow
<1>2. PICK new : new = Row(id, at, IF pageList = RulesList THEN at ELSE id, match)
  OBVIOUS
<1>3. /\ pageState = "reading"
      /\ UNCHANGED <<pageList, pageQuery, pageCursor, pageShown, pageStable, pageState>>
  BY DEF PageRow
<1>4. at \in 0 .. MaxAt /\ id \in PageIds
  <2>1. pageList.growth \in {"late", "serial", "numbered", "named", "replaced"}
    BY <1>3, Reading, ListFacts
  <2> QED BY <2>1 DEF NewAts, UnusedIds
<1>5. new \in PageRowType /\ new.subject = SubjectOf(new) /\ new.at = at /\ new.id = id
  <2>1. at \in Nat /\ id \in Nat
    BY <1>4, PagesAssumption DEF PagesAssumption
  <2> QED BY <1>2, <1>4, <2>1 DEF Row, PageRowType, SubjectOf
<1>6. new.subject \notin SubjectsOfRows
  <2>1. \A row \in pageRows : row.subject = SubjectOf(row) /\ row.id # id
    BY DEF PagesInvariant, SubjectsHeld, UnusedIds
  <2>2. CASE pageList = RulesList
    <3>1. at \notin Ats
      BY <2>2, <1>3, Reading, ListFacts DEF NewAts
    <3> QED BY <2>1, <2>2, <3>1, <1>5 DEF SubjectOf, SubjectsOfRows, Ats
  <2>3. CASE pageList # RulesList
    BY <2>1, <2>3, <1>5 DEF SubjectOf, SubjectsOfRows
  <2> QED BY <2>2, <2>3
<1>7. pageList.growth \in {"serial", "numbered"} => Precedes(pageCursor, new, pageQuery.sort)
  <2> SUFFICES ASSUME pageList.growth \in {"serial", "numbered"}
               PROVE  Precedes(pageCursor, new, pageQuery.sort)
    OBVIOUS
  <2>1. pageQuery.sort = "asc"
    <3>1. pageList.sorts = {"asc"}
      BY <1>3, Reading, ListFacts
    <3>2. pageQuery.sort \in pageList.sorts
      BY <1>3, Reading DEF Queries
    <3> QED BY <3>1, <3>2
  <2>2. pageCursor.at \in Ats
    BY <1>3 DEF PagesInvariant, AtCursor
  <2>3. at > pageCursor.at
    BY <2>2 DEF NewAts
  <2> QED BY <2>1, <2>3, <1>5 DEF Precedes
<1>8. ASSUME NEW row \in pageRows \cup {new}, Passes(row, pageQuery.filter),
             row.subject \in pageStable \/ pageList.growth \in {"serial", "numbered"}
      PROVE  row.subject \in SubjectsShown \/ Precedes(pageCursor, row, pageQuery.sort)
  <2>1. CASE row \in pageRows
    BY <1>3, <1>8, <2>1 DEF PagesInvariant, NothingPassed, MustShow
  <2>2. CASE row = new
    <3>1. row.subject \notin pageStable
      BY <2>2, <1>6 DEF PagesInvariant, SubjectsHeld
    <3> QED BY <3>1, <2>2, <1>7, <1>8
  <2> QED BY <2>1, <2>2
<1>9. /\ pageRows' = pageRows \cup {new} /\ pageRows \cup {new} \subseteq PageRowType
      /\ \A row \in pageRows \cup {new} : row.subject = SubjectOf(row)
      /\ \A subject \in pageStable' : \E row \in pageRows \cup {new} : row.subject = subject
  BY <1>1, <1>2, <1>3, <1>5 DEF PagesInvariant, PagesTypeOK, SubjectsHeld, SubjectsOfRows
<1> QED BY <1>3, <1>8, <1>9, RowsChange

\* An incident that changes its status is no longer one that must be shown.
LEMMA PageRelabelStep ==
  ASSUME PagesInvariant, PageRelabel
  PROVE  PagesInvariant'
<1>1. PICK row \in pageRows :
        /\ pageRows' = (pageRows \ {row}) \cup {[row EXCEPT !.match = ~@]}
        /\ pageStable' = pageStable \ {row.subject}
  BY DEF PageRelabel
<1>2. /\ pageState = "reading" /\ pageList.name \in Relabelled
      /\ UNCHANGED <<pageList, pageQuery, pageCursor, pageShown, pageState>>
  BY DEF PageRelabel
<1>3. PICK new : new = [row EXCEPT !.match = ~@]
  OBVIOUS
<1>4. row \in PageRowType /\ row.subject = SubjectOf(row)
  BY DEF PagesInvariant, PagesTypeOK, SubjectsHeld
<1>5. new \in PageRowType /\ new.subject = row.subject /\ new.at = row.at /\ new.id = row.id
  BY <1>3, <1>4 DEF PageRowType
<1>6. pageList.growth = "late"
  BY <1>2, Reading, ListFacts
<1>7. new.subject = SubjectOf(new)
  BY <1>4, <1>5 DEF SubjectOf
<1> DEFINE rows == (pageRows \ {row}) \cup {new}
<1>8. /\ pageRows' = rows /\ rows \subseteq PageRowType
      /\ \A r \in rows : r.subject = SubjectOf(r)
      /\ \A subject \in pageStable' : \E r \in rows : r.subject = subject
  BY <1>1, <1>3, <1>5, <1>7 DEF PagesInvariant, PagesTypeOK, SubjectsHeld, SubjectsOfRows
<1>9. ASSUME NEW r \in rows, Passes(r, pageQuery.filter), r.subject \in pageStable'
      PROVE  r.subject \in SubjectsShown \/ Precedes(pageCursor, r, pageQuery.sort)
  <2>1. r \in pageRows /\ r.subject \in pageStable
    BY <1>1, <1>5, <1>9
  <2> QED BY <1>2, <1>9, <2>1 DEF PagesInvariant, NothingPassed, MustShow
<1> HIDE DEF rows
<1> QED BY <1>2, <1>6, <1>8, <1>9, RowsChange

\* The version that replaces another stands at the same name: either the name
\* was shown, or its rows still come after the cursor.
LEMMA PageReplaceStep ==
  ASSUME PagesInvariant, PageReplace
  PROVE  PagesInvariant'
<1>1. PICK row \in pageRows, id \in UnusedIds, match \in BOOLEAN :
        /\ pageRows' = (pageRows \ {row}) \cup {Row(id, row.at, row.subject, match)}
        /\ pageStable' = IF match = row.match THEN pageStable ELSE pageStable \ {row.subject}
  BY DEF PageReplace
<1>2. /\ pageState = "reading" /\ pageList.growth = "replaced"
      /\ UNCHANGED <<pageList, pageQuery, pageCursor, pageShown, pageState>>
  BY DEF PageReplace
<1>3. PICK new : new = Row(id, row.at, row.subject, match)
  OBVIOUS
<1>4. row \in PageRowType /\ row.subject = SubjectOf(row)
  BY DEF PagesInvariant, PagesTypeOK, SubjectsHeld
<1>5. /\ new \in PageRowType /\ new.subject = row.subject /\ new.at = row.at /\ new.id = id
      /\ new.match = match
  BY <1>3, <1>4 DEF PageRowType, Row, UnusedIds
<1>6. pageList = RulesList
  BY <1>2, Reading, ListFacts
<1>7. new.subject = SubjectOf(new)
  BY <1>4, <1>5, <1>6 DEF SubjectOf
<1> DEFINE rows == (pageRows \ {row}) \cup {new}
<1>8. /\ pageRows' = rows /\ rows \subseteq PageRowType
      /\ \A r \in rows : r.subject = SubjectOf(r)
      /\ \A subject \in pageStable' : \E r \in rows : r.subject = subject
  BY <1>1, <1>3, <1>5, <1>7 DEF PagesInvariant, PagesTypeOK, SubjectsHeld, SubjectsOfRows
<1>9. \A r \in pageRows :
        Passes(r, pageQuery.filter) /\ r.subject \in pageStable =>
          r.subject \in SubjectsShown \/ Precedes(pageCursor, r, pageQuery.sort)
  BY <1>2 DEF PagesInvariant, NothingPassed, MustShow
<1>10. \/ row.subject \in SubjectsShown
       \/ Precedes(pageCursor, row, pageQuery.sort) => Precedes(pageCursor, new, pageQuery.sort)
  <2>1. CASE row.at = pageCursor.at
    <3>1. PICK last \in DOMAIN pageShown : pageCursor = Encode(pageShown[last], pageQuery)
      BY <1>2, Reading
    <3>2. pageShown[last].subject = pageShown[last].at /\ pageShown[last].at = pageCursor.at
      BY <3>1, <1>6 DEF PagesInvariant, SubjectsHeld, SubjectOf, Encode
    <3>3. row.subject = row.at
      BY <1>4, <1>6 DEF SubjectOf
    <3> QED BY <2>1, <3>2, <3>3 DEF SubjectsShown
  <2>2. CASE row.at # pageCursor.at
    BY <2>2, <1>5 DEF Precedes
  <2> QED BY <2>1, <2>2
<1>11. ASSUME NEW r \in rows, Passes(r, pageQuery.filter), r.subject \in pageStable'
       PROVE  r.subject \in SubjectsShown \/ Precedes(pageCursor, r, pageQuery.sort)
  <2>1. r.subject \in pageStable
    BY <1>1, <1>11
  <2>2. CASE r \in pageRows
    BY <1>9, <1>11, <2>1, <2>2
  <2>3. CASE r = new
    <3>1. match = row.match
      BY <1>1, <1>5, <1>11, <2>3
    <3>2. Passes(row, pageQuery.filter) /\ row.subject \in pageStable
      BY <3>1, <1>5, <1>11, <2>1, <2>3 DEF Passes
    <3> QED BY <3>2, <1>5, <1>9, <1>10, <2>3
  <2> QED BY <2>2, <2>3
<1> HIDE DEF rows
<1> QED BY <1>2, <1>8, <1>11, RowsChange

\* A request that is refused, or finds too many rules, shows nothing.
LEMMA NoPage ==
  ASSUME PagesInvariant, pageState # "refused", NEW query \in Queries(pageList), pageQuery' = query,
         \/ pageState' = "refused"
         \/ pageState' = "unavailable" /\ (pageShown = <<>> \/ query.sort = pageQuery.sort),
         UNCHANGED <<pageList, pageRows, pageShown, pageCursor>>, pageStable' \subseteq SubjectsOfRows
  PROVE  PagesInvariant'
<1>1. /\ pageQuery' = query /\ pageState' \in {"refused", "unavailable"}
      /\ pageState' = "unavailable" => pageShown = <<>> \/ query.sort = pageQuery.sort
      /\ UNCHANGED <<pageList, pageRows, pageShown, pageCursor>>
  OBVIOUS
<1>2. PagesTypeOK'
  BY <1>1 DEF PagesInvariant, PagesTypeOK, Queries
<1>3. SubjectsHeld'
  BY <1>1 DEF PagesInvariant, SubjectsHeld, SubjectOf, SubjectsOfRows
<1>4. AtCursor' /\ NothingPassed'
  BY <1>1 DEF AtCursor, NothingPassed
<1>5. PagesExact'
  BY <1>1 DEF PagesInvariant, PagesExact, Precedes
<1> QED BY <1>1, <1>2, <1>3, <1>4, <1>5 DEF PagesInvariant

LEMMA FirstPageStep ==
  ASSUME PagesInvariant, FirstPage
  PROVE  PagesInvariant'
<1>1. PICK query \in Queries(pageList) :
        /\ pageQuery' = query
        /\ IF Readable THEN ShowPage(query, Nowhere)
                       ELSE pageState' = "unavailable" /\ UNCHANGED <<pageShown, pageCursor>>
  BY DEF FirstPage
<1>2. /\ pageState = "new" /\ pageStable' = SubjectsOfRows /\ UNCHANGED <<pageList, pageRows>>
  BY DEF FirstPage, SubjectsOfRows
<1>3. pageShown = <<>> /\ pageCursor = Nowhere /\ PagesTypeOK /\ SubjectsHeld
  BY <1>2 DEF PagesInvariant
<1>4. CASE Readable
  <2>1. ShowPage(query, pageCursor)
    BY <1>1, <1>3, <1>4
  <2>2. \A i, j \in DOMAIN pageShown : i < j => Precedes(pageShown[i], pageShown[j], query.sort)
    BY <1>3
  <2> QED BY <1>1, <1>2, <1>3, <2>1, <2>2, PageStep
<1>5. CASE ~Readable
  BY <1>1, <1>2, <1>3, <1>5, NoPage
<1> QED BY <1>4, <1>5

\* The cursor holds the reader to the filter and the order of the page before.
LEMMA NextPageStep ==
  ASSUME PagesInvariant, NextPage
  PROVE  PagesInvariant'
<1>1. PICK query \in Queries(pageList) :
        /\ pageQuery' = query
        /\ IF Decodes(pageCursor, query) /\ Readable
           THEN ShowPage(query, pageCursor)
           ELSE /\ pageState' = IF Readable \/ ~Decodes(pageCursor, query)
                                THEN "refused" ELSE "unavailable"
                /\ UNCHANGED <<pageShown, pageCursor>>
  BY DEF NextPage
<1>2. /\ pageState = "reading" /\ UNCHANGED <<pageList, pageRows, pageStable>>
  BY DEF NextPage
<1>3. PagesTypeOK /\ SubjectsHeld /\ pageStable' \subseteq SubjectsOfRows
  BY <1>2 DEF PagesInvariant, SubjectsHeld
<1>4. /\ pageQuery \in Queries(pageList) /\ pageCursor = Encode(pageShown[Len(pageShown)], pageQuery)
      /\ pageCursor # Nowhere /\ pageList \in Lists /\ pageShown # <<>>
  <2>1. pageShown # <<>>
    BY <1>2 DEF PagesInvariant, AtCursor
  <2> QED BY <2>1, <1>2, Reading
<1>5. Decodes(pageCursor, query) => query.filter = pageQuery.filter /\ query.sort = pageQuery.sort
  <2> SUFFICES ASSUME Decodes(pageCursor, query)
               PROVE  query.filter = pageQuery.filter /\ query.sort = pageQuery.sort
    OBVIOUS
  <2>1. pageCursor.query = pageQuery
    BY <1>4 DEF Encode
  <2>2. query.filter = pageQuery.filter
    BY <1>4, <2>1, ListFacts DEF Decodes
  <2>3. "sort" \in pageList.bound => query.sort = pageQuery.sort
    BY <2>1 DEF Decodes
  <2>4. pageList.sorts = {"desc"} => query.sort = pageQuery.sort
    BY <1>4 DEF Queries
  <2> QED BY <1>4, <2>2, <2>3, <2>4, ListFacts
<1>6. CASE Decodes(pageCursor, query) /\ Readable
  <2>1. ShowPage(query, pageCursor)
    BY <1>1, <1>6
  <2>2. \A i, j \in DOMAIN pageShown : i < j => Precedes(pageShown[i], pageShown[j], query.sort)
    BY <1>2, <1>5, <1>6 DEF PagesInvariant, PagesExact
  <2>3. pageCursor.at = pageShown[Len(pageShown)].at /\ pageCursor.id = pageShown[Len(pageShown)].id
    BY <1>4 DEF Encode
  <2>4. \A row \in pageRows :
          /\ Passes(row, query.filter)
          /\ row.subject \in pageStable' \/ pageList.growth \in {"serial", "numbered"}
          => row.subject \in SubjectsShown \/ Precedes(pageCursor, row, query.sort)
    BY <1>2, <1>5, <1>6 DEF PagesInvariant, NothingPassed, MustShow
  <2> QED BY <1>1, <1>2, <1>3, <1>4, <2>1, <2>2, <2>3, <2>4, PageStep
<1>7. CASE ~(Decodes(pageCursor, query) /\ Readable)
  <2>1. /\ UNCHANGED <<pageList, pageRows, pageShown, pageCursor>>
        /\ pageState' = "refused" \/ (pageState' = "unavailable" /\ Decodes(pageCursor, query))
    BY <1>1, <1>2, <1>7
  <2> QED BY <1>1, <1>2, <1>3, <1>5, <2>1, NoPage
<1> QED BY <1>6, <1>7

LEMMA PagesInitStep ==
  ASSUME PagesInit
  PROVE  PagesInvariant
<1>1. PICK ids \in SUBSET PageIds : \E at \in [ids -> 0 .. MaxAt], match \in [ids -> BOOLEAN] :
        pageRows = {Row(id, at[id], IF pageList = RulesList THEN at[id] ELSE id, match[id]) : id \in ids}
  BY DEF PagesInit
<1>2. PICK at \in [ids -> 0 .. MaxAt], match \in [ids -> BOOLEAN] :
        pageRows = {Row(id, at[id], IF pageList = RulesList THEN at[id] ELSE id, match[id]) : id \in ids}
  BY <1>1
<1>3. /\ pageList \in Lists /\ pageQuery = Nowhere.query /\ pageCursor = Nowhere
      /\ pageShown = <<>> /\ pageStable = {} /\ pageState = "new"
  BY DEF PagesInit
<1>4. ASSUME NEW row \in pageRows PROVE row \in PageRowType /\ row.subject = SubjectOf(row)
  <2>1. PICK id \in ids : row = Row(id, at[id], IF pageList = RulesList THEN at[id] ELSE id, match[id])
    BY <1>2
  <2>2. id \in PageIds /\ at[id] \in 0 .. MaxAt /\ match[id] \in BOOLEAN
    BY <1>2
  <2>3. id \in Nat /\ at[id] \in Nat
    BY <2>2, PagesAssumption DEF PagesAssumption
  <2> QED BY <2>1, <2>2, <2>3 DEF Row, PageRowType, SubjectOf
<1>5. PagesTypeOK
  BY <1>3, <1>4 DEF PagesTypeOK
<1>6. SubjectsHeld
  BY <1>3, <1>4 DEF SubjectsHeld
<1>7. AtCursor /\ NothingPassed /\ PagesExact
  BY <1>3 DEF AtCursor, NothingPassed, PagesExact
<1> QED BY <1>3, <1>5, <1>6, <1>7 DEF PagesInvariant

\* The inductive invariant of the paged lists holds in every reachable state.
THEOREM PagesInvariantHolds == PagesSpec => []PagesInvariant
<1>1. PagesInit => PagesInvariant
  BY PagesInitStep
<1>2. PagesInvariant /\ [PagesNext]_pageVars => PagesInvariant'
  <2> SUFFICES ASSUME PagesInvariant, [PagesNext]_pageVars
               PROVE  PagesInvariant'
    OBVIOUS
  <2>1. CASE UNCHANGED pageVars
    <3>1. UNCHANGED <<pageList, pageRows, pageQuery, pageCursor, pageShown, pageStable, pageState>>
      BY <2>1 DEF pageVars
    <3>2. PagesTypeOK' /\ SubjectsHeld'
      BY <3>1 DEF PagesInvariant, PagesTypeOK, Queries, SubjectsHeld, SubjectOf, SubjectsOfRows
    <3>3. AtCursor' /\ NothingPassed'
      BY <3>1 DEF PagesInvariant, AtCursor, Ats, Encode, NothingPassed, MustShow, Passes, SubjectsShown,
         Precedes
    <3>4. PagesExact'
      BY <3>1 DEF PagesInvariant, PagesExact, Precedes, Passes
    <3> QED BY <3>1, <3>2, <3>3, <3>4 DEF PagesInvariant
  <2> QED BY <2>1, PageRowStep, PageRelabelStep, PageReplaceStep, FirstPageStep, NextPageStep DEF PagesNext
<1> QED BY <1>1, <1>2, PTL DEF PagesSpec

\* The state of the paged lists has its type.
THEOREM PagesTypeCorrect == PagesSpec => []PagesTypeOK
<1>1. PagesInvariant => PagesTypeOK
  BY DEF PagesInvariant
<1> QED BY <1>1, PagesInvariantHolds, PTL

\* Through every change between two pages, a reader sees the rows in order and
\* none twice, and misses nothing that had been in the list and kept its match,
\* for any rows, page sizes and number of pages (list_*, docs/adr/0008).
THEOREM PagesComplete == PagesSpec => []PagesExact
<1>1. PagesInvariant => PagesExact
  BY DEF PagesInvariant
<1> QED BY <1>1, PagesInvariantHolds, PTL
=============================================================================
