---------------------------- MODULE FileIntegrity ----------------------------
(***************************************************************************)
(* The agent's file integrity source: a periodic comparison of the watched *)
(* files with the baseline that the source keeps in its spool cursor.  The *)
(* cursor doubles as the name of the event: normalization derives event_id *)
(* from it, and the spool and the control plane drop an id they know.      *)
(*                                                                         *)
(* A file state stands for what one scan can observe of a path: a digest   *)
(* of the content or of the metadata, with the permissions, or absence.    *)
(***************************************************************************)
EXTENDS Functions, FiniteSets, FiniteSetsExt, Naturals

CONSTANTS
  Paths,      \* paths that may be configured
  States,     \* observable states of a file
  Capacity,   \* spool.max_events
  MaxEdits    \* bound: edits of each file

ASSUME FileIntegrityAssumption ==
  /\ IsFiniteSet(Paths) /\ Paths # {} /\ States # {}
  /\ Capacity \in Nat \ {0} /\ MaxEdits \in Nat

VARIABLES
  file,     \* current state of each path
  watched,  \* the configured paths
  scan,     \* the scan under way
  baseline,   \* the committed baseline, a function on some of the paths
  spool,    \* ids of the spooled events
  stored,   \* ids of the events in the control plane's database
  edits,    \* history: edits of each file
  changes   \* history: changes of each path that a scan saw and committed

integrityVars == <<file, watched, scan, baseline, spool, stored, edits, changes>>

NoBaseline == [p \in {} |-> CHOOSE s \in States : TRUE]

With(states, p, s) == [q \in DOMAIN states \cup {p} |-> IF q = p THEN s ELSE states[q]]

\* old is the baseline the scan began with, committed the one it has come to.
Scan(pc, todo, seen, old, committed) ==
  [pc |-> pc, todo |-> todo, seen |-> seen, old |-> old, committed |-> committed]

Idle == Scan("idle", {}, NoBaseline, NoBaseline, NoBaseline)

IntegrityInit ==
  /\ file \in [Paths -> States]
  /\ watched \in (SUBSET Paths) \ {{}}
  /\ scan = Idle
  /\ baseline = NoBaseline
  /\ spool = {} /\ stored = {}
  /\ edits = [p \in Paths |-> 0]
  /\ changes = [p \in Paths |-> 0]

-----------------------------------------------------------------------------
Edit(p) ==
  /\ edits[p] < MaxEdits
  /\ \E s \in States \ {file[p]} : file' = [file EXCEPT ![p] = s]
  /\ edits' = [edits EXCEPT ![p] = @ + 1]
  /\ UNCHANGED <<watched, scan, baseline, spool, stored, changes>>

\* Every scan starts from the committed cursor: a record that the spool does
\* not take ends the scan.
BeginScan ==
  /\ scan.pc = "idle"
  /\ scan' = Scan("read", watched, NoBaseline, baseline,
                  Restrict(baseline, watched \cap DOMAIN baseline))
  /\ UNCHANGED <<file, watched, baseline, spool, stored, edits, changes>>

\* All paths are read, one after the other, before the first is compared.
Read(p) ==
  /\ scan.pc = "read" /\ p \in scan.todo
  /\ scan' = [scan EXCEPT !.todo = @ \ {p}, !.seen = With(@, p, file[p])]
  /\ UNCHANGED <<file, watched, baseline, spool, stored, edits, changes>>

\* Without a baseline, the first observation becomes one, and is no change.
FinishReading ==
  /\ scan.pc = "read" /\ scan.todo = {}
  /\ IF scan.old = NoBaseline
     THEN baseline' = scan.seen /\ scan' = Idle
     ELSE baseline' = baseline /\ scan' = [scan EXCEPT !.pc = "compare", !.todo = watched]
  /\ UNCHANGED <<file, watched, spool, stored, edits, changes>>

\* Fault: a path that has no baseline yet is reported.
DiffersOrNew(p) == p \notin DOMAIN scan.old \/ scan.old[p] # scan.seen[p]

Differs(p) == p \in DOMAIN scan.old /\ scan.old[p] # scan.seen[p]

\* Fault: the record of one change carries the state of all paths.
AllObserved(p) == scan.seen

\* The baseline that the record of p carries: paths not reached keep their
\* old state, so that their changes are still to be reported.
Observed(p) == With(scan.committed, p, scan.seen[p])

\* Nothing to report. A path without a baseline gets one with the next record.
Pass(p) ==
  /\ scan.pc = "compare" /\ p \in scan.todo /\ ~Differs(p)
  /\ scan' = [scan EXCEPT !.todo = @ \ {p}, !.committed = Observed(p)]
  /\ UNCHANGED <<file, watched, baseline, spool, stored, edits, changes>>

\* A change goes to the spool with its cursor. An id that is in the spool is a
\* duplicate, which moves the cursor; a full spool takes neither.
Report(p) ==
  /\ scan.pc = "compare" /\ p \in scan.todo /\ Differs(p)
  /\ \/ /\ Observed(p) \in spool \/ Cardinality(spool) < Capacity
        /\ spool' = spool \cup {Observed(p)}
        /\ baseline' = Observed(p)
        /\ scan' = [scan EXCEPT !.todo = @ \ {p}, !.committed = Observed(p)]
        /\ changes' = [changes EXCEPT ![p] = @ + 1]
     \/ /\ Observed(p) \notin spool /\ Cardinality(spool) >= Capacity
        /\ scan' = Idle
        /\ UNCHANGED <<baseline, spool, changes>>
  /\ UNCHANGED <<file, watched, stored, edits>>

\* Fault: a change in the set of watched paths is not committed.
EndScanSilently ==
  /\ scan.pc = "compare" /\ scan.todo = {}
  /\ scan' = Idle
  /\ UNCHANGED <<file, watched, baseline, spool, stored, edits, changes>>

\* Paths added and removed reach the cursor even if nothing was reported.
EndScan ==
  /\ scan.pc = "compare" /\ scan.todo = {}
  /\ baseline' = IF DOMAIN scan.committed # DOMAIN scan.old THEN scan.committed ELSE baseline
  /\ scan' = Idle
  /\ UNCHANGED <<file, watched, spool, stored, edits, changes>>

\* The service stops or crashes, and starts with the configuration of the day.
Restart ==
  /\ scan' = Idle
  /\ watched' \in (SUBSET Paths) \ {{}}
  /\ UNCHANGED <<file, baseline, spool, stored, edits, changes>>

\* Delivery, whose own failures are in AgentPipeline: an id that the database
\* has is acknowledged like a new one.
StoreEvent ==
  /\ \E id \in spool : spool' = spool \ {id} /\ stored' = stored \cup {id}
  /\ UNCHANGED <<file, watched, scan, baseline, edits, changes>>

ScanStep ==
  \/ BeginScan \/ FinishReading \/ EndScan
  \/ \E p \in Paths : Read(p) \/ Pass(p) \/ Report(p)

IntegrityNext == ScanStep \/ StoreEvent \/ Restart \/ \E p \in Paths : Edit(p)

IntegritySpec == IntegrityInit /\ [][IntegrityNext]_integrityVars

\* The collector thread goes on scanning and the delivery loop delivering.
IntegrityFairness == WF_integrityVars(ScanStep) /\ WF_integrityVars(StoreEvent)

IntegrityFairSpec == IntegritySpec /\ IntegrityFairness

-----------------------------------------------------------------------------
(* Properties *)

Baselines == UNION {[P -> States] : P \in SUBSET Paths}

\* The variables hold values of their types, a scan stays within the
\* configuration and the spool within its capacity.
IntegrityTypeOK ==
  /\ file \in [Paths -> States] /\ watched \in (SUBSET Paths) \ {{}}
  /\ scan \in [pc: {"idle", "read", "compare"}, todo: SUBSET watched,
               seen: Baselines, old: Baselines, committed: Baselines]
  /\ baseline \in Baselines /\ spool \subseteq Baselines /\ stored \subseteq Baselines
  /\ IsFiniteSet(spool) /\ Cardinality(spool) <= Capacity
  /\ edits \in [Paths -> 0..MaxEdits] /\ changes \in [Paths -> Nat]

\* However scans are cut short by a full spool or a restart, and whatever
\* paths are added and removed, a file is never reported more often than it
\* was changed: no first sight and no repetition passes for a change.
NoFalseAlarm == \A p \in Paths : changes[p] <= edits[p]

\* A watched file's baseline never moves on, nor goes away, without the change
\* having been reported: a scan that stops half-way leaves the rest to be
\* found by the next one.
NoChangeSwallowed ==
  [][/\ \A p \in DOMAIN baseline \cap DOMAIN baseline' :
          baseline'[p] # baseline[p] => changes'[p] > changes[p]
     /\ (DOMAIN baseline \ DOMAIN baseline') \cap watched = {}]_integrityVars

\* Nothing restarts: a step that looks like it is the end of a scan.
Undisturbed == Restart => ScanStep

\* If the service stays up, the baseline comes to be what the files are, for
\* exactly the watched ones: no change is left unseen for good.
Converges ==
  <>[][Undisturbed]_integrityVars => <>[](baseline = Restrict(file, watched))

\* Every change that a scan saw has its event, in the spool or stored: the
\* only one to go unnoticed is one undone within an interval.
EveryChangeReported ==
  Cardinality(spool \cup stored) = MapThenSumSet(LAMBDA p : changes[p], Paths)

-----------------------------------------------------------------------------
(* The inductive invariant *)

\* A scan reads all watched paths, then compares them one by one; what it is
\* about to commit is what it saw, or the old state of a path it has not come to.
ScanSound ==
  /\ scan.pc = "read" =>
       /\ scan.old = baseline /\ DOMAIN scan.seen = watched \ scan.todo
       /\ scan.committed = Restrict(baseline, watched \cap DOMAIN baseline)
  /\ scan.pc = "compare" =>
       /\ DOMAIN scan.seen = watched
       /\ DOMAIN scan.committed = (watched \ scan.todo) \cup (watched \cap DOMAIN scan.old)
       /\ \A p \in watched \ scan.todo : scan.committed[p] = scan.seen[p]
       /\ \A p \in scan.todo \cap DOMAIN scan.old : scan.committed[p] = scan.old[p]

\* The committed baseline is behind the scan in paths only, never in a state.
BaselineFollows ==
  scan.pc = "compare" =>
    /\ watched \cap DOMAIN baseline \subseteq DOMAIN scan.committed
    /\ \A p \in watched \cap DOMAIN baseline : baseline[p] = scan.committed[p]

\* The edits that it takes at least to come from one state to another.
Apart(s, t) == IF s = t THEN 0 ELSE 1

\* Every state a path was seen in leaves room for the edits that made it the
\* one it is in, beyond the changes reported already.
AlarmSound ==
  /\ \A p \in DOMAIN baseline : changes[p] + Apart(baseline[p], file[p]) <= edits[p]
  /\ scan.pc # "idle" =>
       \A p \in DOMAIN scan.seen :
         /\ changes[p] + Apart(scan.seen[p], file[p]) <= edits[p]
         /\ p \in DOMAIN scan.old /\ (scan.pc = "read" \/ p \in scan.todo) =>
              changes[p] + Apart(scan.old[p], scan.seen[p]) + Apart(scan.seen[p], file[p]) <= edits[p]

IntegrityInvariant ==
  IntegrityTypeOK /\ ScanSound /\ BaselineFollows /\ NoFalseAlarm /\ AlarmSound
=============================================================================
