--------------------------- MODULE DetectionRules ---------------------------
(***************************************************************************)
(* The evaluation of detection rules over stored events: what            *)
(* application/detection/engine.py computes for a batch of newly stored  *)
(* events.  Incidents.tla models the transactions, locks and incidents   *)
(* around it with one threshold rule; here the five kinds of condition   *)
(* are modelled as they are evaluated, on the events of one server.      *)
(*                                                                       *)
(* An event is a record [id, at, type, fields]: at is occurred_at in     *)
(* seconds, fields maps each payload or attribute name that is present   *)
(* and not null to its value.  A condition's filters map a field to the  *)
(* set of its allowed values.                                            *)
(***************************************************************************)
EXTENDS Integers, FiniteSets, Sequences, FiniteSetsExt

CONSTANTS
  RuleUniverse,     \* the rules of the small instance below
  EventUniverse     \* the events that can reach it, in any order

\* An event has an id of its own; the schema of a rule gives every window and
\* count, and a sequence has steps, each repeated at least once.
ASSUME RulesAssumption ==
  /\ IsFiniteSet(EventUniverse)
  /\ \A e \in EventUniverse : e.id \in Nat /\ e.at \in Nat
  /\ \A e, f \in EventUniverse : e.id = f.id => e = f
  /\ \A r \in RuleUniverse :
       LET c == r.condition
       IN  /\ c.kind \in {"single", "threshold", "distinct", "sequence", "first_seen"}
           /\ c.kind # "single" => c.window \in Nat
           /\ c.kind \in {"threshold", "distinct"} => c.threshold \in Nat
           /\ c.kind = "distinct" => c.minimum \in Nat
           /\ c.kind = "sequence" =>
                /\ Len(c.steps) \in Nat \ {0} /\ DOMAIN c.steps = 1 .. Len(c.steps)
                /\ \A i \in 1 .. Len(c.steps) : c.steps[i].repeat \in Nat \ {0}

VARIABLES
  rulesStored,      \* events committed so far
  rulesFound        \* <<rule key, correlation>> -> evidence of its incident

rulesVars == <<rulesStored, rulesFound>>

-----------------------------------------------------------------------------
(* Events and fields. *)

Has(e, f) == f \in DOMAIN e.fields

HasAll(e, fs) == \A i \in DOMAIN fs : Has(e, fs[i])

Group(e, fs) == [i \in DOMAIN fs |-> e.fields[fs[i]]]

SameGroup(e, t, fs) == HasAll(e, fs) /\ Group(e, fs) = Group(t, fs)

Matches(e, c) ==
  /\ e.type = c.type
  /\ \A f \in DOMAIN c.filters : Has(e, f) /\ e.fields[f] \in c.filters[f]

\* Both bounds of a window are included.
Within(e, t, window) == e.at \in (t.at - window) .. t.at

ComesAfter(e, f) == e.at > f.at \/ (e.at = f.at /\ e.id > f.id)

\* The n latest events of S, all of them if there are fewer.
Latest(S, n) == {e \in S : Cardinality({f \in S : ComesAfter(f, e)}) < n}

-----------------------------------------------------------------------------
(* Conditions.  Each returns the evidence of a match, {} for no match. *)

IfMatch(evidence, condition) == IF condition THEN evidence ELSE {}

Threshold(c, t, H) ==
  LET evidence == {e \in H : /\ Within(e, t, c.window)
                             /\ Matches(e, c)
                             /\ SameGroup(e, t, c.group)}
  IN  IfMatch(evidence, HasAll(t, c.group) /\ Cardinality(evidence) >= c.threshold)

\* Events without the counted field are no evidence.
Distinct(c, t, H) ==
  LET evidence == {e \in H : /\ Within(e, t, c.window)
                             /\ Matches(e, c)
                             /\ SameGroup(e, t, c.group)
                             /\ Has(e, c.counted)}
  IN  IfMatch(evidence,
              /\ HasAll(t, c.group)
              /\ Cardinality(evidence) >= c.minimum
              /\ Cardinality({e.fields[c.counted] : e \in evidence}) >= c.threshold)

\* Fault: the earliest events before the bound are taken.
ChosenEarliest(S, bound, n) ==
  LET before == {e \in S : e.at < bound}
  IN  {e \in before : Cardinality({f \in before : ComesAfter(e, f)}) < n}

\* The steps are taken from the last to the first.  The trigger is part of the
\* last one; every earlier step takes the latest events that lie strictly
\* before all events chosen for the step after it.
LastStep(c) == c.steps[Len(c.steps)]

ChosenBefore(S, bound, n) == Latest({e \in S : e.at < bound}, n)

Earliest(S) == Min({e.at : e \in S})

TakeStep(step, S, acc) ==
  LET chosen == ChosenBefore({e \in S : Matches(e, step)}, acc.bound, step.repeat)
  IN  IF acc.complete /\ Cardinality(chosen) = step.repeat
        THEN [complete |-> TRUE, events |-> acc.events \cup chosen,
              bound |-> Earliest(chosen)]
        ELSE [complete |-> FALSE, events |-> {}, bound |-> 0]

SequenceCandidates(r, t, H) ==
  {e \in H : Within(e, t, r.condition.window) /\ SameGroup(e, t, r.correlation)}

TakeLast(step, t, S) ==
  LET last == {t} \cup Latest({e \in S \ {t} : Matches(e, step)}, step.repeat - 1)
  IN  [complete |-> Cardinality(last) = step.repeat, events |-> last,
       bound |-> Earliest(last)]

\* What has been taken when the search has come down to step i.
Taken(c, t, S) ==
  LET n == Len(c.steps)
      taken[i \in 1 .. n] == IF i = n THEN TakeLast(c.steps[i], t, S)
                                      ELSE TakeStep(c.steps[i], S, taken[i + 1])
  IN  taken

SequenceOf(r, t, H) ==
  LET all == Taken(r.condition, t, SequenceCandidates(r, t, H))[1]
  IN  IfMatch(all.events, all.complete)

\* Fault: the incident is linked to the trigger alone.
FirstSeenTriggerOnly(c, t, H) ==
  LET baseline == {e \in H \ {t} : /\ Within(e, t, c.window)
                                   /\ Matches(e, c)
                                   /\ SameGroup(e, t, c.scope)}
  IN  IfMatch({t}, /\ Has(t, c.value) /\ HasAll(t, c.scope)
                   /\ Cardinality(baseline) >= c.required
                   /\ \A e \in baseline : Has(e, c.value) => e.fields[c.value] # t.fields[c.value])

\* The trigger's value must be new against a baseline of enough earlier events
\* of the same scope; the baseline is part of the evidence.
FirstSeen(c, t, H) ==
  LET baseline == {e \in H \ {t} : /\ Within(e, t, c.window)
                                   /\ Matches(e, c)
                                   /\ SameGroup(e, t, c.scope)}
  IN  IfMatch(baseline \cup {t},
              /\ Has(t, c.value) /\ HasAll(t, c.scope)
              /\ Cardinality(baseline) >= c.required
              /\ \A e \in baseline : Has(e, c.value) => e.fields[c.value] # t.fields[c.value])

-----------------------------------------------------------------------------
(* One rule, and one batch. *)

\* Only the last step of a sequence can trigger it.
CanTrigger(r, t) ==
  Matches(t, IF r.condition.kind = "sequence" THEN LastStep(r.condition) ELSE r.condition)

\* The query of the history: the types of the condition, inside the window.
HistoryTypes(c) ==
  IF c.kind = "sequence" THEN {c.steps[i].type : i \in DOMAIN c.steps} ELSE {c.type}

LoadHistory(r, t, stored) ==
  IF r.condition.kind = "single" THEN {t}
  ELSE {e \in stored : e.type \in HistoryTypes(r.condition) /\ Within(e, t, r.condition.window)}

EvaluateRule(r, t, H) ==
  LET c == r.condition
  IN  IF ~(r.enabled /\ CanTrigger(r, t) /\ HasAll(t, r.correlation)) THEN {}
      ELSE CASE c.kind = "single"     -> {t}
             [] c.kind = "threshold"  -> Threshold(c, t, H)
             [] c.kind = "distinct"   -> Distinct(c, t, H)
             [] c.kind = "sequence"   -> SequenceOf(r, t, H)
             [] c.kind = "first_seen" -> FirstSeen(c, t, H)

\* Only rules that are active and enabled are read, and only the events this
\* transaction inserted are triggers; the history already holds all of them.
MatchOf(r, t, stored) ==
  <<<<r.rule_key, Group(t, r.correlation)>>, EvaluateRule(r, t, LoadHistory(r, t, stored))>>

RunDetection(rules, new, stored) ==
  {MatchOf(p[1], p[2], stored) : p \in {q \in rules \X new : /\ q[1].enabled
                                                             /\ CanTrigger(q[1], q[2])
                                                             /\ HasAll(q[2], q[1].correlation)}}

\* A match extends the incident of its bucket or opens one: evidence is a set
\* of links and a link already there is left alone.
Persisted(incidents, matches) ==
  LET hits == {m \in matches : m[2] # {}}
  IN  [b \in DOMAIN incidents \cup {m[1] : m \in hits} |->
         (IF b \in DOMAIN incidents THEN incidents[b] ELSE {})
           \cup UNION {{e.id : e \in m[2]} : m \in {h \in hits : h[1] = b}}]

-----------------------------------------------------------------------------
(* The small instance: events of the universe are stored one batch at a      *)
(* time, in any order of arrival, whatever their occurred_at.                *)

RulesInit == rulesStored = {} /\ rulesFound = <<>>

Ingest(batch) ==
  /\ rulesStored' = rulesStored \cup batch
  /\ rulesFound' = Persisted(rulesFound,
                             RunDetection(RuleUniverse, batch, rulesStored \cup batch))

RulesNext == \E e \in EventUniverse \ rulesStored : Ingest({e})

RulesSpec == RulesInit /\ [][RulesNext]_rulesVars

-----------------------------------------------------------------------------
(* Properties. *)

\* A sequence has happened if the window can be cut into consecutive periods, one
\* for each step, with enough matching events in each and the trigger in the last.
Occurs(r, t, H) ==
  LET c == r.condition
      n == Len(c.steps)
      S == SequenceCandidates(r, t, H)
      During(i, cut) == {e \in S : /\ Matches(e, c.steps[i])
                                  /\ (i > 1 => e.at > cut[i - 1])
                                  /\ (i < n => e.at <= cut[i])}
  IN  \E cut \in [1 .. n - 1 -> {e.at : e \in S}] :
        /\ \A i \in 1 .. n : Cardinality(During(i, cut)) >= c.steps[i].repeat
        /\ t \in During(n, cut)

\* The greedy search of _evaluate_sequence, which keeps only the latest events
\* of each step, misses nothing: it finds evidence exactly when some choice of
\* events makes the whole sequence.
SequenceComplete ==
  \A r \in RuleUniverse, t \in rulesStored :
    (r.condition.kind = "sequence" /\ CanTrigger(r, t) /\ HasAll(t, r.correlation)) =>
      (SequenceOf(r, t, LoadHistory(r, t, rulesStored)) # {} <=> Occurs(r, t, rulesStored))

\* The links of an incident justify it on their own: some event of the evidence,
\* evaluated against nothing but the evidence, still matches the rule, although
\* the links were collected by several transactions over a growing history.
\* For rules that count distinct values this needs a correlation by grouped
\* fields, as all rules of the instance have it (CountsPerIncident in the proofs).
EvidenceSuffices ==
  \A b \in DOMAIN rulesFound :
    LET evidence == {e \in rulesStored : e.id \in rulesFound[b]}
    IN  \E r \in RuleUniverse, t \in evidence :
          /\ r.rule_key = b[1]
          /\ HasAll(t, r.correlation) /\ Group(t, r.correlation) = b[2]
          /\ EvaluateRule(r, t, evidence) # {}
=============================================================================
