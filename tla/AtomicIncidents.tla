--------------------------- MODULE AtomicIncidents ---------------------------
(***************************************************************************)
(* What ingestion and the incident workflow promise, with no transactions, *)
(* locks or concurrent calls: events are taken in one batch after another, *)
(* and each batch is evaluated, as one step, on everything known by then;  *)
(* what it finds in a bucket extends the active incident of the bucket or  *)
(* opens one.  An operator's change, or comment, is one step that uses up  *)
(* its idempotency key.  Nothing else happens to an incident.              *)
(***************************************************************************)
EXTENDS Integers, FiniteSets

CONSTANTS Incidents, Buckets, Events, Bucket, Occurred, Threshold, Window, Keys

VARIABLES
  known,     \* events taken in
  incident,  \* status, bucket, version and evidence of each incident
  used       \* idempotency keys that have had their effect

vars == <<known, incident, used>>

Active == {"new", "investigating"}

AllowedTransitions ==
  {<<"new", "investigating">>} \cup (Active \X {"resolved", "false_positive"})

Init ==
  /\ known = {} /\ used = {}
  /\ incident =
       [i \in Incidents |-> [status |-> "none", bucket |-> "none", version |-> 0, evidence |-> {}]]

-----------------------------------------------------------------------------
InWindow(e, events) ==
  {f \in events : /\ Bucket[f] = Bucket[e]
                  /\ Occurred[f] \in (Occurred[e] - Window)..Occurred[e]}

\* What the new events of a batch complete in a bucket.
Found(k, new, events) ==
  UNION {InWindow(e, events) :
           e \in {f \in new : Bucket[f] = k /\ Cardinality(InWindow(f, events)) >= Threshold}}

ActiveIn(k) == {i \in Incidents : incident[i].bucket = k /\ incident[i].status \in Active}

\* The incident that takes what was found in a bucket.
Takes(i, k) ==
  IF ActiveIn(k) = {} THEN incident[i].status = "none" ELSE ActiveIn(k) = {i}

With(old, k, found) ==
  IF old.status = "none"
    THEN [status |-> "new", bucket |-> k, version |-> 1, evidence |-> found]
    ELSE [old EXCEPT !.evidence = @ \cup found]

TakeIn ==
  LET found == [k \in Buckets |-> Found(k, known' \ known, known')]
      hit == {k \in Buckets : found[k] # {}} IN
  /\ known \subseteq known' /\ known' \subseteq Events
  /\ DOMAIN incident' = Incidents
  /\ \E target \in [hit -> Incidents] :
       /\ \A k \in hit : /\ Takes(target[k], k)
                         /\ incident'[target[k]] = With(incident[target[k]], k, found[k])
                         /\ \A l \in hit \ {k} : target[l] # target[k]
       /\ \A i \in Incidents : (\A k \in hit : target[k] # i) => incident'[i] = incident[i]
  /\ UNCHANGED used

Change(i, to, key) ==
  /\ key \notin used
  /\ <<incident[i].status, to>> \in AllowedTransitions
  /\ incident' = [incident EXCEPT ![i] = [@ EXCEPT !.status = to, !.version = incident[i].version + 1]]
  /\ used' = used \cup {key}
  /\ UNCHANGED known

Comment(i, key) ==
  /\ key \notin used /\ incident[i].status # "none"
  /\ used' = used \cup {key}
  /\ UNCHANGED <<known, incident>>

Next ==
  \/ TakeIn
  \/ \E i \in Incidents, key \in Keys :
       Comment(i, key) \/ \E to \in Active \cup {"resolved", "false_positive"} : Change(i, to, key)

Spec == Init /\ [][Next]_vars
=============================================================================
