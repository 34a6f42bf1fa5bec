---------------------------- MODULE DemoCatalog ----------------------------
(***************************************************************************)
(* The shipped detection rules and the synthetic scenarios derived from  *)
(* them (demo/scenarios.py, detection-rules/*.yaml): thirteen rules, four *)
(* cases each, every case built from the bounds of its rule.  A value is *)
(* modelled as far as the rules tell values apart: an actor is a pair    *)
(* <<scenario, slot>> (negative for the literal names), an address and a  *)
(* path are numbers.                                                     *)
(***************************************************************************)
EXTENDS DetectionRules, SequencesExt

NoFilters == [f \in {} |-> {}]

-----------------------------------------------------------------------------
(* The rules. *)

Single(type, filters) == [kind |-> "single", type |-> type, filters |-> filters]

CountOver(type, n, window, group) ==
  [kind |-> "threshold", type |-> type, filters |-> NoFilters, threshold |-> n,
   window |-> window, group |-> group]

SprayCondition ==
  [kind |-> "distinct", type |-> "ssh_failed", filters |-> NoFilters, counted |-> "actor",
   threshold |-> 5, minimum |-> 5, window |-> 600, group |-> <<"source_ip">>]

SuccessAfterFailures ==
  [kind |-> "sequence", window |-> 900,
   steps |-> <<[type |-> "ssh_failed", filters |-> NoFilters, repeat |-> 3],
               [type |-> "ssh_login", filters |-> NoFilters, repeat |-> 1]>>]

NewAddress ==
  [kind |-> "first_seen", type |-> "ssh_login", filters |-> NoFilters, value |-> "source_ip",
   scope |-> <<"actor">>, window |-> 2592000, required |-> 1]

RootActor == <<-1, 0>>

CriticalUnits ==
  {"ssh.service", "rsyslog.service", "systemd-journald.service", "cron.service", "auditd.service"}

\* One entry for each file of detection-rules, in the order of their keys.
ShippedRules ==
  LET R(name, correlation, condition) ==
        [rule_key |-> name, enabled |-> TRUE, correlation |-> correlation, condition |-> condition]
  IN  << R("critical_systemd_unit_stopped", <<"unit">>,
           Single("unit_stopped", [unit |-> CriticalUnits])),
         R("cron_job_changed", <<"actor">>,
           Single("cron_changed", [action |-> {"replace", "delete"}])),
         R("nginx_error_spike", <<"status">>,
           CountOver("request_failed", 15, 120, <<"status">>)),
         R("nginx_failed_requests_by_ip", <<"source_ip">>,
           CountOver("request_failed", 12, 300, <<"source_ip">>)),
         R("privileged_group_membership_changed", <<"actor", "group", "action">>,
           Single("group_changed", [group |-> {"sudo", "adm", "wheel"},
                                    action |-> {"added", "removed"}])),
         R("ssh_bruteforce_by_ip", <<"source_ip">>,
           CountOver("ssh_failed", 8, 300, <<"source_ip">>)),
         R("ssh_login_from_new_ip", <<"actor", "source_ip">>, NewAddress),
         R("ssh_password_spray_by_ip", <<"source_ip">>, SprayCondition),
         R("ssh_root_login_success", <<"actor", "source_ip">>,
           Single("ssh_login", [actor |-> {RootActor}])),
         R("ssh_success_after_failures", <<"source_ip", "actor">>, SuccessAfterFailures),
         R("sudo_auth_failures", <<"actor">>,
           CountOver("sudo_failed", 5, 600, <<"actor">>)),
         R("system_file_changed", <<"path">>, Single("file_changed", NoFilters)),
         R("user_account_created", <<"actor">>, Single("user_created", NoFilters)) >>

EnabledRules == {r \in ToSet(ShippedRules) : r.enabled}

ExpectedRuleKeys == {r.rule_key : r \in ToSet(ShippedRules)}

\* The evidence links each rule's matching scenarios must produce.
EvidenceCount ==
  << 1, 1, 15, 12, 1, 8, 2, 5, 1, 4, 5, 1, 1 >>

-----------------------------------------------------------------------------
(* Scenarios.  Scenario o is case o % 4 of rule o \div 4; its events lie 31  *)
(* days before those of the scenario before it.                              *)

CaseOrder == <<"positive", "negative", "boundary_below", "boundary_exact">>

Scenarios == 0 .. 4 * Len(ShippedRules) - 1

RuleOf(o) == ShippedRules[o \div 4 + 1]

CaseOf(o) == CaseOrder[(o % 4) + 1]

ScenarioAnchor(o) == -(31 * 86400 * o)

Matching(c) == c \in {"positive", "boundary_exact"}

SyntheticActor(o, slot) == <<o, slot>>

DocumentationIp(o, slot) ==
  LET ordinal == o * 10 + slot
  IN  ((ordinal \div 254) % 3) * 256 + (ordinal % 254) + 1

\* One event before its identity: the offset from the anchor, and the fields
\* that are present.
EventSpec(type, offset, fields) == [type |-> type, offset |-> offset, fields |-> fields]

By(actor) == [actor |-> actor]

NoFields == [f \in {} |-> 0]

UpToZero(n) == [i \in 1 .. n |-> i - n]

\* The offsets of a rule that counts: n events, one fewer below the bound, and
\* the first one exactly on the bound of the window.
CountedOffsets(c, n, window) ==
  CASE c = "boundary_exact" -> <<-window>> \o UpToZero(n - 1)
    [] c = "boundary_below" -> UpToZero(n - 1)
    [] OTHER                -> UpToZero(n)

NegativeStatuses ==
  <<400, 401, 402, 403, 404, 405, 406, 408, 409, 410, 500, 501, 502, 503, 504>>

RequestSpec(offset, status, ip) ==
  EventSpec("request_failed", offset, [source_ip |-> ip, status |-> status])

\* Fault: both matching cases use the same status, the rule's only correlation field.
SharedStatus(c) == 404

SpikeStatus(c) == IF c = "boundary_exact" THEN 500 ELSE 404

ErrorSpikeSpecs(c, o) ==
  LET offsets == CountedOffsets(c, 15, 120)
  IN  [i \in DOMAIN offsets |->
         RequestSpec(offsets[i], IF c = "negative" THEN NegativeStatuses[i] ELSE SpikeStatus(c),
                     DocumentationIp(o, i - 1))]

FailedRequestsSpecs(c, o) ==
  LET offsets == CountedOffsets(c, 12, 300)
  IN  [i \in DOMAIN offsets |->
         RequestSpec(offsets[i], 403, DocumentationIp(o, IF c = "negative" THEN i - 1 ELSE 0))]

FileChangedSpecs(c, o) ==
  << EventSpec(IF c = "negative" THEN "file_accessed" ELSE "file_changed", 0,
               IF c = "boundary_below" THEN NoFields ELSE [path |-> o]) >>

CronJobSpecs(c, o) ==
  << EventSpec("cron_changed", 0,
       CASE c = "positive"       -> [actor |-> SyntheticActor(o, 0), action |-> "replace"]
         [] c = "negative"       -> [actor |-> SyntheticActor(o, 0), action |-> "list"]
         [] c = "boundary_below" -> [action |-> "replace"]
         [] c = "boundary_exact" -> [actor |-> SyntheticActor(o, 0), action |-> "delete"]) >>

UnitStoppedSpecs(c, o) ==
  << EventSpec("unit_stopped", 0,
       CASE c = "positive"       -> [unit |-> "ssh.service"]
         [] c = "negative"       -> [unit |-> "logrotate.service"]
         [] c = "boundary_below" -> NoFields
         [] c = "boundary_exact" -> [unit |-> "auditd.service"]) >>

PrivilegedGroupSpecs(c, o) ==
  LET actor == SyntheticActor(o, 0)
  IN  << EventSpec("group_changed", 0,
           CASE c = "positive"       -> [actor |-> actor, group |-> "sudo", action |-> "added"]
             [] c = "negative"       -> [actor |-> actor, group |-> "users", action |-> "added"]
             [] c = "boundary_below" -> [actor |-> actor, group |-> "sudo"]
             [] c = "boundary_exact" -> [actor |-> actor, group |-> "wheel", action |-> "removed"]) >>

SshEvent(type, offset, actor, ip) ==
  EventSpec(type, offset, [actor |-> actor, source_ip |-> ip])

BruteforceSpecs(c, o) ==
  LET offsets == CountedOffsets(c, 8, 300)
  IN  [i \in DOMAIN offsets |->
         SshEvent("ssh_failed", offsets[i], SyntheticActor(o, 0),
                  DocumentationIp(o, IF c = "negative" THEN i - 1 ELSE 0))]

FirstSeenSpecs(c, o) ==
  LET baseline == CASE c = "boundary_below" -> -2592001
                    [] c = "boundary_exact" -> -2592000
                    [] OTHER -> -60
  IN  << SshEvent("ssh_login", baseline, SyntheticActor(o, 0), DocumentationIp(o, 0)),
         SshEvent("ssh_login", 0, SyntheticActor(o, 0),
                  DocumentationIp(o, IF c = "negative" THEN 0 ELSE 1)) >>

PasswordSpraySpecs(c, o) ==
  LET offsets == IF c = "boundary_exact" THEN <<-600>> \o UpToZero(4) ELSE UpToZero(5)
      slot(i) == IF c = "boundary_below" /\ i = 5 THEN 3 ELSE i - 1
  IN  [i \in 1 .. 5 |->
         SshEvent("ssh_failed", offsets[i], SyntheticActor(o, slot(i)),
                  DocumentationIp(o, IF c = "negative" THEN i - 1 ELSE 0))]

RootLoginSpecs(c, o) ==
  << SshEvent("ssh_login", 0,
              CASE Matching(c)    -> RootActor
                [] c = "negative" -> SyntheticActor(o, 0)
                [] OTHER          -> <<-1, 1>>,
              DocumentationIp(o, 0)) >>

SequenceSpecs(c, o) ==
  LET offsets == CASE c = "boundary_exact" -> <<-900, -2, -1>>
                   [] c = "boundary_below" -> <<-2, -1>>
                   [] OTHER -> <<-3, -2, -1>>
      failing == SyntheticActor(o, IF c = "negative" THEN 7 ELSE 0)
  IN  [i \in DOMAIN offsets |->
         SshEvent("ssh_failed", offsets[i], failing, DocumentationIp(o, 0))]
      \o << SshEvent("ssh_login", 0, SyntheticActor(o, 0), DocumentationIp(o, 0)) >>

SudoSpecs(c, o) ==
  LET offsets == CountedOffsets(c, 5, 600)
  IN  [i \in DOMAIN offsets |->
         EventSpec("sudo_failed", offsets[i],
                   By(SyntheticActor(o, IF c = "negative" THEN i - 1 ELSE 0)))]

UserCreatedSpecs(c, o) ==
  << EventSpec(CASE Matching(c)    -> "user_created"
                 [] c = "negative" -> "user_deleted"
                 [] OTHER          -> "user_create",
               0, By(IF c = "boundary_exact" THEN <<-1, 2>> ELSE SyntheticActor(o, 0))) >>

EventSpecs(o) ==
  LET c == CaseOf(o)
      k == RuleOf(o).rule_key
  IN  CASE k = "critical_systemd_unit_stopped"       -> UnitStoppedSpecs(c, o)
        [] k = "cron_job_changed"                    -> CronJobSpecs(c, o)
        [] k = "nginx_error_spike"                   -> ErrorSpikeSpecs(c, o)
        [] k = "nginx_failed_requests_by_ip"         -> FailedRequestsSpecs(c, o)
        [] k = "privileged_group_membership_changed" -> PrivilegedGroupSpecs(c, o)
        [] k = "ssh_bruteforce_by_ip"                -> BruteforceSpecs(c, o)
        [] k = "ssh_login_from_new_ip"               -> FirstSeenSpecs(c, o)
        [] k = "ssh_password_spray_by_ip"            -> PasswordSpraySpecs(c, o)
        [] k = "ssh_root_login_success"              -> RootLoginSpecs(c, o)
        [] k = "ssh_success_after_failures"          -> SequenceSpecs(c, o)
        [] k = "sudo_auth_failures"                  -> SudoSpecs(c, o)
        [] k = "system_file_changed"                 -> FileChangedSpecs(c, o)
        [] k = "user_account_created"                -> UserCreatedSpecs(c, o)

\* Events get their identity from their place in the scenario.
Manifest(o) ==
  LET specs == EventSpecs(o)
  IN  {[id |-> 100 * o + i, at |-> ScenarioAnchor(o) + specs[i].offset,
        type |-> specs[i].type, fields |-> specs[i].fields] : i \in DOMAIN specs}

\* A manifest lists its events by (occurred_at, event_id), and event_id is a
\* hash of the place: only events of different times pass whatever the hash.
ManifestValid(o) ==
  /\ Manifest(o) # {}
  /\ \A e, f \in Manifest(o) : e.id < f.id => e.at < f.at

\* What the catalog promises of scenario o: the incident of its rule with so
\* many links, or none.
ExpectedIncident(o) ==
  IF Matching(CaseOf(o)) THEN {<<RuleOf(o).rule_key, EvidenceCount[o \div 4 + 1]>>} ELSE {}
=============================================================================
