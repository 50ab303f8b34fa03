-------------------------- MODULE ResponseAnalysis --------------------------
(***************************************************************************)
(* From the responses of a scan to its findings: the comparison of two     *)
(* responses, the rules that classify a difference, the collector that     *)
(* groups and pairs the responses, and the renderings of the report.       *)
(*                                                                         *)
(* A response is a record [task, method, endpoint, status, body, user,     *)
(* role, tampered]; task is the row it came from.  The service never sets  *)
(* a tenant, so the tenants of two responses are always both absent.       *)
(* A body is a value whose JSON leaves and whose likeness to other bodies  *)
(* are given; likeness is counted in percent.  Roles are lower case.       *)
(***************************************************************************)
EXTENDS Lists

CONSTANTS
  NoBody,        \* the body of a response without one
  Leaves,        \* body -> key -> value, after flattening; no keys unless JSON
  Likeness,      \* SequenceMatcher's ratio of two bodies, in percent
  Uuids,         \* leaf values that look like a UUID
  Numerals,      \* leaf values of one to twelve digits
  IdKeys,        \* keys that contain id, user, owner, account or tenant
  PiiKeys,       \* keys that contain email, phone, token, ...
  SecretKeys,    \* keys that contain token, secret, hash, debug, ...
  AdminHints     \* parts of an endpoint that contain admin, role, config, ...

ASSUME LikenessAssumption ==
  \A a, b \in DOMAIN Leaves : Likeness[a, b] \in 0..100 /\ Likeness[a, a] = 100

Threshold  == 65
Severities == <<"CRITICAL", "HIGH", "MEDIUM", "LOW", "INFO">>

\* The seeded defects (their names end in Bug) show that the properties depend
\* on the code; no definition uses them.

----------------------------------------------------------------------------
(* The comparison of two responses *)

BodySimilarity(a, b) ==
  IF a = NoBody \/ b = NoBody THEN (IF a = b THEN 100 ELSE 0) ELSE Likeness[a, b]

FlattenJson(body) == IF body = NoBody THEN << >> ELSE Leaves[body]

\* A number counts only under a key that speaks of an identity.
ExtractIds(body) ==
  LET flat == FlattenJson(body)
  IN {flat[k] : k \in {k \in DOMAIN flat :
        flat[k] \in Uuids \/ (flat[k] \in Numerals /\ k \in IdKeys)}}

FieldDiff(a, b) ==
  LET ka == DOMAIN FlattenJson(a)
      kb == DOMAIN FlattenJson(b)
  IN [leaked |-> ka \cap kb, added |-> kb \ ka, removed |-> ka \ kb,
      changed |-> {k \in ka \cap kb : FlattenJson(a)[k] # FlattenJson(b)[k]}]

\* Whether a difference is one, in the order of the code's three branches.
AnomalyReason(a, b, similarity, foreign) ==
  IF a.user = b.user THEN "none"
  ELSE IF a.status = 200 /\ b.status = 200 /\ similarity >= Threshold THEN "same_data"
  ELSE IF foreign # {} /\ 200 \in {a.status, b.status} THEN "foreign_ids"
  ELSE IF a.status \in {401, 403} /\ b.status = 200 THEN "only_b_allowed"
  ELSE "none"

\* a is the reference and b the challenger.
CompareResponses(a, b) ==
  LET similarity == BodySimilarity(a.body, b.body)
      foreign == IF a.user # b.user THEN ExtractIds(a.body) \cap ExtractIds(b.body)
                 ELSE {}
      reason == AnomalyReason(a, b, similarity, foreign)
  IN [a |-> a, b |-> b, similarity |-> similarity, fields |-> FieldDiff(a.body, b.body),
      foreign |-> foreign, reason |-> reason, anomaly |-> reason # "none"]

----------------------------------------------------------------------------
(* The classification of a difference *)

IssueMeta ==
  [BOLA |-> "CWE-285", BFLA |-> "CWE-862", TENANT_LEAK |-> "CWE-284",
   JWT_BYPASS |-> "CWE-287", PRIV_ESCALATION |-> "CWE-269", INFO_DISCLOSURE |-> "CWE-200"]

ScoreBola(diff) ==
  IF diff.fields.leaked \cap PiiKeys # {} \/ diff.similarity >= 90 THEN "CRITICAL"
  ELSE IF diff.similarity >= 70 \/ Cardinality(diff.fields.leaked) >= 5 THEN "HIGH"
  ELSE "MEDIUM"

ScoreBfla(diff) ==
  LET destructive == diff.a.method \in {"DELETE", "PUT", "PATCH"}
      hinted == Range(diff.a.endpoint) \cap AdminHints # {}
  IN IF destructive /\ hinted THEN "CRITICAL"
     ELSE IF destructive \/ hinted THEN "HIGH" ELSE "MEDIUM"

\* The request of the challenger, to be sent again with its token.
BuildRepro(diff) ==
  [method |-> diff.a.method, url |-> diff.b.endpoint, sender |-> diff.b.user,
   expected |-> 403, actual |-> diff.b.status]

NewIssue(diff, type, severity) ==
  [type |-> type, severity |-> severity, cwe |-> IssueMeta[type], method |-> diff.a.method,
   endpoint |-> diff.a.endpoint, diff |-> diff, repro |-> BuildRepro(diff)]

BothAllowed(diff) == diff.a.status = 200 /\ diff.b.status = 200

\* Each check gives the sequence of the issues it finds, one at most.
Check(found, diff, type, severity) ==
  IF found THEN <<NewIssue(diff, type, severity)>> ELSE << >>

CheckBola(diff) ==
  Check(BothAllowed(diff) /\ diff.similarity >= Threshold /\ diff.a.user # diff.b.user,
        diff, "BOLA", ScoreBola(diff))

ForbiddenOnlyBug(diff) ==
  Check(diff.a.status = 403 /\ diff.b.status = 200, diff, "BFLA", ScoreBfla(diff))

CheckBfla(diff) ==
  Check(diff.a.status \in {401, 403} /\ diff.b.status = 200, diff, "BFLA", ScoreBfla(diff))

CheckTenantLeak(diff) == Check(diff.foreign # {}, diff, "TENANT_LEAK", "CRITICAL")

CheckJwtBypass(diff) ==
  Check(diff.b.status = 200 /\ diff.b.tampered, diff, "JWT_BYPASS", "CRITICAL")

RoleRank(role) ==
  CASE role = "admin" -> 3 [] role = "manager" -> 2 [] role = "guest" -> 0 [] OTHER -> 1

CheckPrivilegeEscalation(diff) ==
  Check(BothAllowed(diff) /\ RoleRank(diff.b.role) < RoleRank(diff.a.role)
          /\ diff.similarity >= 50,
        diff, "PRIV_ESCALATION", "HIGH")

CheckInfoDisclosure(diff) ==
  Check(diff.fields.added \cap SecretKeys # {}, diff, "INFO_DISCLOSURE", "MEDIUM")

FirstIssueOnlyBug(diff) ==
  LET found == CheckJwtBypass(diff) \o CheckTenantLeak(diff) \o CheckBola(diff) \o CheckBfla(diff)
                 \o CheckPrivilegeEscalation(diff) \o CheckInfoDisclosure(diff)
  IN IF ~diff.anomaly \/ found = << >> THEN << >> ELSE <<Head(found)>>

ClassifyDiff(diff) ==
  IF ~diff.anomaly THEN << >>
  ELSE CheckJwtBypass(diff) \o CheckTenantLeak(diff) \o CheckBola(diff) \o CheckBfla(diff)
         \o CheckPrivilegeEscalation(diff) \o CheckInfoDisclosure(diff)

----------------------------------------------------------------------------
(* The collector *)

NewCollector == [buffer |-> << >>, diffs |-> << >>, issues |-> << >>, requests |-> 0]

KeepLatestBug(c, r) ==
  LET key == <<r.method, r.endpoint>>
      i == SelectInSeq(c.buffer, LAMBDA group : group.key = key)
  IN [c EXCEPT
        !.buffer = IF i = 0 THEN Append(@, [key |-> key, responses |-> <<r>>])
                   ELSE [@ EXCEPT ![i].responses = <<Head(@), r>>],
        !.requests = @ + 1]

\* The buffer keeps its groups in the order of their first response.
OnResult(c, r) ==
  LET key == <<r.method, r.endpoint>>
      i == SelectInSeq(c.buffer, LAMBDA group : group.key = key)
      grown == IF i = 0 THEN Append(c.buffer, [key |-> key, responses |-> <<r>>])
               ELSE [c.buffer EXCEPT ![i].responses = Append(@, r)]
  IN [c EXCEPT !.buffer = grown, !.requests = @ + 1]

Admins(responses) == Picked(responses, {i \in DOMAIN responses : responses[i].role = "admin"})
Others(responses) == Picked(responses, {i \in DOMAIN responses : responses[i].role # "admin"})

\* The challengers that differ from the reference in user or role
PairsWith(ref, others) ==
  LET differ == {i \in DOMAIN others : ref.user # others[i].user \/ ref.role # others[i].role}
  IN Picked([i \in DOMAIN others |-> <<ref, others[i]>>], differ)

FirstIsReferenceBug(responses) ==
  PairsWith(Head(responses), Tail(responses))

\* An administrator is the reference; without one, whoever was read first.
BuildPairs(responses) ==
  LET admins == Admins(responses)
      refs   == IF admins = << >> THEN <<Head(responses)>> ELSE admins
      others == IF admins = << >> THEN Tail(responses) ELSE Others(responses)
  IN FlattenSeq([i \in DOMAIN refs |-> PairsWith(refs[i], others)])

ProcessBuffered(c) ==
  LET groups == Picked(c.buffer, {g \in DOMAIN c.buffer : Len(c.buffer[g].responses) >= 2})
      pairs  == FlattenSeq([g \in DOMAIN groups |-> BuildPairs(groups[g].responses)])
      diffs  == [i \in DOMAIN pairs |-> CompareResponses(pairs[i][1], pairs[i][2])]
  IN [c EXCEPT !.diffs = @ \o diffs,
               !.issues = FlattenSeq([i \in DOMAIN diffs |-> ClassifyDiff(diffs[i])])]

----------------------------------------------------------------------------
(* The report and its renderings *)

OfSeverity(issues, severity) == Picked(issues, {i \in DOMAIN issues : issues[i].severity = severity})
CountOf(issues, severity) == Len(OfSeverity(issues, severity))

MildestFirstBug(issues) ==
  FlattenSeq([k \in DOMAIN Severities |-> OfSeverity(issues, Reverse(Severities)[k])])

\* Worst first; issues of one severity keep their order.
BySeverity(issues) ==
  FlattenSeq([k \in DOMAIN Severities |-> OfSeverity(issues, Severities[k])])

BuildReport(c) ==
  [endpoints |-> Len(c.buffer), requests |-> c.requests, total |-> Len(c.issues),
   counts |-> [s \in Range(Severities) |-> CountOf(c.issues, s)],
   issues |-> BySeverity(c.issues)]

\* What has been found already is reported again without another look.
Flush(c) == BuildReport(IF c.issues = << >> THEN ProcessBuffered(c) ELSE c)

\* The counts a rendering shows, and the issues it lists.
Rendered(report, shown) ==
  [total |-> report.total, counts |-> [s \in shown |-> report.counts[s]],
   issues |-> report.issues]

GenerateJson(report)     == Rendered(report, Range(Severities))
GenerateMarkdown(report) == Rendered(report, Range(Severities) \ {"INFO"})
GenerateHtml(report)     == Rendered(report, Range(Severities) \ {"INFO"})

SaveReport(report) ==
  [json |-> GenerateJson(report), html |-> GenerateHtml(report),
   md |-> GenerateMarkdown(report)]

----------------------------------------------------------------------------
(* What the API makes of it *)

Cvss == [CRITICAL |-> 95, HIGH |-> 80, MEDIUM |-> 55, LOW |-> 30, INFO |-> 0]

IssueToApiDict(issue) ==
  [type |-> issue.type, severity |-> issue.severity, path |-> issue.endpoint,
   method |-> issue.method, cvss |-> Cvss[issue.severity], impact |-> issue.diff.reason]

UsersOnlyBug(responses) ==
  LET users == Picked(responses, {i \in DOMAIN responses : responses[i].role = "user"})
  IN Range(Admins(responses)) \X Range(users)

\* The role-swap view groups as the collector does, but compares an
\* administrator with everyone else and keeps what is no anomaly.
RoleSwapPairs(responses) ==
  LET admins == Admins(responses)
      refs   == IF admins = << >> /\ Len(responses) >= 2 THEN <<Head(responses)>> ELSE admins
      others == IF admins = << >> THEN Tail(responses) ELSE Others(responses)
  IN Range(refs) \X Range(others)

RoleSwaps(responses) ==
  LET groups == FoldLeft(OnResult, NewCollector, responses).buffer
      pairs == UNION {RoleSwapPairs(groups[i].responses) : i \in DOMAIN groups}
  IN {[source |-> p[1].task, target |-> p[2].task,
       bypass |-> CompareResponses(p[1], p[2]).anomaly] : p \in pairs}

\* One scan's part of the dashboard, and the two scores.
DashboardStats(issues) ==
  LET counts == [s \in Range(Severities) \ {"INFO"} |-> CountOf(issues, s)]
      lost == 15 * counts["CRITICAL"] + 10 * counts["HIGH"] + 5 * counts["MEDIUM"] + counts["LOW"]
  IN [counts |-> counts, total |-> MapThenSumSet(LAMBDA s : counts[s], DOMAIN counts),
      security |-> IF lost > 100 THEN 0 ELSE 100 - lost,
      risk |-> IF counts["CRITICAL"] > 0 THEN 95 ELSE IF counts["HIGH"] > 0 THEN 75
               ELSE IF counts["MEDIUM"] > 0 THEN 45 ELSE IF counts["LOW"] > 0 THEN 15 ELSE 0]

\* Two of the copilot's answers: the findings that speak of authorization,
\* whose texts name it for these types, and the most critical finding.
AboutAuthorization(issues) ==
  SelectSeq(issues, LAMBDA i : i.type \in {"BOLA", "BFLA", "TENANT_LEAK", "PRIV_ESCALATION"})
CopilotQuery(topic, issues) ==
  CASE topic = "authorization" -> AboutAuthorization(issues)
    [] topic = "critical" -> IF issues = << >> THEN << >> ELSE <<issues[1]>>

=============================================================================
