---------------------------- MODULE ScanPipeline ----------------------------
(***************************************************************************)
(* A scan from its OpenAPI document to its findings: discover_and_submit   *)
(* turns the document into task rows, workers answer the rows in any       *)
(* order, and the report, the role swaps, the dashboard and the copilot    *)
(* are computed from whatever has been answered when somebody asks.        *)
(*                                                                         *)
(* ScanExecution holds the queue and the attempts between the two; here a  *)
(* row without a usable answer may always be answered again.               *)
(***************************************************************************)
EXTENDS TaskGeneration, ResponseAnalysis

CONSTANTS
  Sites,          \* deployments: [node, postgres]
  Requests,       \* discover requests: [doc, base, tokens]
  Claims,         \* token -> [user, role, decodable, tampered], defaults filled in
  Unstorable,     \* tokens that hold a null character, which PostgreSQL refuses
  QuerySuffixes,  \* tokens that end a URL's path: ?admin=true, #admin, ;admin
  Statuses,       \* status codes of the target, without 429
  Bodies,         \* bodies of the target
  Watched         \* bound: the numbers of the rows that get answers

ASSUME BodiesAssumption == Bodies \subseteq DOMAIN Leaves \cup {NoBody}

\* A malformed document may hold anything where an entry is expected.
ASSUME RequestsAssumption ==
  \A req \in Requests :
    /\ IsList(req.base) /\ IsList(req.tokens) /\ IsList(req.doc.paths)
    /\ \A entry \in Range(req.doc.paths) :
         entry.wellFormed => IsList(entry.path) /\ IsList(entry.ops)

VARIABLES
  site,      \* where the API runs
  request,   \* the last discover request
  reply,     \* what it was answered
  status,    \* the scan's status
  rows,      \* the scan's task rows
  answers    \* row -> its scan_responses row

vars == <<site, request, reply, status, rows, answers>>

NoRequest == [doc |-> [state |-> "empty", security |-> "absent", paths |-> << >>],
              base |-> << >>, tokens |-> << >>]

----------------------------------------------------------------------------
(* Discovery *)

AllTasks(req) ==
  LET endpoints == Parse(req.doc).endpoints
  IN GenerateTasksFromSpec(endpoints, req.base)
       \o GenerateJwtTasks(endpoints, req.tokens, req.base)
       \o GenerateMutations(endpoints, req.base, site.node)

\* The token becomes a header of the row.
ToRow(task) ==
  [task EXCEPT !.headers =
     @ \cup (IF task.token = NoToken THEN {} ELSE {<<"Authorization", task.token>>})]

\* One row that cannot be stored fails the commit of all.
Stored(tasks) ==
  ~site.postgres \/ \A i \in DOMAIN tasks : Range(tasks[i].url) \cap Unstorable = {}

DiscoverRejected(req) ==
  /\ rows = << >>
  /\ LET result == Parse(req.doc)
     IN /\ result.raised \/ AllTasks(req) = << >>
        /\ reply' = IF result.raised THEN "server_error"
                    ELSE IF result.errors THEN "invalid_spec" ELSE "no_endpoints"
  /\ request' = req
  /\ UNCHANGED <<site, status, rows, answers>>

\* The scan is running before its rows are committed.
DiscoverFails(req) ==
  /\ rows = << >>
  /\ ~Parse(req.doc).raised /\ AllTasks(req) # << >> /\ ~Stored(AllTasks(req))
  /\ request' = req /\ reply' = "server_error" /\ status' = "RUNNING"
  /\ UNCHANGED <<site, rows, answers>>

\* A seeded defect (its name ends in Bug): no specification uses it.
AcceptedStaysPendingBug(req) ==
  /\ rows = << >>
  /\ ~Parse(req.doc).raised /\ AllTasks(req) # << >> /\ Stored(AllTasks(req))
  /\ request' = req /\ reply' = "accepted"
  /\ rows' = Each(AllTasks(req), ToRow)
  /\ UNCHANGED <<site, status, answers>>

DiscoverAccepted(req) ==
  /\ rows = << >>
  /\ ~Parse(req.doc).raised /\ AllTasks(req) # << >> /\ Stored(AllTasks(req))
  /\ request' = req /\ reply' = "accepted" /\ status' = "RUNNING"
  /\ rows' = Each(AllTasks(req), ToRow)
  /\ UNCHANGED <<site, answers>>

----------------------------------------------------------------------------
(* Answers *)

Unsettled(i) == i \in DOMAIN answers => answers[i].status \in {0, 429}

SaveResponse(i, response) ==
  /\ Unsettled(i)
  /\ answers' = [j \in DOMAIN answers \cup {i} |-> IF j = i THEN response ELSE answers[j]]
  /\ UNCHANGED <<site, request, reply, status, rows>>

\* A request without a URL cannot be sent.
Succeed(i) ==
  \E s \in Statuses, b \in Bodies :
    rows[i].url # << >> /\ SaveResponse(i, [status |-> s, body |-> b])
Throttle(i) == rows[i].url # << >> /\ SaveResponse(i, [status |-> 429, body |-> NoBody])
Fail(i) == SaveResponse(i, [status |-> 0, body |-> NoBody])

----------------------------------------------------------------------------
(* Reports.  The rows are read without an order: every view takes one.     *)

Answered == {i \in DOMAIN answers : answers[i].status # 0}

Response(i, endpoint, identity) ==
  [task |-> i, method |-> rows[i].method, endpoint |-> endpoint,
   status |-> answers[i].status, body |-> answers[i].body,
   user |-> identity.user, role |-> identity.role,
   tampered |-> rows[i].token # NoToken /\ Claims[rows[i].token].tampered]

\* The claims of the row's token; other is who sends no token, or a broken one.
Identity(i, other) ==
  IF rows[i].token # NoToken /\ Claims[rows[i].token].decodable
  THEN [user |-> Claims[rows[i].token].user, role |-> Claims[rows[i].token].role]
  ELSE other

ReportResponse(i) ==
  Response(i, rows[i].url, Identity(i, [user |-> "unknown", role |-> "user"]))

GenerateReport(order) == Flush(FoldLeft(OnResult, NewCollector, Each(order, ReportResponse)))

\* The path of a URL, or the URL when it has none.
UrlPath(url) ==
  LET slashes == SelectSeq([i \in DOMAIN url |-> i], LAMBDA i : url[i] = "/")
      first == IF url[1] = "/" THEN 1 ELSE IF Len(slashes) < 3 THEN Len(url) + 1 ELSE slashes[3]
      end == SelectInSeq(url, LAMBDA t : t \in QuerySuffixes)
      path == SubSeq(url, first, IF end = 0 THEN Len(url) ELSE end - 1)
  IN IF path = << >> THEN url ELSE path

SwapResponse(i) ==
  Response(i, UrlPath(rows[i].url), Identity(i, [user |-> "anonymous", role |-> "guest"]))

GetScanRoleSwaps(order) == RoleSwaps(Each(order, SwapResponse))

GetScanVulnerabilities(order) == Each(GenerateReport(order).issues, IssueToApiDict)

----------------------------------------------------------------------------

Init ==
  /\ site \in Sites
  /\ request = NoRequest /\ reply = "none" /\ status = "PENDING"
  /\ rows = << >> /\ answers = << >>

Discover == \E req \in Requests :
  DiscoverRejected(req) \/ DiscoverFails(req) \/ DiscoverAccepted(req)
Work == \E i \in DOMAIN rows \cap Watched : Succeed(i) \/ Throttle(i) \/ Fail(i)

Next == Discover \/ Work
Spec == Init /\ [][Next]_vars

----------------------------------------------------------------------------
(* What discovery promises.  The rows never change once they are there, so *)
(* these are looked at before the first answer.                            *)

Unanswered == answers = << >>
OperationsOf(entry) ==
  {<<UpperCase(op.name), NormalizePath(entry.path)>> :
     op \in {op \in Range(entry.ops) : op.wellFormed /\ UpperCase(op.name) \in ValidMethods}}
Operations(doc) ==
  UNION {OperationsOf(entry) : entry \in {entry \in Range(doc.paths) : entry.wellFormed}}
Rows(kind) == {i \in DOMAIN rows : rows[i].kind = kind}

\* Types; and a scan that has rows is running (discover_and_submit).
TypeOK ==
  /\ site \in Sites /\ request \in Requests \cup {NoRequest}
  /\ reply \in {"none", "accepted", "invalid_spec", "no_endpoints", "server_error"}
  /\ status \in {"PENDING", "RUNNING"} /\ (rows # << >> => status = "RUNNING")
  /\ \A i \in DOMAIN rows : rows[i].kind \in {"crawler", "jwt", "fuzz"}
  /\ DOMAIN answers \subseteq DOMAIN rows
  /\ \A i \in DOMAIN answers : answers[i].status \in Statuses \cup {0, 429}
                              /\ answers[i].body \in Bodies \cup {NoBody}

\* Whatever else the document holds - repeated slashes, a path written twice,
\* unknown methods, broken entries - each of its operations gets one crawler
\* task, and nothing else does (OpenAPIParser.parse, generate_tasks_from_spec).
EveryOperationTested ==
  (reply = "accepted" /\ Unanswered) =>
    /\ \A op \in Operations(request.doc) :
         Cardinality({i \in Rows("crawler") :
           rows[i].method = op[1] /\ rows[i].url = TargetUrl(request.base, op[2])}) = 1
    /\ Cardinality(Rows("crawler")) = Cardinality(Operations(request.doc))

\* The role tasks of an endpoint and its crawler task go to one URL, so that
\* the report compares them, if the base does not end in a slash
\* (role_swapper joins without a look at slashes, discovery_bridge with one).
RolesMeetCrawler ==
  (Unanswered /\ (request.base = << >> \/ Last(request.base) # "/")) =>
    \A i \in Rows("jwt") : \E j \in Rows("crawler") :
      rows[i].method = rows[j].method /\ rows[i].url = rows[j].url

Fuzzed == reply = "accepted" /\ Unanswered /\ site.node
\* What the engine makes up for the endpoints, before it drops repetitions
MadeUp ==
  UNION {Range(AllMutations(RequestForNode(request.base, endpoint))) :
           endpoint \in Range(Parse(request.doc).endpoints)}
\* A mutation that sets the method to nothing
IsBlank(m) == "method" \in m.has /\ m.method = ""
Sent(m) == \E i \in Rows("fuzz") : rows[i] = ToRow(FuzzTask(m))

\* De-duplication keeps a mutation for every request the bridge would send, but
\* for the blank method.  The two do not agree on a field that is missing: it is
\* a blank to the fingerprint, and GET to the bridge if it is the method.  So
\* what removes the header, the only one, and what blanks the method are one to
\* the engine and two requests to the bridge: which of them is sent hangs on the
\* order of the mutators, and it is not the blank method, which methodMutator.js
\* lists among those it tests (MutationEngine.mutate, _deduplicate, MutationBridge).
MutationsSent == Fuzzed => \A m \in MadeUp : IsBlank(m) \/ Sent(m)

\* mutation_bridge.py: the mutated requests are fuzzing tasks for the target of
\* the scan.  It does not hold: a mutation of a header, a body or a method has
\* no URL, and counting up the last number of a URL may change its port.
FuzzReachesTarget ==
  \A i \in Rows("fuzz") : IsPrefix(RStrip(request.base), rows[i].url)

----------------------------------------------------------------------------
(* What the analysis promises *)

SomeOrder == SetToSeq(Answered)

SameEndpoint(i, j) == rows[i].method = rows[j].method /\ rows[i].url = rows[j].url
IsAdmin(i) == ReportResponse(i).role = "admin"

\* The findings of a report of these rows, on endpoints with an answer of an
\* administrator among them.
Findings(order) ==
  LET issues == GenerateReport(order).issues
      Referenced(k) == \E j \in Range(order) : IsAdmin(j) /\ SameEndpoint(issues[k].diff.a.task, j)
  IN {<<issues[k].type, issues[k].severity, issues[k].diff.a.task, issues[k].diff.b.task>> :
        k \in {k \in DOMAIN issues : Referenced(k)}}

\* The report does not depend on the order the database returns the rows in,
\* once an administrator has answered (ReportService, _build_pairs).
OrderIndependent ==
  \A order \in SetToSeqs(Answered) : Findings(order) = Findings(SomeOrder)

\* A user who gets the administrator's data under another name is reported,
\* whatever else was answered (_build_pairs, compare_responses, _check_bola).
SharedDataReported ==
  LET found == Findings(SomeOrder)
  IN \A i, j \in Answered :
       (/\ IsAdmin(i) /\ ~IsAdmin(j) /\ SameEndpoint(i, j) /\ answers[i] = answers[j] /\ answers[i].status = 200
        /\ ReportResponse(i).user # ReportResponse(j).user)
       => \E f \in found : f[1] = "BOLA" /\ f[3] = i /\ f[4] = j

\* The differ and the classifier agree: what one calls an anomaly the other
\* gives a type, so no anomaly is counted and then left out of the report
\* (compare_responses, classify_diff).
EveryAnomalyClassified ==
  LET diffs == ProcessBuffered(FoldLeft(OnResult, NewCollector,
                                        Each(SomeOrder, ReportResponse))).diffs
  IN \A k \in DOMAIN diffs : diffs[k].anomaly <=> ClassifyDiff(diffs[k]) # << >>

\* A finding of the report is a bypass of the role-swap view, although the two
\* group by different keys and name anonymous users differently
\* (get_scan_role_swaps, generate_report).
ReportedIsBypass ==
  LET swaps == GetScanRoleSwaps(SomeOrder)
  IN \A f \in Findings(SomeOrder) :
       \E s \in swaps : s.source = f[3] /\ s.target = f[4] /\ s.bypass

\* The renderings, the dashboard and the copilot speak of the same findings:
\* what each severity's row counts adds up to the total although only one
\* rendering has a row for INFO, and the copilot names a worst finding, of the
\* severity that set the dashboard's risk (report_generator, get_dashboard_stats).
ViewsAgree ==
  LET report == GenerateReport(SomeOrder)
      saved  == SaveReport(report)
      stats  == DashboardStats(report.issues)
      top    == CopilotQuery("critical", report.issues)
  IN /\ \A format \in DOMAIN saved :
          LET counts == saved[format].counts
          IN MapThenSumSet(LAMBDA s : counts[s], DOMAIN counts) = Len(report.issues)
     /\ stats.total = Len(report.issues)
     /\ stats.risk = 0 <=> report.issues = << >>
     /\ \A k \in DOMAIN report.issues :
          Cvss[report.issues[k].severity] <= Cvss[top[1].severity]
     /\ stats.risk = 95 <=> (top # << >> /\ top[1].severity = "CRITICAL")

\* Once reported, a finding of an endpoint with an administrator's answer stays:
\* a report made when only some of the rows had their answers holds nothing the
\* report of all of them lacks (on_result, process_buffered, _save_response).
FindingsGrow ==
  \A some \in SUBSET Answered : Findings(SetToSeq(some)) \subseteq Findings(SomeOrder)

=============================================================================
