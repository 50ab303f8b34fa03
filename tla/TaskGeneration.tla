--------------------------- MODULE TaskGeneration ---------------------------
(***************************************************************************)
(* From an OpenAPI document to the tasks of a submission: the parser, the  *)
(* crawler tasks, the tasks that repeat a request with each token, and the *)
(* mutations of the fuzzing engine.                                        *)
(*                                                                         *)
(* Paths and URLs are sequences of tokens: "/", words and numbers, as in   *)
(* <<"http:", "/", "/", "host", "/", "v", "1">>.  A number is a token of   *)
(* its own and no token occurs inside another, so replacing the first      *)
(* occurrence of a text is replacing the first occurrence of its tokens.   *)
(* Headers and bodies are sets of pairs.                                   *)
(***************************************************************************)
EXTENDS Lists

CONSTANTS
  Upper,              \* word -> the word in upper case
  NumberValue,        \* number token -> its value
  NumberToken,        \* value -> its token, for the values mutation reaches
  MethodVariants,     \* method -> its spellings in mixed case
  ExtensionSuffixes,  \* what the path mutator appends: .json, .bak, ...
  JunkSuffixes,       \* ;admin, #admin, ?admin=true, a null character, ...
  TraversalSuffixes,  \* /../, /../admin, ...
  InjectedValues,     \* what the body mutator puts into a field: SQL, scripts, ...
  NullValues,         \* empty text, null, undefined, 0
  ConfusedValues,     \* the field's value as a number, a list, an object, a boolean
  NoToken             \* the credentials of a request without any

ASSUME NumberAssumption ==
  \A t \in DOMAIN NumberValue : NumberToken[NumberValue[t]] = t

ValidMethods == {"GET", "POST", "PUT", "DELETE", "PATCH", "OPTIONS", "HEAD", "TRACE"}
ASSUME VariantsAssumption ==
  /\ \A m \in ValidMethods : m \in DOMAIN MethodVariants /\ IsList(MethodVariants[m])
  /\ \A s \in {ExtensionSuffixes, JunkSuffixes, TraversalSuffixes} : IsList(s)
  /\ \A s \in {InjectedValues, NullValues, ConfusedValues} : IsList(s)

UpperCase(word) == IF word \in DOMAIN Upper THEN Upper[word] ELSE word

\* The seeded defects (their names end in Bug) show that the properties depend
\* on the code; no definition uses them.

----------------------------------------------------------------------------
(* The parser.  A document is [state, security, paths]; a path is [path,   *)
(* wellFormed, ops]; an operation is [name, wellFormed, security,          *)
(* requestBody, params].  A schema is "none", "empty" or "object", and a   *)
(* reference that cannot be resolved stays an object.                      *)

\* Runs of slashes become one, and one leads and none trails.
NormalizePath(path) ==
  LET once == Picked(path, {i \in DOMAIN path : i = 1 \/ path[i] # "/" \/ path[i - 1] # "/"})
      bare == IF once # << >> /\ Last(once) = "/" THEN Front(once) ELSE once
  IN IF bare # << >> /\ bare[1] = "/" THEN bare ELSE <<"/">> \o bare

\* The operation's own security list, an empty one included, comes first.
CheckAuth(doc, op) ==
  IF op.security # "absent" THEN op.security = "listed" ELSE doc.security = "listed"

BodyParams(op) == SelectSeq(op.params, LAMBDA p : p.in \in {"body", "malformed"})

\* A Swagger 2 parameter is looked at when the request body has no schema.
LooksAtParams(op) ==
  (op.requestBody.kind = "absent" \/ op.requestBody.schema # "object")
    /\ BodyParams(op) # << >>

\* A body, or a parameter in front of the body, that is not an object.
Raises(op) ==
  \/ op.requestBody.kind = "malformed"
  \/ LooksAtParams(op) /\ Head(BodyParams(op)).in = "malformed"

ExtractBodySchema(method, op) ==
  LET rb == IF op.requestBody.kind = "absent" THEN [schema |-> "none", required |-> FALSE]
            ELSE [schema |-> op.requestBody.schema, required |-> op.requestBody.required]
      found == IF ~LooksAtParams(op) THEN rb
               ELSE [schema |-> Head(BodyParams(op)).schema,
                     required |-> Head(BodyParams(op)).required]
  IN IF found.schema = "none" /\ method \in {"POST", "PUT", "PATCH"}
     THEN [found EXCEPT !.schema = "empty"] ELSE found

NewEndpoint(doc, path, op) ==
  LET method == UpperCase(op.name)
      body == ExtractBodySchema(method, op)
  IN [method |-> method, path |-> path, auth |-> CheckAuth(doc, op),
      required |-> body.required, schema |-> body.schema]

OneMethodPerPathBug(doc, result, path, op) ==
  LET method == UpperCase(op.name)
      seen == \E i \in DOMAIN result.endpoints : result.endpoints[i].path = path
  IN IF result.raised THEN result
     ELSE IF method \notin ValidMethods \/ ~op.wellFormed \/ seen THEN [result EXCEPT !.errors = TRUE]
     ELSE IF Raises(op) THEN [result EXCEPT !.raised = TRUE]
     ELSE [result EXCEPT !.endpoints = Append(@, NewEndpoint(doc, path, op))]

\* One operation: an error and no endpoint, or an endpoint, or an exception.
ParseOperation(doc, result, path, op) ==
  LET method == UpperCase(op.name)
      seen == \E i \in DOMAIN result.endpoints :
                result.endpoints[i].method = method /\ result.endpoints[i].path = path
  IN IF result.raised THEN result
     ELSE IF method \notin ValidMethods \/ ~op.wellFormed \/ seen THEN [result EXCEPT !.errors = TRUE]
     ELSE IF Raises(op) THEN [result EXCEPT !.raised = TRUE]
     ELSE [result EXCEPT !.endpoints = Append(@, NewEndpoint(doc, path, op))]

ParsePath(doc, result, entry) ==
  IF ~entry.wellFormed THEN [result EXCEPT !.errors = TRUE]
  ELSE FoldLeft(LAMBDA r, op : ParseOperation(doc, r, NormalizePath(entry.path), op),
                result, entry.ops)

\* "unreadable": not fetched or not parsed; "empty": parsed to nothing.
Parse(doc) ==
  LET start == [endpoints |-> << >>, raised |-> FALSE,
                errors |-> doc.state \in {"unreadable", "no_paths"}]
  IN IF doc.state # "ok" THEN start
     ELSE FoldLeft(LAMBDA r, entry : ParsePath(doc, r, entry), start, doc.paths)

----------------------------------------------------------------------------
(* Crawler tasks and role tasks *)

RStrip(path) ==
  SubSeq(path, 1, SelectLastInSeq(path, LAMBDA t : t # "/"))
LStrip(path) ==
  LET first == SelectInSeq(path, LAMBDA t : t # "/")
  IN IF first = 0 THEN << >> ELSE SubSeq(path, first, Len(path))

TargetUrl(base, path) == IF base = << >> THEN path ELSE RStrip(base) \o <<"/">> \o LStrip(path)

JsonHeaders == {<<"Content-Type", "application/json">>}

CrawlerTask(base, endpoint) ==
  LET payload == IF endpoint.required /\ endpoint.schema = "object"
                 THEN {<<"_comment", "dummy">>} ELSE {}
  IN [kind |-> "crawler", method |-> endpoint.method, url |-> TargetUrl(base, endpoint.path),
      headers |-> IF payload = {} THEN {} ELSE JsonHeaders, payload |-> payload,
      token |-> NoToken, retries |-> 3, priority |-> 3]

GenerateTasksFromSpec(endpoints, base) ==
  [i \in DOMAIN endpoints |-> CrawlerTask(base, endpoints[i])]

AlwaysSlashBug(base, endpoints, tokens) ==
  FlattenSeq([i \in DOMAIN endpoints |->
    [j \in DOMAIN tokens |->
       [method |-> endpoints[i].method, url |-> base \o <<"/">> \o endpoints[i].path,
        token |-> tokens[j]]]])

\* The base and the path are joined as they are.
GenerateTestCases(base, endpoints, tokens) ==
  FlattenSeq([i \in DOMAIN endpoints |->
    [j \in DOMAIN tokens |->
       [method |-> endpoints[i].method, url |-> base \o endpoints[i].path, token |-> tokens[j]]]])

GenerateJwtTasks(endpoints, tokens, base) ==
  LET guarded == Picked(endpoints, {i \in DOMAIN endpoints : endpoints[i].auth})
      cases   == GenerateTestCases(base, guarded, tokens)
  IN [i \in DOMAIN cases |->
       [kind |-> "jwt", method |-> cases[i].method, url |-> cases[i].url,
        headers |-> JsonHeaders, payload |-> {}, token |-> cases[i].token,
        retries |-> 3, priority |-> 2]]

----------------------------------------------------------------------------
(* The mutation engine.  A mutation is the request's fields it sets: has   *)
(* names them, and the others hold what the fingerprint puts in their      *)
(* place.                                                                  *)

Mutation(strategy) ==
  [has |-> {}, method |-> "", path |-> << >>, headers |-> {}, body |-> {},
   strategy |-> strategy]
SetMethod(strategy, m) == [Mutation(strategy) EXCEPT !.has = {"method"}, !.method = m]
SetPath(strategy, p)   == [Mutation(strategy) EXCEPT !.has = {"path"}, !.path = p]
SetHeaders(strategy, h) == [Mutation(strategy) EXCEPT !.has = {"headers"}, !.headers = h]
SetBody(strategy, b)   == [Mutation(strategy) EXCEPT !.has = {"body"}, !.body = b]

\* fields with the value under key replaced, or added
Put(fields, key, value) == {f \in fields : f[1] # key} \cup {<<key, value>>}

RemoveHeader(headers, key) ==
  <<SetHeaders("remove_header", {h \in headers : h[1] # key})>>
BlankValue(headers, key) == <<SetHeaders("blanking_value", Put(headers, key, ""))>>
ContentTypeSwap(headers, key) ==
  Each(<<"text/xml", "text/plain", "application/x-www-form-urlencoded">>,
       LAMBDA t : SetHeaders("type_swap", Put(headers, key, t)))
IdSpoofing(headers) ==
  Each(<<"X-Forwarded-For", "X-Original-IP", "X-Real-IP">>,
       LAMBDA k : SetHeaders("id_spoof", Put(headers, k, "127.0.0.1")))

\* The bridge sends one header, Content-Type: no rule for credentials applies.
MutateHeaders(headers) ==
  FlattenSeq(Each(SetToSeq({h[1] : h \in headers}),
    LAMBDA k : RemoveHeader(headers, k) \o BlankValue(headers, k) \o ContentTypeSwap(headers, k)))
  \o IdSpoofing(headers)

RemoveField(body, key) == <<SetBody("remove_field", {f \in body : f[1] # key})>>
InjectSpecialChars(body, key) ==
  Each(InjectedValues, LAMBDA v : SetBody("inject", Put(body, key, v)))
Nullify(body, key) == Each(NullValues, LAMBDA v : SetBody("nullify", Put(body, key, v)))
TypeConfusion(body, key) ==
  Each(ConfusedValues, LAMBDA v : SetBody("type_confusion", Put(body, key, v)))
MassAssignment(body) == <<SetBody("mass_assignment", Put(body, "isAdmin, role, ...", "raised"))>>

\* The bridge's field holds a text that is no number: no identity to count up.
MutateBody(body) ==
  FlattenSeq(Each(SetToSeq({f[1] : f \in body}),
    LAMBDA k : RemoveField(body, k) \o InjectSpecialChars(body, k) \o Nullify(body, k)
                 \o TypeConfusion(body, k)))
  \o MassAssignment(body)

MethodSwitching(method) ==
  LET methods == <<"GET", "POST", "PUT", "DELETE", "PATCH", "OPTIONS", "HEAD">>
  IN Each(Picked(methods, {k \in DOMAIN methods : methods[k] # method}),
          LAMBDA m : SetMethod("method_switch", m))
CaseSwapping(method) == Each(MethodVariants[method], LAMBDA m : SetMethod("case_swap", m))
GarbageMethod == Each(<<"HACK", "", "FAKEMETHOD", "NULL">>, LAMBDA m : SetMethod("garbage_method", m))
MethodOverrideHeader(method) ==
  <<[SetMethod("method_override", method) EXCEPT
       !.has = {"method", "headers"}, !.headers = {<<"X-HTTP-Method-Override", "DELETE">>}]>>
MutateMethod(method) ==
  MethodSwitching(method) \o CaseSwapping(method) \o GarbageMethod \o MethodOverrideHeader(method)

\* path with the token t replaced where it occurs first
ReplaceFirst(path, t, new) == [path EXCEPT ![SelectInSeq(path, LAMBDA x : x = t)] = new]

\* The last number of the path is counted up and down, where it first occurs.
IdEnumeration(path) ==
  LET numbers == Picked(path, {i \in DOMAIN path : path[i] \in DOMAIN NumberValue})
      n == NumberValue[Last(numbers)]
  IN IF numbers = << >> THEN << >>
     ELSE Each(<<n - 1, n + 1, 0, 1, 9999>>,
               LAMBDA c : SetPath("path_id_enumeration",
                                  ReplaceFirst(path, Last(numbers), NumberToken[c])))

Suffixed(path, suffixes, strategy) ==
  Each(suffixes, LAMBDA s : SetPath(strategy, Append(path, s)))
AddedExtension(path) == Suffixed(path, ExtensionSuffixes, "added_extension")
AddingJunk(path)     == Suffixed(path, JunkSuffixes, "adding_junk")
PathTraversal(path)  == Suffixed(path, TraversalSuffixes, "path_traversal")

\* The parts of a path between slashes
Segments(path) ==
  LET Inner(i) == i \in DOMAIN path /\ path[i] # "/"
      starts == Picked([i \in DOMAIN path |-> i], {i \in DOMAIN path : Inner(i) /\ ~Inner(i - 1)})
      End(i) == CHOOSE j \in i..Len(path) : ~Inner(j + 1) /\ \A k \in i..j : Inner(k)
  IN [k \in DOMAIN starts |-> SubSeq(path, starts[k], End(starts[k]))]

IsNumber(segment) == Len(segment) = 1 /\ segment[1] \in DOMAIN NumberValue
EndsInVersion(segment) ==
  Len(segment) > 1 /\ Last(segment) \in DOMAIN NumberValue /\ Last(Front(segment)) = "v"

\* Every segment but numbers and versions, in upper case where it first occurs.
CaseSwitching(path) ==
  LET parts == Segments(path)
      words == {k \in DOMAIN parts : ~IsNumber(parts[k]) /\ ~EndsInVersion(parts[k])}
  IN Each(Picked(parts, words),
          LAMBDA s : SetPath("case_switching",
            ReplaceFirstSubSeq([i \in DOMAIN s |-> UpperCase(s[i])], s, path)))

DoubleSlashing(path) ==
  <<SetPath("double_slashing",
      FlattenSeq([i \in DOMAIN path |-> IF path[i] = "/" THEN <<"/", "/">> ELSE <<path[i]>>]))>>

\* The last version, v and a number, where that version first occurs.
VersionSwitching(path) ==
  LET IsVersion(i) == path[i] = "v" /\ i < Len(path) /\ path[i + 1] \in DOMAIN NumberValue
      versions == Picked([i \in DOMAIN path |-> i], {i \in DOMAIN path : IsVersion(i)})
      token == path[Last(versions) + 1]
      n == NumberValue[token]
      first == Min({i \in Range(versions) : path[i + 1] = token})
  IN IF versions = << >> THEN << >>
     ELSE Each(<<n - 1, n + 1, n + 2, n + 5, 9999>>,
               LAMBDA c : SetPath("version_switching", [path EXCEPT ![first + 1] = NumberToken[c]]))

MutatePath(path) ==
  IdEnumeration(path) \o AddedExtension(path) \o AddingJunk(path) \o CaseSwitching(path)
    \o DoubleSlashing(path) \o PathTraversal(path) \o VersionSwitching(path)

Fingerprint(m) == <<m.method, m.path, m.headers, m.body>>

KeepNew(unique, m) ==
  IF \E i \in DOMAIN unique : Fingerprint(unique[i]) = Fingerprint(m)
  THEN unique ELSE Append(unique, m)
Deduplicate(mutations) == FoldLeft(KeepNew, << >>, mutations)

MethodsFirstBug(request) ==
  MutateMethod(request.method) \o MutateHeaders(request.headers)
    \o (IF request.body = {} THEN << >> ELSE MutateBody(request.body)) \o MutatePath(request.path)

AllMutations(request) ==
  MutateHeaders(request.headers)
    \o (IF request.body = {} THEN << >> ELSE MutateBody(request.body))
    \o MutateMethod(request.method) \o MutatePath(request.path)
Mutate(request) == Deduplicate(AllMutations(request))

----------------------------------------------------------------------------
(* The fuzzing tasks *)

RequestForNode(base, endpoint) ==
  [method |-> endpoint.method, path |-> TargetUrl(base, endpoint.path), headers |-> JsonHeaders,
   body |-> IF endpoint.required THEN {<<"dummy", "value">>} ELSE {}]

\* A field the mutation does not set is not taken from the request.
FuzzTask(m) ==
  [kind |-> "fuzz", method |-> IF "method" \in m.has THEN m.method ELSE "GET", url |-> m.path,
   headers |-> m.headers, payload |-> m.body, token |-> NoToken, retries |-> 1, priority |-> 4]

\* Without node, or when the script fails, there are no mutations.
GenerateMutations(endpoints, base, node) ==
  IF ~node THEN << >>
  ELSE FlattenSeq([i \in DOMAIN endpoints |->
         LET found == Mutate(RequestForNode(base, endpoints[i]))
         IN [j \in DOMAIN found |-> FuzzTask(found[j])]])

=============================================================================
