--------------------------- MODULE MCScanPipeline ---------------------------
(***************************************************************************)
(* ScanPipeline for TLC.  The first document has one guarded endpoint and  *)
(* three tokens, so four rows are compared; the second has everything a    *)
(* parser meets; the others give no tasks.                                 *)
(***************************************************************************)
EXTENDS ScanPipeline

CONSTANTS admin, alice, broken, none

Absent == [kind |-> "absent", required |-> FALSE, schema |-> "none"]
Json   == [kind |-> "json", required |-> TRUE, schema |-> "object"]
Bad    == [in |-> "malformed", required |-> FALSE, schema |-> "none"]
InBody == [in |-> "body", required |-> TRUE, schema |-> "object"]

Op(name, security, body, params) ==
  [name |-> name, wellFormed |-> TRUE, security |-> security, requestBody |-> body,
   params |-> params]
Path(path, ops) == [path |-> path, wellFormed |-> TRUE, ops |-> ops]
Doc(paths) == [state |-> "ok", security |-> "absent", paths |-> paths]

Guarded == Doc(<<Path(<<"/", "users", "/">>, <<Op("get", "listed", Absent, << >>)>>)>>)
Messy == [Doc(<<
  Path(<<"/", "users">>, <<Op("get", "empty", Absent, << >>), Op("post", "absent", Json, <<Bad>>)>>),
  Path(<<"/", "/", "users", "/">>, <<Op("get", "absent", Absent, << >>),
                                     Op("put", "empty", Absent, <<InBody, Bad>>)>>),
  [Path(<<"/", "x">>, << >>) EXCEPT !.wellFormed = FALSE],
  Path(<<"v", "1">>, <<Op("fetch", "absent", Absent, << >>),
                       [Op("get", "absent", Absent, << >>) EXCEPT !.wellFormed = FALSE],
                       Op("delete", "empty", Absent, << >>)>>)>>)
  EXCEPT !.security = "listed"]
Raising == Doc(<<Path(<<"/", "users">>, <<Op("get", "absent", Absent, <<Bad>>)>>)>>)
Unreadable == [Doc(<< >>) EXCEPT !.state = "unreadable"]

Host == <<"http:", "/", "/", "host:", "80">>
SomeRequests == {
  [doc |-> Guarded, base |-> Host, tokens |-> <<admin, alice>>],
  [doc |-> Guarded, base |-> Append(Host, "/"), tokens |-> <<admin, broken>>],
  [doc |-> Messy, base |-> Host, tokens |-> << >>],
  [doc |-> Raising, base |-> Host, tokens |-> << >>],
  [doc |-> Unreadable, base |-> Host, tokens |-> << >>],
  [doc |-> Doc(<< >>), base |-> Host, tokens |-> << >>]}
TwoSites == {[node |-> TRUE, postgres |-> FALSE], [node |-> TRUE, postgres |-> TRUE]}

SomeClaims == [t \in {admin, alice, broken} |->
  [user |-> IF t = admin THEN "root" ELSE "alice", role |-> IF t = admin THEN "admin" ELSE "user",
   decodable |-> t # broken, tampered |-> t = broken]]

\* Two bodies share an identity; all three are too unlike to be the same.
SomeLeaves == [profile |-> [id |-> "uuid", email |-> "a@b"], debug |-> [id |-> "uuid", debug |-> "on"],
               stub |-> [name |-> "none"]]
SomeLikeness == [p \in (DOMAIN SomeLeaves) \X (DOMAIN SomeLeaves) |-> IF p[1] = p[2] THEN 100 ELSE 55]

SomeUpper == [get |-> "GET", post |-> "POST", put |-> "PUT", delete |-> "DELETE",
              users |-> "USERS", v |-> "V"]
SomeNumbers == [t \in {"1", "80"} |-> IF t = "1" THEN 1 ELSE 80]
AllNumerals == [n \in -1..85 \cup {9999} |-> ToString(n)]
SomeVariants == [m \in ValidMethods |-> <<"lower", "Mixed">>]
OneExtension == <<".json">>
TwoJunks     == <<"?admin=true", "NUL">>
OneTraversal == <<"/../admin">>
TwoInjected  == <<"' OR '1'='1", "null">>
TwoNulls     == <<"", "null">>
TwoConfused  == <<"number", "list">>

=============================================================================
