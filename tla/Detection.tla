------------------------------ MODULE Detection ------------------------------
(***************************************************************************)
(* How a server is recognised by its answer to an "initialize" request and *)
(* how badly protected it is taken to be: by NetworkScanner, which asks a  *)
(* second time through mcp.Client, and by DiscoveryService.                *)
(***************************************************************************)
EXTENDS Naturals, SequencesExt

CONSTANTS
  Statuses,    \* HTTP statuses
  Challenges,  \* WWW-Authenticate headers
  MaxTools, MaxResources, MaxPrompts,  \* how many of each the client keeps
  MaxReply,    \* bound on the items of a list
  Nothing      \* no answer; not an MCP server

Endpoints == {"/mcp", "/"}

(* JSON-RPC errors, by what the code makes out of their code and message. *)
RpcErrors == {"not acceptable", "missing session", "params", "auth", "failure"}

(* Results with and without serverInfo. *)
RpcResults == {"info", "bare"}

Rpc == RpcErrors \cup RpcResults

(***************************************************************************)
(* Other bodies: JSON, perhaps with an error member, a string that speaks  *)
(* of authentication; pages that say that access is denied; pages that     *)
(* name the protocol; anything else.                                       *)
(***************************************************************************)
Pages == {"json error", "json", "denial", "protocol", "text"}

(* A server marked by its headers, and one that answers by an event stream. *)
AllAnswers ==
  [status: Statuses, body: Rpc \cup Pages, challenge: Challenges, sse: BOOLEAN, marked: BOOLEAN]

Denied(a) == a.status \in {401, 403}
Succeeds(a) == a.status \in 200 .. 299
ClientError(a) == a.status \in 400 .. 499

Verdict(name, auth, score) == [name |-> name, auth |-> auth, score |-> score]

(***************************************************************************)
(* NetworkScanner.                                                         *)
(***************************************************************************)
ErrorVerdict(a) ==
  IF Denied(a) THEN Verdict(Nothing, "required", "low")
  ELSE CASE a.body = "not acceptable"   -> Verdict(Nothing, "none", "high")
         [] a.body = "missing session"  -> Verdict(Nothing, "session_required", "medium")
         [] a.body = "params"           -> Verdict(Nothing, "protocol_mismatch", "medium")
         [] OTHER                       -> Verdict(Nothing, "unknown", "medium")

(* JSON with an error member, though not of JSON-RPC. *)
JsonVerdict(a) ==
  CASE Denied(a)        -> Verdict("auth required", "required", "low")
    [] a.status = 400   -> Verdict("protocol error", "protocol_mismatch", "medium")
    [] OTHER            -> Verdict("auth required", "unknown", "medium")

ResultVerdict(a) ==
  IF a.body = "info" THEN Verdict("own", "none", "high") ELSE Verdict(Nothing, "", "")

ParseMCPResponse(a, endpoint) ==
  CASE a.body \in RpcResults -> ResultVerdict(a)
    [] a.body \in RpcErrors  -> ErrorVerdict(a)
    [] a.body = "json error" /\ ClientError(a) /\ endpoint = "/mcp" -> JsonVerdict(a)
    [] \/ a.body = "protocol"
       \/ a.body \in {"denial", "text"} /\ a.status = 405
       -> IF ClientError(a) /\ endpoint = "/mcp"
            THEN Verdict("error response", "unknown", "medium") ELSE Nothing
    [] OTHER -> Nothing

(***************************************************************************)
(* mcp.Client, asked by performDeepInterrogation.                          *)
(***************************************************************************)
Usable(a) == a # Nothing /\ a.status \in 200 .. 599

(***************************************************************************)
(* The answer to a request that each endpoint would give as x[e], tried in *)
(* this order.  An answer that is not usable is an error, but is looked at *)
(* for what it says of authentication.                                     *)
(***************************************************************************)
MakeMCPRequest(x) ==
  IF Usable(x["/mcp"]) \/ x["/"] = Nothing THEN x["/mcp"] ELSE x["/"]

AnalyzeMCPError(a) == a.body \in {"params", "auth"}

AnalyzeNonJSONResponse(a) == a.body = "denial"

AnalyzeHTTPResponse(a) == Denied(a)

(* AuthAnalysis.Required. *)
AuthRequired(a) ==
  IF ~Usable(a) THEN AnalyzeHTTPResponse(a)
  ELSE CASE a.body \in RpcErrors                        -> AnalyzeMCPError(a)
         [] a.body \in RpcResults                       -> AnalyzeHTTPResponse(a) /\ ~a.sse
         [] a.body \in {"json", "json error"}           -> AnalyzeHTTPResponse(a)
         [] a.body \in {"denial", "protocol", "text"}   -> AnalyzeNonJSONResponse(a)

(* Error of InterrogateServer: all but a result, or JSON that can pass for one. *)
Initializes(a) == Usable(a) /\ a.body \in RpcResults \cup {"json"}

Lists == {"tools", "resources", "prompts"}

(***************************************************************************)
(* Replies to the request for a list: items, or anything (Nothing) that is *)
(* not read as items.  A tool is flawed without a schema, a prompt with a  *)
(* required argument that is not described, a resource never.              *)
(***************************************************************************)
Replies == {Nothing} \cup BoundedSeq({"sound", "flawed"}, MaxReply)

FirstItems(reply, n) ==
  IF reply = Nothing THEN <<>> ELSE SubSeq(reply, 1, Min({Len(reply), n}))

ListTools(reply) == FirstItems(reply, MaxTools)
ListResources(reply) == FirstItems(reply, MaxResources)
ListPrompts(reply) == FirstItems(reply, MaxPrompts)

(* Only what the server claims is asked for; a failure is an empty list. *)
InterrogateServer(claims, replies) ==
  [tools     |-> IF "tools" \in claims THEN ListTools(replies["tools"]) ELSE <<>>,
   resources |-> IF "resources" \in claims THEN ListResources(replies["resources"]) ELSE <<>>,
   prompts   |-> IF "prompts" \in claims THEN ListPrompts(replies["prompts"]) ELSE <<>>]

AllSound(items) == "flawed" \notin Range(items)

ValidateCapabilities(claims, found) ==
  /\ \A k \in claims : found[k] # <<>>
  /\ AllSound(found.tools) /\ AllSound(found.prompts)

Flawed(claims, replies) == ~ValidateCapabilities(claims, InterrogateServer(claims, replies))

(* Variant: a flaw makes a server look better. *)
RaiseWrongWay(score) ==
  CASE score = "medium" -> "low" [] score = "high" -> "medium" [] OTHER -> score

(* Capabilities that turn out flawed make it look worse. *)
Raise(score) ==
  CASE score = "low" -> "medium" [] score = "medium" -> "high" [] OTHER -> score

PerformDeepInterrogation(score, a, flawed) ==
  IF a = Nothing THEN score
  ELSE LET verdict == IF AuthRequired(a) THEN "low" ELSE "high"
       IN IF Initializes(a) /\ flawed THEN Raise(verdict) ELSE verdict

(***************************************************************************)
(* DiscoveryService.                                                       *)
(***************************************************************************)

(* The first of these that is found in the header or the body. *)
AnalyzeAuthType(a) ==
  CASE a.challenge = "oauth"     -> Verdict(Nothing, "oauth", "low")
    [] a.challenge = "openid"    -> Verdict(Nothing, "openid", "low")
    [] a.challenge = "bearer"    -> Verdict(Nothing, "bearer", "medium")
    [] a.challenge = "basic"     -> Verdict(Nothing, "basic", "high")
    [] a.challenge = "digest"    -> Verdict(Nothing, "digest", "medium")
    [] a.challenge = "negotiate" -> Verdict(Nothing, "negotiate", "low")
    [] a.challenge = "api_key"   -> Verdict(Nothing, "api_key", "medium")
    [] a.challenge = "jwt"       -> Verdict(Nothing, "jwt", "medium")
    [] a.challenge = "saml"      -> Verdict(Nothing, "saml", "low")
    [] OTHER                     -> Verdict(Nothing, "other", "medium")

DetectMCPFromHTTPResponse(a) ==
  CASE Denied(a) /\ (a.body \in {"json error", "denial", "protocol"} \/ a.marked) -> AnalyzeAuthType(a)
    [] Succeeds(a) /\ a.marked -> Verdict(Nothing, "unknown", "medium")
    [] OTHER -> Nothing

(* Variant: a server that answers by events has told too little. *)
DetectJSONOnly(a) ==
  IF a.body \in RpcResults /\ ~a.sse THEN ResultVerdict(a)
  ELSE IF a.body \in RpcErrors /\ Denied(a) THEN AnalyzeAuthType(a)
  ELSE IF a.body \in Rpc THEN Verdict(Nothing, "unknown", "medium")
  ELSE DetectMCPFromHTTPResponse(a)

(* parseMCPResponse, and where that says nothing, the rest of the answer. *)
DetectMCPServer(a) ==
  CASE a.body \in RpcResults -> ResultVerdict(a)
    [] a.body \in RpcErrors /\ Denied(a) -> AnalyzeAuthType(a)
    [] a.body \in RpcErrors /\ ~Denied(a) -> Verdict(Nothing, "unknown", "medium")
    [] OTHER -> DetectMCPFromHTTPResponse(a)

-----------------------------------------------------------------------------
(* What an answer shows: information without credentials, or a refusal. *)
Open(a) == a.body = "info"

Refuses(a) == Denied(a) \/ a.body \in {"params", "auth", "denial"}
=============================================================================
