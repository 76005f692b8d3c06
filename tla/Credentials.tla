----------------------------- MODULE Credentials -----------------------------
(***************************************************************************)
(* An adapter's AdapterAuthConfig, as it is used on both sides: by what    *)
(* lets clients in (validateClientAuthentication, AdapterAuthMiddleware)   *)
(* and by what signs requests to servers (MessageRouter, the Streamable    *)
(* HTTP transport, the two remote proxies, MCPAuthIntegrationService).     *)
(* When the server is an adapter of another gateway with the same          *)
(* configuration, what one side signs the other side lets in.              *)
(*                                                                         *)
(* Everybody looks at the part of a configuration that its type names, so  *)
(* a configuration has only this part here, or None.                       *)
(***************************************************************************)
CONSTANT None

(***************************************************************************)
(* Tokens, passwords and keys.  "odd" stands for those that a cookie does  *)
(* not bring back as they are, which is read as "other": the client leaves *)
(* out what may not be in a cookie, and the server unescapes what it gets. *)
(***************************************************************************)
Texts == {"", "plain", "odd"}

(* What GenerateBearerToken makes. *)
Generated == "generated"

(* A colon ends the name in a Basic header. *)
Names == {"", "name", "na:me"}

Locations == {"", "header", "Header", "query", "cookie", "body"}

ToLower(location) == IF location = "Header" THEN "header" ELSE location

Supported == {"header", "query", "cookie"}

AdapterAuthConfig(type, parts) ==
  [required: BOOLEAN, type: {type}, part: {None} \cup parts]

(* What a configuration of type "apikey" has; None is nothing of the kind. *)
APIKeyParts == [key: Texts, location: Locations, name: {"", "X-Key"}]

ASSUME CredentialsAssumption == None \notin APIKeyParts

Configs ==
  AdapterAuthConfig("bearer", [token: Texts, dynamic: BOOLEAN])
    \cup AdapterAuthConfig("basic", [username: Names, password: Texts])
    \cup AdapterAuthConfig("apikey", APIKeyParts)
    \cup AdapterAuthConfig("oauth", [clientID: {"", "id"}, authURL: {"", "url"}, tokenURL: {"", "url"}])
    \cup AdapterAuthConfig("none", {})

-----------------------------------------------------------------------------
(***************************************************************************)
(* Requests with credentials, and Failed, for one that cannot be signed.   *)
(***************************************************************************)
Failed == [by |-> "failed"]
Unsigned == [by |-> "nothing"]
Bearer(token) == [by |-> "bearer", token |-> token]
Basic(username, password) == [by |-> "basic", username |-> username, password |-> password]
Key(location, name, key) == [by |-> location, name |-> name, key |-> key]

(***************************************************************************)
(* What arrives of a request that is sent: HTTP trims "Bearer " to a       *)
(* scheme without token, and sends no header and no cookie without name.   *)
(***************************************************************************)
Received(request) ==
  CASE request.by = "bearer" /\ request.token = "" -> Unsigned
    [] request.by = "basic" /\ request.username = "na:me" -> Basic("na", "me:...")
    [] request.by \in {"header", "cookie"} /\ request.name = "" -> Unsigned
    [] request.by = "cookie" /\ request.key = "odd" -> Key("cookie", request.name, "other")
    [] OTHER -> request

Intact(request) == Received(request) = request

-----------------------------------------------------------------------------
(***************************************************************************)
(* Signing.                                                                *)
(***************************************************************************)
BearerAuth(part) ==
  IF part = None \/ part.token = "" THEN Failed ELSE Bearer(part.token)

BasicAuth(part) == IF part = None THEN Failed ELSE Basic(part.username, part.password)

APIKeyAuth(part, location) ==
  IF location \in Supported THEN Key(location, part.name, part.key) ELSE Failed

(* OAuth is not implemented anywhere. *)
MessageRouterSigns(auth) ==
  IF ~auth.required THEN Unsigned
  ELSE CASE auth.type = "bearer" -> BearerAuth(auth.part)
         [] auth.type = "basic" -> BasicAuth(auth.part)
         [] auth.type = "apikey" /\ auth.part # None -> APIKeyAuth(auth.part, auth.part.location)
         [] OTHER -> Failed

StreamableHTTPSigns(auth) == MessageRouterSigns(auth)

(* The remote proxies do not mind how the location is capitalised. *)
RemoteAdapterSigns(auth) ==
  IF auth.required /\ auth.type = "apikey" /\ auth.part # None
    THEN APIKeyAuth(auth.part, ToLower(auth.part.location))
    ELSE MessageRouterSigns(auth)

RemotePluginSigns(auth) == RemoteAdapterSigns(auth)

(* A dynamic token that is not there yet is generated for this request alone. *)
ApplyAuthToRequest(auth) ==
  IF auth.required /\ auth.type = "bearer" /\ auth.part # None
       /\ auth.part.token = "" /\ auth.part.dynamic
    THEN Bearer(Generated)
    ELSE RemoteAdapterSigns(auth)

Signatures(auth) ==
  {MessageRouterSigns(auth), StreamableHTTPSigns(auth), RemoteAdapterSigns(auth),
   RemotePluginSigns(auth), ApplyAuthToRequest(auth)}

-----------------------------------------------------------------------------
(***************************************************************************)
(* Letting in.                                                             *)
(***************************************************************************)
ValidateBearerAuth(auth, request) ==
  /\ request.by = "bearer"
  /\ request.token = IF auth.part = None THEN "" ELSE auth.part.token

ValidateBasicAuth(auth, request) ==
  /\ auth.part # None /\ request.by = "basic"
  /\ request.username = auth.part.username /\ request.password = auth.part.password

(* Variant: locations are compared as they are. *)
ValidateKeyExactly(auth, request) ==
  /\ auth.part # None
  /\ auth.part.location \in Supported /\ request.by = auth.part.location
  /\ request.name = auth.part.name /\ request.key = auth.part.key

(* An empty key is found in a cookie only. *)
ValidateAPIKeyAuth(auth, request) ==
  /\ auth.part # None
  /\ ToLower(auth.part.location) \in Supported
  /\ request.by = ToLower(auth.part.location) /\ request.name = auth.part.name
  /\ request.key # "" \/ request.by = "cookie"
  /\ request.key = auth.part.key

ValidateClientAuthentication(auth, request) ==
  \/ ~auth.required
  \/ auth.type = "bearer" /\ ValidateBearerAuth(auth, request)
  \/ auth.type = "basic" /\ ValidateBasicAuth(auth, request)
  \/ auth.type = "apikey" /\ ValidateAPIKeyAuth(auth, request)

(* Any token will do. *)
OAuthMiddleware(request) == request.by = "bearer" /\ request.token # ""

(* The token, or "" for an error. *)
ExtractTokenFromHeader(request) == IF request.by = "bearer" THEN request.token ELSE ""

(* It lets in the tokens that the token manager knows, too. *)
AdapterAuthMiddleware(auth, request, valid) ==
  \/ ~auth.required
  \/ LET token == ExtractTokenFromHeader(request)
     IN /\ auth.type = "bearer" /\ token # ""
        /\ token \in valid \/ (auth.part # None /\ token = auth.part.token)
  \/ auth.type = "oauth" /\ OAuthMiddleware(request)

-----------------------------------------------------------------------------
(***************************************************************************)
(* What clients and administrators are told.                               *)
(***************************************************************************)

(* What a client would send that has been told its token by GetClientToken. *)
GetClientToken(auth) ==
  IF ~auth.required THEN Unsigned
  ELSE IF auth.part = None \/ auth.type = "none" THEN Failed
  ELSE CASE auth.type = "bearer" ->
              IF auth.part.token # "" THEN Bearer(auth.part.token)
              ELSE IF auth.part.dynamic THEN Bearer(Generated)
              ELSE Failed
         [] auth.type = "basic" -> Basic(auth.part.username, auth.part.password)
         [] auth.type = "apikey" -> Key(ToLower(auth.part.location), auth.part.name, auth.part.key)
         [] OTHER -> Bearer("")

(* The configuration with its defaults, or None if it is not valid. *)
ValidateAuthConfig(auth) ==
  LET part == auth.part
      key == [part EXCEPT !.location = IF @ = "" THEN "header" ELSE @,
                          !.name = IF @ = "" THEN "X-Key" ELSE @]
  IN IF auth.type = "none" THEN auth
     ELSE IF part = None THEN None
     ELSE CASE auth.type = "bearer" -> IF part.token # "" \/ part.dynamic THEN auth ELSE None
            [] auth.type = "oauth" -> IF \A f \in DOMAIN part : part[f] # "" THEN auth ELSE None
            [] auth.type = "basic" ->
                 IF part.username # "" /\ part.password # "" THEN auth ELSE None
            [] OTHER ->
                 IF part.key # "" /\ key.location \in Supported
                   THEN [auth EXCEPT !.part = key] ELSE None

-----------------------------------------------------------------------------
(***************************************************************************)
(* Properties.                                                             *)
(***************************************************************************)

(* The credentials are in the configuration and can be sent: not so with OAuth, or a token to be generated. *)
Static(auth) ==
  \/ auth.type = "bearer" /\ auth.part.token # ""
  \/ auth.type = "basic"
  \/ auth.type = "apikey" /\ auth.part.key # "" /\ ToLower(auth.part.location) \in Supported

(***************************************************************************)
(* What signs requests, what checks them and what tells about them agree:  *)
(* a request signed with a configuration is let in with it, by the         *)
(* middleware as well if it knows the type, and so is who sends what       *)
(* GetClientToken has told; and a configuration that is called valid can   *)
(* be used for signing everywhere.  Not so for a token that is generated,  *)
(* and for what arrives changed: an odd key in a cookie, or a name with a  *)
(* colon.                                                                  *)
(***************************************************************************)
SidesAgree ==
  \A auth \in {c \in Configs : c.required} :
    /\ \A sent \in (Signatures(auth) \cup {GetClientToken(auth)}) \ {Failed} :
         (Static(auth) /\ Intact(sent)) =>
           /\ ValidateClientAuthentication(auth, Received(sent))
           /\ auth.type = "bearer" => AdapterAuthMiddleware(auth, Received(sent), {})
    /\ LET valid == ValidateAuthConfig(auth)
       IN (valid # None /\ Static(valid)) => Failed \notin Signatures(valid)
=============================================================================
