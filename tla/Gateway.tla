------------------------------ MODULE Gateway ------------------------------
(***************************************************************************)
(* Where mcpx.Handler sends a request, with every namespace built and a    *)
(* Clerk secret configured: each route has an admission of its own.  The   *)
(* resolver behind the API key is in ApiKeys, Clerk's verifier in          *)
(* ClerkAuth; here a credential is good or not, and its lookup answers.    *)
(***************************************************************************)
EXTENDS ToolSchemas

Request(method, path, key, user) ==
  [method |-> method, path |-> path, key |-> key, user |-> user]

RequireAPIKey(request, next) ==
  IF request.key = "registered" THEN next ELSE "401"

RequireUser(request, next) == IF request.user THEN next ELSE "401"

keysapiRoutes == {<<"GET", "/api/keys">>, <<"POST", "/api/keys">>, <<"DELETE", "/api/keys/{id}">>}

\* Mutant of Handler: a namespace mounted without the wrapping in requireKey.
HandlerForgets(request) ==
  CASE request.path \in DOMAIN Mounted -> request.path
    [] <<request.method, request.path>> = <<"GET", "/healthz">> -> "ok"
    [] <<request.method, request.path>> \in keysapiRoutes -> RequireUser(request, "keysapi")
    [] OTHER -> "404 or 405"

\* The mux knows a path by some method, or not at all.
Handler(request) ==
  CASE request.path \in DOMAIN Mounted -> RequireAPIKey(request, request.path)
    [] <<request.method, request.path>> = <<"GET", "/healthz">> -> "ok"
    [] <<request.method, request.path>> \in keysapiRoutes -> RequireUser(request, "keysapi")
    [] OTHER -> "404 or 405"

\* What the mux serves: each route answers somebody.
Routes ==
  {r \in {"GET", "POST", "DELETE"}
          \X (DOMAIN Mounted \cup {"/healthz", "/api/keys", "/api/keys/{id}"}) :
     Handler(Request(r[1], r[2], "registered", TRUE)) # "404 or 405"}
=============================================================================
