--------------------------- MODULE KeycloakUsers ----------------------------
(***************************************************************************)
(* The users, clients, roles and logins of pkg/keycloak.  All goroutines   *)
(* that use a helper send the token in its field Token, which a login      *)
(* replaces without a lock and which the server lets expire.  Of the realm *)
(* there is one user, one client and what belongs to them: a set of facts. *)
(***************************************************************************)
EXTENDS Naturals

CONSTANTS
    Askers,     \* goroutines that share the helper
    Patient,    \* those that log in again after every error
    MaxRequests,\* bound: requests of the others
    MaxMishaps  \* bound: tokens that expire, answers that are lost

NoRequest == [op |-> "none", needs |-> {}, adds |-> {}, drops |-> {}]

VARIABLES
    creds,      \* the credentials in the options, or "unset" without a helper
    valid,      \* the credentials that the server still accepts
    token,      \* h.Token: "empty", "live" or "expired"
    facts,      \* what there is in the realm
    turn,       \* each goroutine: "idle", "store", "sent"
    sending,    \* the token it sent; "torn": read while it was written
    request,    \* its request
    response,   \* of the latest: "none", "error", "nil", "notfound", "true", "false"
    still,      \* history: those since whose request only they changed the realm
    requests, mishaps

own == <<turn, sending, request, response>>
vars == <<creds, valid, token, facts, own, still, requests, mishaps>>

Init ==
    /\ creds = {"unset"}
    /\ valid = {"user", "service"}
    /\ token = "empty"
    /\ facts \in {{}, {"user", "client"}}
    /\ turn = [w \in Askers |-> "idle"]
    /\ sending = [w \in Askers |-> "empty"]
    /\ request = [w \in Askers |-> NoRequest]
    /\ response = [w \in Askers |-> "none"]
    /\ still = {}
    /\ requests = 0
    /\ mishaps = 0

-----------------------------------------------------------------------------

\* NewHelper: SetKeycloakClient wants a user or a service account, or both.
SetKeycloakClient(c) ==
    /\ creds = {"unset"}
    /\ c # {}
    /\ creds' = c
    /\ UNCHANGED <<valid, token, facts, own, still, requests, mishaps>>

Ready(w) == creds # {"unset"} /\ turn[w] = "idle"

Mishap == mishaps < MaxMishaps /\ mishaps' = mishaps + 1

Counted(w) ==
    /\ requests' = IF w \in Patient THEN requests ELSE requests + 1
    /\ requests' <= MaxRequests

Turn(w, t) == turn' = [turn EXCEPT ![w] = t]

Respond(w, r) == Turn(w, "idle") /\ response' = [response EXCEPT ![w] = r]

\* A login with credentials c: the server refuses those that are not in the options
\* or not valid any more.
Login(w, c) ==
    /\ Ready(w)
    /\ Counted(w)
    /\ \/ /\ c \in creds \intersect valid
          /\ Turn(w, "store")
          /\ UNCHANGED <<response, mishaps>>
       \/ c \notin creds \intersect valid /\ Respond(w, "error") /\ UNCHANGED mishaps
       \/ Mishap /\ Respond(w, "error")
    /\ request' = [request EXCEPT ![w] = NoRequest]
    /\ UNCHANGED <<creds, valid, token, facts, sending, still>>

LoginAdmin(w) == Login(w, "user")
LoginServiceAccount(w) == Login(w, "service")

\* Faulty variant: the token stays with the answer.
TokenDropped(w) ==
    /\ turn[w] = "store"
    /\ Respond(w, "nil")
    /\ UNCHANGED <<creds, valid, token, facts, sending, request, still, requests, mishaps>>

\* h.Token = token.AccessToken; a login that failed leaves the old one.
StoreToken(w) ==
    /\ turn[w] = "store"
    /\ token' = "live"
    /\ Respond(w, "nil")
    /\ UNCHANGED <<creds, valid, facts, sending, request, still, requests, mishaps>>

\* CheckLoginUser returns the token it gets and does not keep it.
CheckLoginUser(w) ==
    /\ Ready(w)
    /\ Counted(w)
    /\ request' = [request EXCEPT ![w] = NoRequest]
    /\ \/ /\ Respond(w, IF {"user", "password"} \subseteq facts THEN "nil" ELSE "error")
          /\ UNCHANGED mishaps
       \/ Mishap /\ Respond(w, "error")
    /\ UNCHANGED <<creds, valid, token, facts, sending, still>>

\* Every other operation reads h.Token and sends one request with it.  A read
\* beside a write is a data race: it may give anything.
Request(w, o, needs, adds, drops) ==
    /\ Ready(w)
    /\ Counted(w)
    /\ sending' \in {[sending EXCEPT ![w] = token]} \union
            (IF \E v \in Askers : turn[v] = "store"
             THEN {[sending EXCEPT ![w] = "torn"]} ELSE {})
    /\ request' = [request EXCEPT ![w] =
           [op |-> o, needs |-> needs, adds |-> adds, drops |-> drops]]
    /\ Turn(w, "sent")
    /\ response' = [response EXCEPT ![w] = "none"]
    /\ still' = still \union {w}
    /\ UNCHANGED <<creds, valid, token, facts, mishaps>>

CreateUser(w) == Request(w, "CreateUser", {}, {"user"}, {})
UpdateUser(w) == Request(w, "UpdateUser", {"user"}, {}, {})
SetPassword(w) == Request(w, "SetPassword", {"user"}, {"password"}, {})
ExecuteActionsEmail(w) == Request(w, "ExecuteActionsEmail", {"user"}, {}, {})
DeleteUser(w) == Request(w, "DeleteUser", {"user"}, {}, {"user", "password", "role", "realmRole"})
GetUser(w) == Request(w, "GetUser", {}, {}, {})
GetUserByEmail(w) == Request(w, "GetUserByEmail", {}, {}, {})
LogoutUserSession(w) == Request(w, "LogoutUserSession", {"user"}, {}, {})
CreateClient(w) == Request(w, "CreateClient", {}, {"client"}, {})
GetClients(w) == Request(w, "GetClients", {}, {}, {})
CreateClientProtocolMapper(w) == Request(w, "CreateClientProtocolMapper", {"client"}, {"mapper"}, {})
GetClientSecret(w) == Request(w, "GetClientSecret", {"client"}, {}, {})
GetClientRole(w) == Request(w, "GetClientRole", {"client"}, {}, {})
AddClientRolesToUser(w) == Request(w, "AddClientRolesToUser", {"user", "client"}, {"role"}, {})
DeleteClientRolesFromUser(w) ==
    Request(w, "DeleteClientRolesFromUser", {"user", "client"}, {}, {"role"})
GetRealmRole(w) == Request(w, "GetRealmRole", {}, {}, {})
AddRealmRoleToUser(w) == Request(w, "AddRealmRoleToUser", {"user"}, {"realmRole"}, {})
HasClientRole(w) == Request(w, "HasClientRole", {"user", "client"}, {}, {})
GetComponent(w) == Request(w, "GetComponent", {}, {}, {})

\* The server's part: a creation of what is there is a conflict.
Creations == {"CreateUser", "CreateClient", "CreateClientProtocolMapper"}

Accepts(w) ==
    /\ sending[w] = "live"
    /\ request[w].needs \subseteq facts
    /\ request[w].op \in Creations => request[w].adds \intersect facts = {}

Lookups == {"GetUser", "GetUserByEmail"}

\* Faulty variant: an error leaves an empty list, which means "not found".
ErrorAsNotFound(w, accepted) ==
    IF request[w].op \in Lookups
    THEN IF accepted /\ "user" \in facts THEN "nil" ELSE "notfound"
    ELSE CASE ~accepted -> "error"
           [] accepted /\ request[w].op = "HasClientRole" ->
                  IF "role" \in facts THEN "true" ELSE "false"
           [] OTHER -> "nil"

\* What the operation makes of the answer.
Outcome(w, accepted) ==
    IF ~accepted THEN "error"
    ELSE CASE request[w].op \in Lookups -> IF "user" \in facts THEN "nil" ELSE "notfound"
           [] request[w].op = "HasClientRole" -> IF "role" \in facts THEN "true" ELSE "false"
           [] OTHER -> "nil"

Effect(w) ==
    /\ facts' = (facts \ request[w].drops) \union request[w].adds
    /\ still' = IF facts' = facts THEN still ELSE still \intersect {w}

Serve(w) ==
    /\ turn[w] = "sent"
    /\ \/ Accepts(w) /\ Effect(w) /\ Respond(w, Outcome(w, TRUE)) /\ UNCHANGED mishaps
       \/ /\ ~Accepts(w)
          /\ Respond(w, Outcome(w, FALSE))
          /\ UNCHANGED <<facts, still, mishaps>>
       \/ /\ Mishap
          /\ Respond(w, Outcome(w, FALSE))
          /\ (Accepts(w) /\ Effect(w)) \/ UNCHANGED <<facts, still>>
    /\ UNCHANGED <<creds, valid, token, sending, request, requests>>

\* The server lets the token expire.
Expire ==
    /\ token = "live"
    /\ Mishap
    /\ token' = "expired"
    /\ UNCHANGED <<creds, valid, facts, own, still, requests>>

\* The password of LoginAdmin expires, or an administrator resets it; a client
\* secret does not expire.
PasswordExpires ==
    /\ "user" \in valid
    /\ Mishap
    /\ valid' = valid \ {"user"}
    /\ UNCHANGED <<creds, token, facts, own, still, requests>>

-----------------------------------------------------------------------------

Operation(w) ==
    \/ LoginAdmin(w) \/ LoginServiceAccount(w) \/ CheckLoginUser(w)
    \/ CreateUser(w) \/ UpdateUser(w) \/ SetPassword(w) \/ DeleteUser(w)
    \/ ExecuteActionsEmail(w) \/ LogoutUserSession(w)
    \/ GetUser(w) \/ GetUserByEmail(w)
    \/ CreateClient(w) \/ GetClients(w) \/ GetClientSecret(w)
    \/ CreateClientProtocolMapper(w)
    \/ GetClientRole(w) \/ AddClientRolesToUser(w) \/ DeleteClientRolesFromUser(w)
    \/ GetRealmRole(w) \/ AddRealmRoleToUser(w) \/ HasClientRole(w)
    \/ GetComponent(w)

\* A patient goroutine logs in, asks for the user, and starts over on an error.
Persist(w) ==
    \/ response[w] \in {"none", "error"}
       /\ (IF "service" \in creds THEN LoginServiceAccount(w) ELSE LoginAdmin(w))
    \/ response[w] = "nil" /\ request[w] = NoRequest /\ GetUser(w)

Proceed(w) == StoreToken(w) \/ Serve(w)

Next ==
    \/ \E c \in SUBSET {"user", "service"} : SetKeycloakClient(c)
    \/ \E w \in Askers \ Patient : Operation(w)
    \/ \E w \in Patient : Persist(w)
    \/ \E w \in Askers : Proceed(w)
    \/ Expire
    \/ PasswordExpires

Spec == Init /\ [][Next]_vars

-----------------------------------------------------------------------------

Facts == {"user", "password", "role", "realmRole", "client", "mapper"}

OpNames == Creations \union Lookups \union
    {"none", "UpdateUser", "SetPassword", "DeleteUser", "ExecuteActionsEmail", "LogoutUserSession",
     "GetClients", "GetClientSecret", "GetClientRole", "AddClientRolesToUser",
     "DeleteClientRolesFromUser", "GetRealmRole", "AddRealmRoleToUser", "HasClientRole",
     "GetComponent"}

\* The helper itself never holds a torn token.
TypeOK ==
    /\ valid \subseteq {"user", "service"}
    /\ token \in {"empty", "live", "expired"}
    /\ sending \in [Askers -> {"empty", "live", "expired", "torn"}]
    /\ turn \in [Askers -> {"idle", "store", "sent"}]
    /\ request \in [Askers -> [op : OpNames, needs : SUBSET Facts, adds : SUBSET Facts,
                               drops : SUBSET Facts]]
    /\ facts \subseteq Facts
    /\ still \subseteq Askers
    /\ response \in [Askers -> {"none", "error", "nil", "notfound", "true", "false"}]

\* Unless others changed the realm since, an answer is the truth: "not found"
\* means that there is no such user, never that the token had expired, was torn
\* or that the request failed; "true" and "false" tell who has the role; and nil
\* means that what was to be there is there and what was to go is gone.
AnswersAreTrue ==
    \A w \in still :
        /\ response[w] = "notfound" => "user" \notin facts
        /\ response[w] \in {"true", "false"} => (response[w] = "true" <=> "role" \in facts)
        /\ response[w] = "nil" =>
            /\ request[w].adds \subseteq facts
            /\ request[w].drops \intersect facts = {}
            /\ request[w].op \in Lookups => "user" \in facts

\* "A fresh token is always a re-login away" from a service account: a goroutine
\* that calls LoginServiceAccount again after every error has its question answered
\* in the end, although tokens expire, answers get lost and another goroutine
\* replaces the token meanwhile, with LoginAdmin or without.
ReLoginHelps ==
    \A w \in Patient : "service" \in creds ~>
        request[w].op = "GetUser" /\ response[w] \in {"nil", "notfound"}
-----------------------------------------------------------------------------

\* A login has no request, no request adds what it drops, and those whose answer is
\* about the realm change nothing.
RequestInv ==
    \A w \in Askers :
        /\ turn[w] = "store" => request[w] = NoRequest
        /\ request[w].adds \intersect request[w].drops = {}
        /\ request[w].op \in Lookups \union {"HasClientRole"} =>
               request[w].adds = {} /\ request[w].drops = {}
=============================================================================
