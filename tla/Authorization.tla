---------------------------- MODULE Authorization ----------------------------
(***************************************************************************)
(* What a request passes before its handler: AuthFairing with the token    *)
(* blacklist in Redis (jwt_fairing.go, auth_token.go, jwt.go), then        *)
(* PermissionFairing with CasbinAuthorizer over a policy in a database     *)
(* that other instances of the application change (authorization.go,       *)
(* casbin_authorizer.go).                                                  *)
(*                                                                         *)
(* One token and one policy rule.  A clock counts up to the end of the     *)
(* token's life; the blacklist entry has a time to live computed before    *)
(* it is written.  An authorizer's lock is held over the two database      *)
(* steps of a call, reload and use; another instance may write between     *)
(* them.  Signature, issuer and header checks are one possible refusal.    *)
(***************************************************************************)
EXTENDS Naturals

CONSTANTS Replicas,                \* instances of the application
          Visitors, Administrators,
          ExpiresAt, ClockLimit    \* last tick of the token; end of the clock

Nobody == "nobody"
Callers == Visitors \union Administrators

ASSUME AuthorizationAssumption ==
    /\ ExpiresAt \in Nat /\ ClockLimit \in Nat
    /\ Replicas # {} /\ Nobody \notin Callers

VARIABLES clock,
          blacklistedTill,   \* the key's expiration in Redis, 0 without a key
          revoked,           \* history: a RevokeToken returned nil
          stored,            \* the rule is in the database
          authorizer,        \* per instance: [loaded, unavailable, holder]
          visit             \* per caller: see VisitType

authorizationVars ==
    <<clock, blacklistedTill, revoked, stored, authorizer, visit>>

VisitType ==
    [at : {"idle", "token", "blacklist", "permission", "refreshed",
           "ttl", "allowed"},
     task : {"request", "revoke", "add", "remove", "reload"},
     instance : Replicas,
     ttl : Nat,
     live : BOOLEAN,      \* history: token not revoked when the request came
     grounds : BOOLEAN]   \* history: the rule was stored during the request

AuthorizationTypeOK ==
    /\ clock \in 0..ClockLimit
    /\ blacklistedTill \in Nat
    /\ revoked \in BOOLEAN
    /\ stored \in BOOLEAN
    /\ authorizer \in [Replicas -> [loaded : BOOLEAN, unavailable : BOOLEAN,
                                     holder : Callers \union {Nobody}]]
    /\ visit \in [Callers -> VisitType]

AtRest == [at |-> "idle", task |-> "request", ttl |-> 0, live |-> FALSE,
         grounds |-> FALSE, instance |-> CHOOSE i \in Replicas : TRUE]

AuthorizationInit ==
    /\ clock = 0 /\ blacklistedTill = 0 /\ revoked = FALSE
    /\ stored = TRUE
    /\ authorizer = [i \in Replicas |->
         [loaded |-> TRUE, unavailable |-> FALSE, holder |-> Nobody]]
    /\ visit = [c \in Callers |-> AtRest]

-----------------------------------------------------------------------------
Moves(c, place) == visit' = [visit EXCEPT ![c].at = place]

(* The call returns, or the request is refused with 401, 403, 500 or 503. *)
Done(c) == visit' = [visit EXCEPT ![c] = AtRest]

(* The token is accepted on its own up to its expiration and the skew. *)
TokenHolds == clock <= ExpiresAt

Tick ==
    /\ clock < ClockLimit
    /\ clock' = clock + 1
    /\ UNCHANGED <<blacklistedTill, revoked, stored, authorizer, visit>>

(* A request comes, or an administrator withdraws the token or calls the   *)
(* policy of some replica.                                                 *)
Begin(c) ==
    /\ visit[c].at \in {"idle", "allowed"}
    /\ \/ /\ c \in Visitors
          /\ visit' = [visit EXCEPT ![c] =
               [AtRest EXCEPT !.at = "token", !.live = ~revoked, !.grounds = stored]]
       \/ /\ c \in Administrators
          /\ visit' = [visit EXCEPT ![c] =
               [AtRest EXCEPT !.at = "token", !.task = "revoke"]]
       \/ /\ c \in Administrators
          /\ \E task \in {"add", "remove", "reload"} :
               visit' = [visit EXCEPT ![c] =
                  [AtRest EXCEPT !.at = "permission", !.task = task]]
    /\ UNCHANGED <<clock, blacklistedTill, revoked, stored, authorizer>>

(* JWTUtil.ParseToken, for a request and for a revocation. *)
ParseToken(c) ==
    /\ visit[c].at = "token"
    /\ \/ /\ TokenHolds
          /\ IF visit[c].task = "request"
             THEN Moves(c, "blacklist")
             ELSE visit' = [visit EXCEPT ![c].at = "ttl",
                                           ![c].ttl = ExpiresAt + 1 - clock]
       \/ Done(c)
    /\ UNCHANGED <<clock, blacklistedTill, revoked, stored, authorizer>>

(* IsTokenBlacklisted: an error refuses, and so does a missing Redis where *)
(* the tokens are stored there.                                            *)
CheckBlacklist(c) ==
    /\ visit[c].at = "blacklist"
    /\ \/ /\ clock >= blacklistedTill
          /\ Moves(c, "permission")
       \/ Done(c)
    /\ UNCHANGED <<clock, blacklistedTill, revoked, stored, authorizer>>

(* RevokeToken writes the key; its error may hide a key that was written. *)
WriteBlacklist(c) ==
    /\ visit[c].at = "ttl"
    /\ \/ /\ blacklistedTill' = clock + visit[c].ttl
          /\ revoked' \in {revoked, TRUE}
       \/ UNCHANGED <<blacklistedTill, revoked>>
    /\ Done(c)
    /\ UNCHANGED <<clock, stored, authorizer>>

-----------------------------------------------------------------------------
At(c) == visit[c].instance

Unlock(c) == authorizer' = [authorizer EXCEPT ![At(c)].holder = Nobody]

RefreshOrStale(c, i) ==
    /\ visit[c].at = "permission" /\ authorizer[i].holder = Nobody
    /\ visit' = [visit EXCEPT ![c].at = "refreshed", ![c].instance = i]
    /\ \E policy \in {stored, authorizer[i].loaded} :
         authorizer' = [authorizer EXCEPT ![i].loaded = policy, ![i].holder = c]
    /\ UNCHANGED <<clock, blacklistedTill, revoked, stored>>

(* Authorize, AddPolicy, RemovePolicy and LoadPolicy take the lock of the  *)
(* replica they are called on, which matters from here on, and reload the  *)
(* policy; a failed reload closes the authorizer, and only LoadPolicy      *)
(* opens it again.                                                         *)
Refresh(c, i) ==
    /\ visit[c].at = "permission" /\ authorizer[i].holder = Nobody
    /\ \/ /\ authorizer[i].unavailable /\ visit[c].task # "reload"
          /\ Done(c)
          /\ UNCHANGED authorizer
       \/ /\ ~authorizer[i].unavailable \/ visit[c].task = "reload"
          /\ \/ /\ visit' = [visit EXCEPT ![c].at = "refreshed", ![c].instance = i]
                /\ authorizer' = [authorizer EXCEPT ![i] =
                     [loaded |-> stored, unavailable |-> FALSE, holder |-> c]]
             \/ /\ Done(c)
                /\ authorizer' = [authorizer EXCEPT ![i].unavailable = TRUE]
    /\ UNCHANGED <<clock, blacklistedTill, revoked, stored>>

Reloaded(c) ==
    /\ visit[c].at = "refreshed" /\ visit[c].task = "reload"
    /\ Done(c) /\ Unlock(c)
    /\ UNCHANGED <<clock, blacklistedTill, revoked, stored>>

(* Authorize: a request whose context has ended meanwhile is refused. *)
Enforce(c) ==
    /\ visit[c].at = "refreshed" /\ visit[c].task = "request"
    /\ \/ authorizer[At(c)].loaded /\ Moves(c, "allowed")
       \/ Done(c)
    /\ Unlock(c)
    /\ UNCHANGED <<clock, blacklistedTill, revoked, stored>>

(* AddPolicy and RemovePolicy: nothing to do is no failure; a write that   *)
(* fails, or whose answer is lost, closes the authorizer.                  *)
ChangePolicy(c) ==
    LET present == visit[c].task = "add" IN
    /\ visit[c].at = "refreshed" /\ visit[c].task \in {"add", "remove"}
    /\ \/ /\ authorizer[At(c)].loaded = present
          /\ UNCHANGED stored
          /\ Unlock(c)
       \/ /\ authorizer[At(c)].loaded # present
          /\ stored' = present
          /\ authorizer' = [authorizer EXCEPT ![At(c)] =
               [loaded |-> present, unavailable |-> FALSE, holder |-> Nobody]]
       \/ /\ authorizer[At(c)].loaded # present
          /\ stored' \in {stored, present}
          /\ authorizer' = [authorizer EXCEPT ![At(c)] =
               [@ EXCEPT !.unavailable = TRUE, !.holder = Nobody]]
    /\ visit' = [d \in Callers |->
         IF d = c THEN AtRest
         ELSE [visit[d] EXCEPT !.grounds =
               @ \/ (visit[d].task = "request" /\ visit[d].at # "idle" /\ stored')]]
    /\ UNCHANGED <<clock, blacklistedTill, revoked>>

AuthorizationNext ==
    \/ Tick
    \/ \E c \in Callers :
         \/ Begin(c) \/ ParseToken(c) \/ CheckBlacklist(c) \/ WriteBlacklist(c)
         \/ Reloaded(c) \/ Enforce(c) \/ ChangePolicy(c)
         \/ \E i \in Replicas : Refresh(c, i)

-----------------------------------------------------------------------------
(* Whoever withdrew access is obeyed by the requests that come after: a    *)
(* request that reaches its handler had the rule in the database at some   *)
(* moment of its way, on whichever instance and after whatever failure;    *)
(* and its token was not revoked before it came, unless the token's own    *)
(* life ended while the request was between its two checks.                *)
WithdrawnIsRefused ==
    \A c \in Callers :
        visit[c].at = "allowed" =>
            /\ visit[c].grounds
            /\ visit[c].live \/ clock > ExpiresAt

(* A revoked token is on the blacklist until it has expired, and a request *)
(* that came with it gets past the blacklist only when it has.             *)
RevokedTillExpired ==
    /\ revoked => blacklistedTill > ExpiresAt
    /\ \A c \in Callers :
         /\ visit[c].at = "ttl" => clock + visit[c].ttl > ExpiresAt
         /\ visit[c].task = "request" /\ visit[c].at \in {"token", "blacklist"} =>
              visit[c].live \/ revoked
         /\ visit[c].task = "request" /\ visit[c].at \in {"permission", "refreshed"} =>
              visit[c].live \/ clock > ExpiresAt

(* A call that has refreshed an authorizer holds its lock, so that what a  *)
(* request is decided on was stored while it was on its way.               *)
DecidedUnderLock ==
    \A c \in Callers :
        /\ visit[c].at = "refreshed" => authorizer[visit[c].instance].holder = c
        /\ visit[c].task = "request" /\ visit[c].at # "idle" /\ stored => visit[c].grounds
        /\ visit[c].task = "request" /\ visit[c].at = "refreshed"
              /\ authorizer[visit[c].instance].loaded => visit[c].grounds
        /\ visit[c].at \in {"blacklist", "allowed"} => visit[c].task = "request"

AuthorizationIInv ==
    AuthorizationTypeOK /\ RevokedTillExpired /\ DecidedUnderLock /\ WithdrawnIsRefused
=============================================================================
