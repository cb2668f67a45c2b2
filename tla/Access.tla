------------------------------- MODULE Access -------------------------------
(***************************************************************************)
(* How a service answers requests that carry tokens: the remote key set    *)
(* (krab_core's jwks.rs), the verification and the failure budget of       *)
(* auth_middleware (http_auth.rs), and the revocation and rotation of      *)
(* tokens by the auth service (service_auth/src/main.rs), which meet in    *)
(* the shared store.                                                       *)
(*                                                                         *)
(* The identity provider is external: it publishes one key set after       *)
(* another and may be down.  A token is what verification tells apart: the *)
(* kid in its header, the key that signed it, its use and whether policy   *)
(* allows it; every token has a jti.  Within a behaviour a token's exp may  *)
(* pass, which ends its markers in the store, but not the leeway for which *)
(* it is still taken.  The store may drop an entry that has not expired.   *)
(* The paths are neither open nor public.  A request is suspended wherever *)
(* the code awaits: at the fetch lock, at the answer of the provider and   *)
(* at every call of the store, which may fail.  It may be dropped there by *)
(* its client.                                                             *)
(***************************************************************************)
EXTENDS Integers, FiniteSets

CONSTANTS
    Requests,      \* slots of concurrent requests
    Kids,          \* key ids
    Published,     \* Published[n]: usable keys of the n-th published key set
    MaxPublished,  \* bound: number of key sets published
    StaticKids,    \* keys of the provider's configuration
    Retiring,      \* keys with a key_not_after
    Tokens,
    NamedKid,      \* the kid in a token's header, or NoKid
    SignedBy,      \* the key that signed a token, or NoKid for none of ours
    RefreshTokens, \* tokens whose token_use is "refresh"
    Claims,        \* Claims[t]: a token's claims and the path it is presented at
    Policy,        \* the AuthPolicy snapshot
    RequireKid,    \* KRAB_JWT_REQUIRE_KID
    Threshold,     \* auth_fail_threshold
    MinRefetch,    \* ticks between on-demand fetches
    RefreshEvery,  \* ticks after which a lazily refreshed set is refetched
    MaxCalls       \* bound: requests in a behaviour

NoKid == "nokid"
NoToken == "notoken"
NoTenant == "notenant"
Nobody == "nobody"
Background == "background"
Fetchers == Requests \cup {Background}

ASSUME AccessAssumption ==
    /\ MaxPublished \in Nat \ {0}
    /\ Published \in [1..MaxPublished -> SUBSET Kids]
    /\ StaticKids \subseteq Kids
    /\ Retiring \subseteq Kids
    /\ NoKid \notin Kids
    /\ NamedKid \in [Tokens -> Kids \cup {NoKid}]
    /\ SignedBy \in [Tokens -> Kids \cup {NoKid}]
    /\ RefreshTokens \subseteq Tokens
    /\ DOMAIN Claims = Tokens
    /\ NoToken \notin Tokens
    /\ RequireKid \in BOOLEAN
    /\ Threshold \in Nat
    /\ MinRefetch \in Nat \ {0}
    /\ RefreshEvery \in Nat \ {0}
    /\ MaxCalls \in Nat
    /\ Nobody \notin Fetchers
    /\ Background \notin Requests

VARIABLES
    published,    \* the provider's current key set
    idpUp,        \* whether the provider answers
    cached,       \* the key set in JwksKeys, 0 before the first load
    sinceAttempt, \* age of last_attempt, up to MinRefetch
    sinceSuccess, \* age of last_success, up to RefreshEvery
    fetchLock,    \* holder of fetch_lock
    answer,       \* key set in the answer a fetcher received
    background,   \* whether a background refresh is running
    bg,           \* where it is
    retired,      \* keys past their key_not_after
    pc, token,    \* per request
    late,         \* requests whose failure window has passed since they began
    failures,     \* auth:fail counter of the client in the current window
    revoked,      \* auth:revoked
    used,         \* auth:refresh:used
    calls,        \* requests so far
    forbidden,    \* requests to use a token whose revocation had been answered
    revokedDone,  \* tokens whose revocation has been answered
    admitted,     \* tokens with which a forbidden request has been accepted
    rotated,      \* token pairs issued for a refresh token, up to 2
    overlapped,   \* refresh tokens presented by overlapping requests
    revokedLost,  \* tokens whose marker in revoked has been lost
    usedLost      \* refresh tokens whose marker in used has been lost

idp == <<published, idpUp>>
keySet == <<cached, sinceAttempt, sinceSuccess, fetchLock, answer>>
store == <<failures, revoked, used>>
request == <<pc, token, late, forbidden>>
lost == <<revokedLost, usedLost>>
ghosts == <<calls, revokedDone, admitted, rotated, overlapped, lost>>
vars == <<idp, keySet, background, bg, retired, request, store, ghosts>>

Ended == {"idle"}
Protected == {"precheck", "prepare", "queue", "fetch", "replace", "verify", "lookup", "count"}
Refreshing == {"ref_used", "ref_revoked", "ref_mark", "ref_issue"}
Revoking == {"rev_mark", "rev_used"}
LoggingIn == {"login"}

TypeOK ==
    /\ published \in 1..MaxPublished
    /\ idpUp \in BOOLEAN
    /\ cached \in 0..MaxPublished
    /\ sinceAttempt \in 0..MinRefetch
    /\ sinceSuccess \in 0..RefreshEvery
    /\ fetchLock \in Fetchers \cup {Nobody}
    /\ answer \in [Fetchers -> 0..MaxPublished]
    /\ background \in BOOLEAN
    /\ bg \in {"sleep", "queue", "fetch", "replace"}
    /\ retired \subseteq Kids
    /\ pc \in [Requests -> Ended \cup Protected \cup Refreshing \cup Revoking \cup LoggingIn]
    /\ token \in [Requests -> Tokens \cup {NoToken}]
    /\ late \subseteq Requests
    /\ failures \in 0..(Threshold + 1)
    /\ revoked \subseteq Tokens
    /\ used \subseteq RefreshTokens
    /\ calls \in 0..MaxCalls
    /\ forbidden \subseteq Requests
    /\ revokedDone \subseteq Tokens
    /\ admitted \subseteq Tokens \cup {NoToken}
    /\ rotated \in [RefreshTokens -> 0..2]
    /\ overlapped \subseteq RefreshTokens
    /\ revokedLost \subseteq Tokens
    /\ usedLost \subseteq RefreshTokens

\* last_attempt = None allows a fetch at once, as an attempt long past does.
Init ==
    /\ published = 1
    /\ idpUp = TRUE
    /\ cached = 0
    /\ sinceAttempt = MinRefetch
    /\ sinceSuccess = 0
    /\ fetchLock = Nobody
    /\ answer = [f \in Fetchers |-> 0]
    /\ background \in BOOLEAN
    /\ bg = "queue"
    /\ retired = {}
    /\ pc = [r \in Requests |-> "idle"]
    /\ token = [r \in Requests |-> NoToken]
    /\ late = {}
    /\ failures = 0
    /\ revoked = {}
    /\ used = {}
    /\ calls = 0
    /\ forbidden = {}
    /\ revokedDone = {}
    /\ admitted = {}
    /\ rotated = [t \in RefreshTokens |-> 0]
    /\ overlapped = {}
    /\ revokedLost = {}
    /\ usedLost = {}

Loaded == cached > 0

-----------------------------------------------------------------------------
(* The provider, time and the configuration's clock: external.             *)

Publish ==
    /\ published < MaxPublished
    /\ published' = published + 1
    /\ UNCHANGED <<idpUp, keySet, background, bg, retired, request, store, ghosts>>

Outage ==
    /\ idpUp
    /\ idpUp' = FALSE
    /\ UNCHANGED <<published, keySet, background, bg, retired, request, store, ghosts>>

Recovery ==
    /\ ~idpUp
    /\ idpUp' = TRUE
    /\ UNCHANGED <<published, keySet, background, bg, retired, request, store, ghosts>>

Older(age, limit) == IF age < limit THEN age + 1 ELSE limit

Tick ==
    /\ sinceAttempt' = Older(sinceAttempt, MinRefetch)
    /\ sinceSuccess' = IF Loaded THEN Older(sinceSuccess, RefreshEvery) ELSE 0
    /\ <<sinceAttempt, sinceSuccess>>' # <<sinceAttempt, sinceSuccess>>
    /\ UNCHANGED <<idp, cached, fetchLock, answer, background, bg, retired, request, store, ghosts>>

\* A key reaches its key_not_after.
Retire(k) ==
    /\ k \notin retired
    /\ retired' = retired \cup {k}
    /\ UNCHANGED <<idp, keySet, background, bg, request, store, ghosts>>

\* current_window_epoch moves on: the counter of the new window is not there
\* yet.  A request goes on with the key of the window it began in.
NextWindow ==
    /\ failures > 0
    /\ failures' = 0
    /\ late' = {r \in Requests : pc[r] \in Protected}
    /\ UNCHANGED <<idp, keySet, background, bg, retired, pc, token, forbidden, revoked, used, ghosts>>

-----------------------------------------------------------------------------
(* The store forgets.  MemoryStore makes room at its capacity by evicting  *)
(* live entries (evict_for_capacity), and a marker's own time ends with    *)
(* the token's exp (ttl_from_exp), while tokens pass until exp and leeway. *)

ForgetRevoked(t) ==
    /\ t \in revoked
    /\ revoked' = revoked \ {t}
    /\ revokedLost' = revokedLost \cup {t}
    /\ UNCHANGED <<idp, keySet, background, bg, retired, request, failures, used,
                   calls, revokedDone, admitted, rotated, overlapped, usedLost>>

ForgetUsed(t) ==
    /\ t \in used
    /\ used' = used \ {t}
    /\ usedLost' = usedLost \cup {t}
    /\ UNCHANGED <<idp, keySet, background, bg, retired, request, failures, revoked,
                   calls, revokedDone, admitted, rotated, overlapped, revokedLost>>

\* The failure counter of a window can go before the window does.
ForgetFailures ==
    /\ failures > 0
    /\ failures' = 0
    /\ UNCHANGED <<idp, keySet, background, bg, retired, request, revoked, used, ghosts>>

Forget ==
    \/ \E t \in Tokens : ForgetRevoked(t)
    \/ \E t \in RefreshTokens : ForgetUsed(t)
    \/ ForgetFailures

-----------------------------------------------------------------------------
(* JwksSource                                                              *)

RemoteKids == IF Loaded THEN Published[cached] ELSE {}

MayRefetch == sinceAttempt = MinRefetch

FetchNeeded(kid) ==
    /\ ~Loaded \/ (kid # NoKid /\ kid \notin RemoteKids)
    /\ MayRefetch

PeriodicRefreshDue == Loaded /\ sinceSuccess = RefreshEvery /\ MayRefetch

\* refresh_if_needed's `needed'; without a background task the age counts too.
Needed(kid) == FetchNeeded(kid) \/ (~background /\ PeriodicRefreshDue)

\* The header of a request's token, as prepare_for_kid sees it.
KidOf(t) == IF t = NoToken THEN NoKid ELSE NamedKid[t]

\* The lock is not taken: a fetch starts beside the one in flight.
BackgroundFetchUnlocked ==
    /\ background
    /\ bg = "queue"
    /\ fetchLock' = Background
    /\ sinceAttempt' = 0
    /\ bg' = "fetch"
    /\ UNCHANGED <<idp, cached, sinceSuccess, answer, background, retired, request, store, ghosts>>

\* refresh_if_needed: fetch_lock is free; the need is checked again under it.
LockAndCheck(r) ==
    /\ pc[r] = "queue"
    /\ fetchLock = Nobody
    /\ IF Needed(KidOf(token[r]))
       THEN /\ fetchLock' = r
            /\ sinceAttempt' = 0
            /\ pc' = [pc EXCEPT ![r] = "fetch"]
       ELSE /\ pc' = [pc EXCEPT ![r] = "verify"]
            /\ UNCHANGED <<fetchLock, sinceAttempt>>
    /\ UNCHANGED <<idp, cached, sinceSuccess, answer, background, bg, retired, token, late, forbidden, store, ghosts>>

\* refresh_jwks of the background task fetches unconditionally.
BackgroundFetch ==
    /\ background
    /\ bg = "queue"
    /\ fetchLock = Nobody
    /\ fetchLock' = Background
    /\ sinceAttempt' = 0
    /\ bg' = "fetch"
    /\ UNCHANGED <<idp, cached, sinceSuccess, answer, background, retired, request, store, ghosts>>

\* Where a fetcher goes on.
Resume(f, there, then) ==
    IF f = Background THEN bg' = there /\ UNCHANGED pc
                      ELSE pc' = [pc EXCEPT ![f] = then] /\ UNCHANGED bg

Fetching(f, label) == IF f = Background THEN bg = label ELSE pc[f] = label

\* fetch_and_replace: an answer that is complete and holds usable keys ...
FetchAnswered(f) ==
    /\ Fetching(f, "fetch")
    /\ idpUp
    /\ Published[published] # {}
    /\ answer' = [answer EXCEPT ![f] = published]
    /\ Resume(f, "replace", "replace")
    /\ UNCHANGED <<idp, cached, sinceAttempt, sinceSuccess, fetchLock, background, retired, token, late, forbidden, store, ghosts>>

\* ... replaces the set.  The attempt is stamped again and the lock released.
ReplaceKeys(f) ==
    /\ Fetching(f, "replace")
    /\ cached' = answer[f]
    /\ answer' = [answer EXCEPT ![f] = 0]
    /\ sinceSuccess' = 0
    /\ sinceAttempt' = 0
    /\ fetchLock' = Nobody
    /\ Resume(f, "sleep", "verify")
    /\ UNCHANGED <<idp, background, retired, token, late, forbidden, store, ghosts>>

\* The error path keeps the guard of the lock.
FetchFailedKeepingLock(f) ==
    /\ Fetching(f, "fetch")
    /\ ~idpUp \/ Published[published] = {}
    /\ sinceAttempt' = 0
    /\ Resume(f, "sleep", "verify")
    /\ UNCHANGED <<idp, cached, sinceSuccess, fetchLock, answer, background, retired, token, late, forbidden, store, ghosts>>

\* An outage, a timeout or a set without usable keys leaves the old set.
FetchFailed(f) ==
    /\ Fetching(f, "fetch")
    /\ ~idpUp \/ Published[published] = {}
    /\ sinceAttempt' = 0
    /\ fetchLock' = Nobody
    /\ Resume(f, "sleep", "verify")
    /\ UNCHANGED <<idp, cached, sinceSuccess, answer, background, retired, token, late, forbidden, store, ghosts>>

\* The interval of spawn_background_refresh has passed.
BackgroundWake ==
    /\ background
    /\ bg = "sleep"
    /\ bg' = "queue"
    /\ UNCHANGED <<idp, keySet, background, retired, request, store, ghosts>>

-----------------------------------------------------------------------------
(* auth_middleware                                                         *)

Goto(r, label) == pc' = [pc EXCEPT ![r] = label] /\ UNCHANGED <<token, late, forbidden, admitted>>

\* The answer; a slot keeps nothing of its request.
Reply(r, code) ==
    /\ pc' = [pc EXCEPT ![r] = "idle"]
    /\ token' = [token EXCEPT ![r] = NoToken]
    /\ late' = late \ {r}
    /\ forbidden' = forbidden \ {r}
    /\ admitted' = IF code = 200 /\ r \in forbidden THEN admitted \cup {token[r]} ELSE admitted

quiet == <<idp, keySet, background, bg, retired, calls, revokedDone, overlapped, lost>>

\* A request for one of the handlers begins.
Begin(r, t, label) ==
    /\ pc[r] = "idle"
    /\ calls < MaxCalls
    /\ calls' = calls + 1
    /\ token' = [token EXCEPT ![r] = t]
    /\ forbidden' = IF t \in revokedDone /\ label # "rev_mark"
                    THEN forbidden \cup {r} ELSE forbidden
    /\ pc' = [pc EXCEPT ![r] = label]
    /\ UNCHANGED <<idp, keySet, background, bg, retired, late, store, revokedDone, admitted, rotated, lost>>

\* A request arrives; the key of its failure counter is computed at once.
Arrive(r, t) == Begin(r, t, "precheck") /\ UNCHANGED overlapped

\* Only a token without a kid is held against the budget before it is
\* verified; a failing lookup is passed over.
PreCheck(r) ==
    /\ pc[r] = "precheck"
    /\ \/ /\ token[r] # NoToken
          /\ NamedKid[token[r]] = NoKid
          /\ r \in late \/ failures > Threshold
          /\ Reply(r, 429)
       \/ Goto(r, "prepare")
    /\ UNCHANGED <<quiet, rotated, store>>

\* prepare_for_kid: join the fetch or go straight to the verification.
Prepare(r) ==
    /\ pc[r] = "prepare"
    /\ Goto(r, IF Needed(KidOf(token[r])) THEN "queue" ELSE "verify")
    /\ UNCHANGED <<quiet, rotated, store>>

\* candidate_kids: the named key if it is known, else every key.
CandidateKids(t) ==
    IF NamedKid[t] # NoKid THEN {NamedKid[t]} \cap (StaticKids \cup RemoteKids)
    ELSE IF RequireKid THEN {} ELSE StaticKids \cup RemoteKids

\* Some candidate that is not retired verifies the signature (is_retired); the
\* keys are fewer than MAX_KIDLESS_KEY_TRIALS.
SignatureVerifies(t) == SignedBy[t] \in CandidateKids(t) \ retired

\* What a route policy asks of the claims c of a token presented below its prefix.
RouteAllows(p, c) ==
    /\ p.allScopes \subseteq c.scopes
    /\ p.anyScopes # {} => p.anyScopes \cap c.scopes # {}
    /\ p.allRoles \subseteq c.roles
    /\ p.anyRoles # {} => p.anyRoles \cap c.roles # {}
    /\ p.subjects # {} => c.sub \in p.subjects
    /\ p.tenantMatch => c.pathTenant # NoTenant /\ c.tenant = c.pathTenant

\* AuthPolicy::enforce up to the route policies ...
BaseAllows(c) ==
    /\ Policy.scopes \subseteq c.scopes
    /\ Policy.roles \subseteq c.roles
    /\ c.adminPath => Policy.adminScope \in c.scopes \/ Policy.adminRole \in c.roles
    /\ Policy.tenantClaim => c.tenant # NoTenant
    /\ Policy.tenantMatch /\ c.pathTenant # NoTenant => c.tenant = c.pathTenant

\* ... which fail closed when they could not be parsed; then the claims.
Enforce(c) ==
    IF ~BaseAllows(c) THEN 401
    ELSE IF ~Policy.routesParsed THEN 500
    ELSE IF /\ \A p \in Policy.routes : c.path \in p.paths => RouteAllows(p, c)
            /\ Policy.claims \subseteq c.claims
         THEN 200 ELSE 401

\* validate_provider_claims: issuer, audience and the provider's own claims.
ProviderAccepts(c) ==
    /\ c.iss = Policy.issuer
    /\ Policy.audience \in c.aud
    /\ Policy.providerClaims \subseteq c.claims

\* authorize_jwt_detailed, for one provider.
Verdict(t) ==
    IF t = NoToken THEN 401
    ELSE IF SignatureVerifies(t)
         THEN IF ProviderAccepts(Claims[t]) /\ t \notin RefreshTokens
              THEN Enforce(Claims[t]) ELSE 401
         ELSE IF CandidateKids(t) = {} /\ ~Loaded THEN 503 ELSE 401

\* The tokens that a service with its keys at hand accepts, unless revoked.
Acceptable ==
    {t \in Tokens \ RefreshTokens : ProviderAccepts(Claims[t]) /\ Enforce(Claims[t]) = 200}

\* A key set that never loaded is reported as a bad token.
VerifyBlaming(r) ==
    /\ pc[r] = "verify"
    /\ Goto(r, IF Verdict(token[r]) = 200 THEN "lookup" ELSE "count")
    /\ UNCHANGED <<quiet, rotated, store>>

Verify(r) ==
    /\ pc[r] = "verify"
    /\ \/ Verdict(token[r]) = 200 /\ Goto(r, "lookup")
       \/ Verdict(token[r]) = 401 /\ Goto(r, "count")
       \/ \E code \in {500, 503} : Verdict(token[r]) = code /\ Reply(r, code)
    /\ UNCHANGED <<quiet, rotated, store>>

\* A store that cannot be read counts as "not revoked".
LookupFailingOpen(r) ==
    /\ pc[r] = "lookup"
    /\ \/ token[r] \in revoked /\ Goto(r, "count")
       \/ Reply(r, 200)
    /\ UNCHANGED <<quiet, rotated, store>>

\* The revocation list; a store that cannot be read fails closed.
LookupRevocation(r) ==
    /\ pc[r] = "lookup"
    /\ \/ token[r] \in revoked /\ Goto(r, "count")
       \/ token[r] \notin revoked /\ Reply(r, 200)
       \/ Reply(r, 503)
    /\ UNCHANGED <<quiet, rotated, store>>

\* A 401 is counted against the client's window; without a store it is a 503.
\* The counter of a window that has passed is not seen by later requests.
CountFailure(r) ==
    /\ pc[r] = "count"
    /\ \/ /\ r \notin late
          /\ failures' = Older(failures, Threshold + 1)
          /\ Reply(r, IF failures + 1 > Threshold THEN 429 ELSE 401)
       \/ /\ r \in late
          /\ Reply(r, 401)
          /\ UNCHANGED failures
       \/ Reply(r, 503) /\ UNCHANGED failures
    /\ UNCHANGED <<quiet, rotated, revoked, used>>

\* The client goes away: the future is dropped at its await, and with it the
\* guard of fetch_lock.
Drop(r) ==
    /\ pc[r] # "idle"
    /\ Reply(r, 0)
    /\ fetchLock' = IF fetchLock = r THEN Nobody ELSE fetchLock
    /\ answer' = [answer EXCEPT ![r] = 0]
    /\ UNCHANGED <<idp, cached, sinceAttempt, sinceSuccess, background, bg, retired, store, calls, revokedDone, rotated, overlapped, lost>>

-----------------------------------------------------------------------------
(* The auth service's refresh_handler and revoke_handler                   *)

\* A refresh request whose token decodes and is a refresh token.
Refresh(r, t) ==
    /\ Begin(r, t, "ref_used")
    /\ overlapped' = IF \E q \in Requests : pc[q] \in Refreshing /\ token[q] = t
                     THEN overlapped \cup {t} ELSE overlapped

\* The lookup of the used marker treats a store outage as "not used".
CheckUsedFailingOpen(r) ==
    /\ pc[r] = "ref_used"
    /\ \/ token[r] \in used /\ Reply(r, 401)
       \/ Goto(r, "ref_revoked")
    /\ UNCHANGED <<quiet, rotated, store>>

CheckUsed(r) ==
    /\ pc[r] = "ref_used"
    /\ \/ token[r] \in used /\ Reply(r, 401)
       \/ token[r] \notin used /\ Goto(r, "ref_revoked")
       \/ Reply(r, 503)
    /\ UNCHANGED <<quiet, rotated, store>>

CheckRevoked(r) ==
    /\ pc[r] = "ref_revoked"
    /\ \/ token[r] \in revoked /\ Reply(r, 401)
       \/ token[r] \notin revoked /\ Goto(r, "ref_mark")
       \/ Reply(r, 503)
    /\ UNCHANGED <<quiet, rotated, store>>

\* A failing write may have reached the store.
MarkUsed(r) ==
    /\ pc[r] = "ref_mark"
    /\ \/ used' = used \cup {token[r]} /\ (Goto(r, "ref_issue") \/ Reply(r, 503))
       \/ Reply(r, 503) /\ UNCHANGED used
    /\ UNCHANGED <<quiet, rotated, failures, revoked>>

\* issue_token_pair: the pair is returned once its live marker is stored.
IssuePair(r) ==
    /\ pc[r] = "ref_issue"
    /\ \/ /\ Reply(r, 200)
          /\ rotated' = [rotated EXCEPT ![token[r]] = Older(@, 2)]
       \/ Reply(r, 503) /\ UNCHANGED rotated
    /\ UNCHANGED <<quiet, store>>

\* login_handler: the credentials are wrong or cannot be verified, or a pair is
\* issued, if its live marker can be stored.
Login(r) == Begin(r, NoToken, "login") /\ UNCHANGED overlapped

VerifyLogin(r) ==
    /\ pc[r] = "login"
    /\ \E code \in {200, 401, 503} : Reply(r, code)
    /\ UNCHANGED <<quiet, rotated, store>>

\* A revocation of a token that decodes.
Revoke(r, t) == Begin(r, t, "rev_mark") /\ UNCHANGED overlapped

ReplyRevoked(r) ==
    /\ Reply(r, 200)
    /\ revokedDone' = revokedDone \cup {token[r]}

MarkRevoked(r) ==
    /\ pc[r] = "rev_mark"
    /\ \/ /\ revoked' = revoked \cup {token[r]}
          /\ IF token[r] \in RefreshTokens
             THEN Goto(r, "rev_used") /\ UNCHANGED revokedDone
             ELSE ReplyRevoked(r)
       \/ /\ revoked' \in {revoked, revoked \cup {token[r]}}
          /\ Reply(r, 503)
          /\ UNCHANGED revokedDone
    /\ UNCHANGED <<idp, keySet, background, bg, retired, failures, used, calls, rotated, overlapped, lost>>

MarkRevokedUsed(r) ==
    /\ pc[r] = "rev_used"
    /\ \/ /\ used' = used \cup {token[r]}
          /\ ReplyRevoked(r)
       \/ /\ used' \in {used, used \cup {token[r]}}
          /\ Reply(r, 503)
          /\ UNCHANGED revokedDone
    /\ UNCHANGED <<idp, keySet, background, bg, retired, failures, revoked, calls, rotated, overlapped, lost>>

-----------------------------------------------------------------------------
FetchStep(f) == FetchAnswered(f) \/ ReplaceKeys(f) \/ FetchFailed(f)

\* What a request does by itself.
Step(r) ==
    \/ PreCheck(r)
    \/ Prepare(r)
    \/ LockAndCheck(r)
    \/ FetchStep(r)
    \/ Verify(r)
    \/ LookupRevocation(r)
    \/ CountFailure(r)
    \/ CheckUsed(r)
    \/ CheckRevoked(r)
    \/ MarkUsed(r)
    \/ IssuePair(r)
    \/ VerifyLogin(r)
    \/ MarkRevoked(r)
    \/ MarkRevokedUsed(r)

BackgroundStep == BackgroundWake \/ BackgroundFetch \/ FetchStep(Background)

Next ==
    \/ \E r \in Requests :
        \/ \E t \in Tokens \cup {NoToken} : Arrive(r, t)
        \/ Login(r)
        \/ \E t \in RefreshTokens : Refresh(r, t)
        \/ \E t \in Tokens : SignedBy[t] # NoKid /\ Revoke(r, t)
        \/ Step(r)
        \/ Drop(r)
    \/ BackgroundStep
    \/ Publish
    \/ Outage
    \/ Recovery
    \/ Tick
    \/ \E k \in Retiring : Retire(k)
    \/ NextWindow
    \/ Forget

\* Requests and the background task are polled until they end.  tokio's Mutex
\* serves its waiters in order, so one that finds it free time and again gets it.
Fairness ==
    /\ \A r \in Requests : WF_vars(Step(r))
    /\ WF_vars(BackgroundStep) /\ SF_vars(BackgroundFetch)

Spec == Init /\ [][Next]_vars /\ Fairness

-----------------------------------------------------------------------------
(* Properties.                                                             *)

\* The cached key set is never replaced by one published earlier, whatever
\* fetches of requests and of the background task overlap (fetch_lock).
KeySetNeverOlder == [][cached' >= cached]_vars

\* A token that names its key, was signed with it and would be allowed is never
\* counted against its client while the key set has not loaded: the provider's
\* outage costs the client nothing (authorize_jwt_detailed, auth_middleware).
OutageNotBlamed ==
    \A r \in Requests :
        /\ pc[r] = "count"
        /\ token[r] \in Acceptable
        /\ NamedKid[token[r]] = SignedBy[token[r]]
        /\ SignedBy[token[r]] \in Kids \ StaticKids
        => Loaded

\* A token whose revocation has been answered is accepted by a request that starts
\* later, on a protected route or to be rotated, only if the store has lost the
\* marker of its revocation since; no order of the calls and none that fails can
\* bring it back (revoke_handler, auth_middleware, refresh_handler).
RevokedStaysOut == admitted \subseteq revokedLost

\* A refresh token is exchanged for a second pair only if two requests presented
\* it at the same time or the store has lost the marker of its use; a retry after
\* a lost answer is refused (refresh_handler's used marker).
RotatedOnce == \A t \in RefreshTokens : rotated[t] > 1 => t \in overlapped \cup usedLost

\* With a background refresh, a usable key set that the provider goes on
\* publishing is in the cache in the end, whatever failed before
\* (spawn_background_refresh).
KeysCatchUp ==
    <>[](background /\ idpUp /\ Published[published] # {}) => []<>(cached = published)
=============================================================================
