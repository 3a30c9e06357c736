-------------------------- MODULE ExternalIdentity --------------------------
(***************************************************************************)
(* Resolving the token of an external identity provider into a local       *)
(* context (rbac/middleware.py, shadow_user.py, external_org.py): the      *)
(* first requests of a new user, in parallel, each look for the user, the  *)
(* organisation and the membership, and insert the rows they miss.         *)
(*                                                                         *)
(* One user of one organisation of the provider, both new to the gateway.  *)
(* `expired`: a rollback expires every object of the session, the user     *)
(* among them; reading user.id afterwards needs a query that an            *)
(* asynchronous session cannot make there, and auth_middleware answers the *)
(* exception with 401.                                                     *)
(***************************************************************************)
EXTENDS Naturals

CONSTANTS
  Reqs,         \* requests in flight at a time
  MaxFaults,    \* bound: database failures, and lost answers of the provider
  MaxExpiries   \* bound: times the 30 second cache entry runs out

VARIABLES
  taken,        \* a local organisation already has the name the provider tells
  user, org, mem,   \* rows: users, organizations (its name), user_organizations
  cached,       \* the token has an entry in _auth_cache
  req,          \* where each request is, and what it found
  faults, expiries

vars == <<taken, user, org, mem, cached, req, faults, expiries>>

Names == {"idp", "fallback", "suffixed"}

NoRequest == [at |-> "idle", found |-> FALSE, name |-> "none", expired |-> FALSE]

TypeOK ==
  /\ taken \in BOOLEAN /\ user \in BOOLEAN /\ mem \in BOOLEAN /\ cached \in BOOLEAN
  /\ org \in Names \cup {"none"}
  /\ req \in [Reqs -> [at : {"idle", "user", "org", "fetch", "insert", "again", "suffix",
                             "member", "link", "build", "ok", "refused"},
                       found : BOOLEAN, name : Names \cup {"none"}, expired : BOOLEAN]]
  /\ faults \in 0 .. MaxFaults /\ expiries \in 0 .. MaxExpiries

Init ==
  /\ taken \in BOOLEAN
  /\ user = FALSE /\ org = "none" /\ mem = FALSE
  /\ cached = FALSE
  /\ req = [r \in Reqs |-> NoRequest]
  /\ faults = 0 /\ expiries = 0

-----------------------------------------------------------------------------
Go(r, at) == req' = [req EXCEPT ![r].at = at]

Rows == <<taken, user, org, mem, cached, faults, expiries>>

(* _resolve_external_token, _resolve_oidc_token: the token is verified,    *)
(* then get_or_create_shadow_user looks the address up.                    *)
ResolveToken(r) ==
  /\ req[r].at \in {"idle", "ok", "refused"} /\ ~cached
  /\ req' = [req EXCEPT ![r] = [NoRequest EXCEPT !.at = "user", !.found = user]]
  /\ UNCHANGED Rows


(* The insert that comes second breaks users.email: the request is refused.*)
ShadowUser(r) ==
  /\ req[r].at = "user"
  /\ user' = TRUE
  /\ Go(r, IF ~req[r].found /\ user THEN "refused" ELSE "org")
  /\ UNCHANGED <<taken, org, mem, cached, faults, expiries>>

(* ensure_external_org, from here to the membership                        *)
FindOrg(r) ==
  /\ req[r].at = "org"
  /\ Go(r, IF org = "none" THEN "fetch" ELSE "member")
  /\ UNCHANGED Rows

(* The name is the provider's, or made of the id when it cannot be had.    *)
FetchIdpOrgName(r) ==
  /\ req[r].at = "fetch"
  /\ \E n \in {"idp", "fallback"} :
       /\ req' = [req EXCEPT ![r].at = "insert", ![r].name = n]
       /\ n = "fallback" => faults < MaxFaults
       /\ faults' = IF n = "fallback" THEN faults + 1 ELSE faults
  /\ UNCHANGED <<taken, user, org, mem, cached, expiries>>

(* A mutant: an insert that clashes ends the provisioning.                 *)
InsertOrgOnce(r) ==
  LET clash == org # "none" \/ (taken /\ req[r].name = "idp") IN
  /\ req[r].at = "insert"
  /\ org' = IF clash THEN org ELSE req[r].name
  /\ Go(r, IF clash THEN "build" ELSE "member")
  /\ UNCHANGED <<taken, user, mem, cached, faults, expiries>>

(* The id or the name is taken: IntegrityError, rollback, look again.      *)
InsertOrg(r) ==
  LET clash == org # "none" \/ (taken /\ req[r].name = "idp") IN
  /\ req[r].at = "insert"
  /\ org' = IF clash THEN org ELSE req[r].name
  /\ req' = [req EXCEPT ![r].at = IF clash THEN "again" ELSE "member",
                        ![r].expired = clash]
  /\ UNCHANGED <<taken, user, mem, cached, faults, expiries>>

FindAgain(r) ==
  /\ req[r].at = "again"
  /\ Go(r, IF org = "none" THEN "suffix" ELSE "member")
  /\ UNCHANGED Rows

InsertSuffixed(r) ==
  /\ req[r].at = "suffix"
  /\ org' = IF org = "none" THEN "suffixed" ELSE org
  /\ Go(r, IF org = "none" THEN "member" ELSE "build")
  /\ UNCHANGED <<taken, user, mem, cached, faults, expiries>>

FindMember(r) ==
  /\ req[r].at = "member"
  /\ Go(r, IF mem THEN "build" ELSE "link")
  /\ UNCHANGED Rows

InsertMember(r) ==
  /\ req[r].at = "link"
  /\ mem' = TRUE
  /\ req' = [req EXCEPT ![r].at = "build", ![r].expired = @ \/ mem]
  /\ UNCHANGED <<taken, user, org, cached, faults, expiries>>

(* The database fails a statement: the shadow user's failure is the        *)
(* request's; the organisation's is swallowed, after a rollback.           *)
DatabaseFails(r) ==
  /\ faults < MaxFaults
  /\ faults' = faults + 1
  /\ \/ req[r].at = "user" /\ Go(r, "refused")
     \/ /\ req[r].at \in {"org", "insert", "again", "suffix", "member", "link"}
        /\ req' = [req EXCEPT ![r].at = "build", ![r].expired = TRUE]
  /\ UNCHANGED <<taken, user, org, mem, cached, expiries>>

(* UserContext(user_id=user.id, ...), then the cache                       *)
BuildContext(r) ==
  /\ req[r].at = "build"
  /\ Go(r, IF req[r].expired THEN "refused" ELSE "ok")
  /\ cached' = (cached \/ ~req[r].expired)
  /\ UNCHANGED <<taken, user, org, mem, faults, expiries>>

CacheExpires ==
  /\ cached /\ expiries < MaxExpiries
  /\ cached' = FALSE /\ expiries' = expiries + 1
  /\ UNCHANGED <<taken, user, org, mem, req, faults>>

-----------------------------------------------------------------------------
Resolve(r) ==
  \/ ShadowUser(r) \/ FindOrg(r) \/ FetchIdpOrgName(r) \/ InsertOrg(r)
  \/ FindAgain(r) \/ InsertSuffixed(r) \/ FindMember(r) \/ InsertMember(r)
  \/ BuildContext(r)

Request(r) == ResolveToken(r) \/ Resolve(r)

Next ==
  \/ \E r \in Reqs : Request(r) \/ DatabaseFails(r)
  \/ CacheExpires

Spec == Init /\ [][Next]_vars

(* A request in progress goes on, and a dashboard whose request was        *)
(* refused asks again.                                                     *)
Fairness == \A r \in Reqs : WF_vars(Request(r))

FairSpec == Spec /\ Fairness

-----------------------------------------------------------------------------
(* A request that is served has the rows that audit entries, API keys and  *)
(* /organizations/me refer to: however the inserts of parallel requests    *)
(* collide, the one that goes on does so after the rows are there.         *)
ServedHasRows ==
  \A r \in Reqs : req[r].at = "ok" => user /\ org # "none" /\ mem

(* The refusals that colliding inserts cause do not last: a user who asks  *)
(* again is served, also after the cache has forgotten the token.          *)
RetryServed == []<>cached

=============================================================================
