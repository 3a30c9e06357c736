---------------------------- MODULE TokenContext ----------------------------
(***************************************************************************)
(* The permissions a request runs with (api_gateway/rbac/middleware.py,    *)
(* auth.py): a token is resolved by reading the membership, then the role  *)
(* it names, and the result is kept for 30 seconds in _auth_cache, which   *)
(* nothing invalidates.  Meanwhile an administrator changes the caller's   *)
(* role and what roles grant (users_router.py, roles_router.py).           *)
(*                                                                         *)
(* One token, of one user in one organisation, and one gateway process.    *)
(***************************************************************************)
EXTENDS Naturals

CONSTANTS
  Reqs,         \* requests carrying the token at a time
  Custom,       \* names of roles that are neither "admin" nor "member"
  MaxChanges    \* bound: changes an administrator makes

VARIABLES
  roleOf,       \* the caller's row of user_organizations
  perms,        \* roles: "manage" stands for the permission at stake
  cache,        \* the token's entry of _auth_cache
  req,          \* requests: where they are, what they have read
  changes

vars == <<roleOf, perms, cache, req, changes>>

Roles == {"admin", "member"} \cup Custom

Grant == {"plain", "manage"}

(* A role without a row grants nothing.                                    *)
Granted(r) == IF perms[r] = "absent" THEN "plain" ELSE perms[r]

Live == Granted(roleOf)

(* held: what the caller was entitled to at some time of the request;      *)
(* torn: the membership changed after the request had read it.             *)
NoRequest == [at |-> "idle", role |-> "none", saw |-> "plain", held |-> {}, torn |-> FALSE]

TypeOK ==
  /\ roleOf \in Roles
  /\ perms \in [Roles -> Grant \cup {"absent"}]
  /\ cache \in Grant \cup {"none"}
  /\ req \in [Reqs -> [at : {"idle", "perms", "store"}, role : Roles \cup {"none"},
                       saw : Grant, held : SUBSET Grant, torn : BOOLEAN]]
  /\ changes \in 0 .. MaxChanges

Init ==
  /\ roleOf \in {"admin", "member"}
  /\ perms = [r \in Roles |-> CASE r = "admin" -> "manage" [] r = "member" -> "plain"
                                [] OTHER -> "absent"]
  /\ cache = "none"
  /\ req = [r \in Reqs |-> NoRequest]
  /\ changes = 0

-----------------------------------------------------------------------------
(* auth_middleware on a request that carries the caller's bearer token to  *)
(* a path that is not public: a hit is served without the database and     *)
(* does not renew the entry; only a miss resolves the token.  (Sockets,    *)
(* workers, artifact streams and public paths go on without a context; a   *)
(* request without a well-formed header is answered 401.)                  *)
AuthMiddleware(r) == req[r].at = "idle" /\ cache = "none"

(* get_current_user reads the membership.                                  *)
GetCurrentUser(r) ==
  /\ AuthMiddleware(r)
  /\ req' = [req EXCEPT ![r] = [NoRequest EXCEPT !.at = "perms", !.role = roleOf,
                                             !.held = {Live}]]
  /\ UNCHANGED <<roleOf, perms, cache, changes>>

(* A mutant: the role claim of the token is trusted instead.               *)
ResolveTokenClaim(r) ==
  /\ req[r].at = "perms"
  /\ req' = [req EXCEPT ![r].at = "store", ![r].saw = "manage"]
  /\ UNCHANGED <<roleOf, perms, cache, changes>>

(* _resolve_local_token: the permissions of the role just read.            *)
ResolveLocalToken(r) ==
  /\ req[r].at = "perms"
  /\ req' = [req EXCEPT ![r].at = "store", ![r].saw = Granted(req[r].role)]
  /\ UNCHANGED <<roleOf, perms, cache, changes>>

StoreContext(r) ==
  /\ req[r].at = "store"
  /\ cache' = req[r].saw
  /\ req' = [req EXCEPT ![r] = NoRequest]
  /\ UNCHANGED <<roleOf, perms, changes>>

(* A mutant: an entry in use lives on.                                     *)
TtlSliding ==
  /\ cache # "none" /\ \A r \in Reqs : req[r].at # "idle"
  /\ cache' = "none"
  /\ UNCHANGED <<roleOf, perms, req, changes>>

(* TTLCache drops the entry 30 seconds after it was stored.                *)
TtlExpires ==
  /\ cache # "none"
  /\ cache' = "none"
  /\ UNCHANGED <<roleOf, perms, req, changes>>

-----------------------------------------------------------------------------
(* The administrator's handlers.  Each tells the requests in flight, for   *)
(* the record only, what the caller is entitled to now.                    *)
Change(role, granted) ==
  LET now == IF granted[role] = "absent" THEN "plain" ELSE granted[role] IN
  /\ changes < MaxChanges
  /\ changes' = changes + 1
  /\ roleOf' = role /\ perms' = granted
  /\ req' = [r \in Reqs |->
               IF req[r].at = "idle" THEN req[r]
               ELSE [req[r] EXCEPT !.held = @ \cup {now},
                       !.torn = @ \/ (role # roleOf /\ req[r].at = "perms")]]
  /\ UNCHANGED cache

UpdateUserRole ==
  \E r \in Roles : perms[r] # "absent" /\ r # roleOf /\ Change(r, perms)

CreateRole ==
  \E r \in Roles, p \in Grant :
    perms[r] = "absent" /\ Change(roleOf, [perms EXCEPT ![r] = p])

UpdateRole ==
  \E r \in Roles, p \in Grant :
    perms[r] \notin {"absent", p} /\ Change(roleOf, [perms EXCEPT ![r] = p])

DeleteRole ==
  \E r \in Custom :
    perms[r] # "absent" /\ Change(roleOf, [perms EXCEPT ![r] = "absent"])

-----------------------------------------------------------------------------
Request(r) == GetCurrentUser(r) \/ ResolveLocalToken(r) \/ StoreContext(r)

Next ==
  \/ \E r \in Reqs : Request(r)
  \/ TtlExpires
  \/ UpdateUserRole \/ CreateRole \/ UpdateRole \/ DeleteRole

Spec == Init /\ [][Next]_vars

(* A request that has begun to resolve its token goes on; time passes.     *)
Fairness ==
  /\ \A r \in Reqs : WF_vars(ResolveLocalToken(r) \/ StoreContext(r))
  /\ WF_vars(TtlExpires)

FairSpec == Spec /\ Fairness

-----------------------------------------------------------------------------
(* What a request is about to cache is what the caller was entitled to at  *)
(* some moment of the request.  The two reads are not one: a role read,    *)
(* then left by the caller, then widened, grants what the caller never     *)
(* had; the membership has then changed between the two reads.             *)
ContextWasTrue ==
  \A r \in Reqs : req[r].at = "store" => req[r].saw \in req[r].held \/ req[r].torn

(* A change of role or of permissions takes effect: once it stands, the    *)
(* cache ends up without any other context, whatever requests were being   *)
(* resolved when it was made.                                              *)
ChangeTakesEffect ==
  \A p \in Grant : <>[](Live = p) => <>[](cache \in {"none", p})

=============================================================================
