------------------------------ MODULE Session -------------------------------
(***************************************************************************)
(* The browser side of a local sign-in (dashboard lib/api.ts, AuthContext, *)
(* authService) against the gateway's /auth/login and /auth/refresh: a     *)
(* request refused with 401 refreshes the access token silently, requests  *)
(* refused meanwhile wait for that one refresh, and signing out, leaving   *)
(* the page and loading it again cut across all of them.  The access token *)
(* lives in the page, the refresh token in the tab's session storage.      *)
(***************************************************************************)
EXTENDS Naturals

CONSTANTS Reqs,          \* requests of the dashboard's pages
          Me,            \* the request of fetchUser
          MaxExpiries,   \* bound on expiries of the access token
          MaxFaults      \* bound on lost requests, reloads, refused refreshes

VARIABLES
    page,         \* "app" a protected route, "login" /auth/login, "out" /login
    leaving,      \* a navigation under way, after "audit" of a sign-out
    loading,      \* isLoading of the AuthProvider
    boot,         \* its init effect
    user,         \* a user is set
    token,        \* the access token in memory
    stored,       \* a refresh token is in the session storage
    accepted,     \* the gateway still accepts it
    refreshing,   \* isRefreshing
    req,          \* the requests
    signedOut,    \* the user signed out and has not signed in since
    late,         \* a refresh was answered after that
    expiries, faults
vars == <<page, leaving, loading, boot, user, token, stored, accepted, refreshing, req,
          signedOut, late, expiries, faults>>

All == Reqs \cup {Me}
Tokens == {"none", "fresh", "stale"}
Idle == [at |-> "idle", token |-> "none", retry |-> FALSE]
Owners == {r \in All : req[r].at = "refresh"}
Queued == {r \in All : req[r].at = "queued"}

TypeOK ==
    /\ page \in {"app", "login", "out"} /\ leaving \in {"no", "audit", "login", "out"}
    /\ {loading, user, stored, accepted, refreshing, signedOut, late} \subseteq BOOLEAN
    /\ boot \in {"start", "refresh", "done"} /\ token \in Tokens
    /\ req \in [All -> [at : {"idle", "sent", "refresh", "queued", "dropped"},
                        token : Tokens, retry : BOOLEAN]]
    /\ expiries \in 0 .. MaxExpiries /\ faults \in 0 .. MaxFaults

Init ==
    /\ page = "login" /\ leaving = "no" /\ loading = FALSE /\ boot = "done"
    /\ user = FALSE /\ token = "none" /\ stored = FALSE /\ accepted = FALSE
    /\ refreshing = FALSE /\ req = [r \in All |-> Idle]
    /\ signedOut = FALSE /\ late = FALSE /\ expiries = 0 /\ faults = 0

Bounds == <<expiries, faults>>
Fault == faults < MaxFaults /\ faults' = faults + 1 /\ UNCHANGED expiries

(* What the page shows once it knows whether there is a user (RequireAuth). *)
RequireAuth(signedIn) == IF page = "app" /\ ~signedIn THEN "login" ELSE page

(* A mutant of ClearToken: only what is in memory.                         *)
ClearTokenMemory == token' = "none" /\ stored' = stored

ClearToken == token' = "none" /\ stored' = FALSE

SetTokens == token' = "fresh" /\ stored' = TRUE /\ late' = (late \/ signedOut)

-----------------------------------------------------------------------------
(* Requests *)

(* The request interceptor attaches the token of the moment. *)
Send(r) ==
    /\ r \in Reqs /\ req[r].at = "idle" /\ page = "app" /\ user
    /\ req' = [req EXCEPT ![r] = [Idle EXCEPT !.at = "sent", !.token = token]]
    /\ UNCHANGED <<page, leaving, loading, boot, user, token, stored, accepted, refreshing,
                   signedOut, late, Bounds>>

(* fetchUser sets the user; a sign-in then goes to the dashboard. *)
Succeeds(r) ==
    /\ req[r].at = "sent" /\ req[r].token = "fresh"
    /\ req' = [req EXCEPT ![r] = Idle]
    /\ IF r = Me THEN /\ user' = TRUE /\ loading' = FALSE
                      /\ page' = IF page = "login" THEN "app" ELSE page
                 ELSE UNCHANGED <<user, loading, page>>
    /\ UNCHANGED <<leaving, boot, token, stored, accepted, refreshing, signedOut, late, Bounds>>

(* A rejected request; fetchUser signs the page out. *)
Logout == user' = FALSE /\ loading' = FALSE /\ page' = RequireAuth(FALSE)
Rejected(r) == IF r = Me THEN Logout ELSE UNCHANGED <<user, loading, page>>
LogoutClears(r) == IF r = Me THEN ClearToken ELSE UNCHANGED <<token, stored>>

(* Without an answer, or one other than 401, nothing is retried. *)
RequestFails(r) ==
    /\ req[r].at = "sent" /\ Fault
    /\ req' = [req EXCEPT ![r] = Idle] /\ Rejected(r)
    /\ LogoutClears(r)
    /\ UNCHANGED <<leaving, boot, accepted, refreshing, signedOut, late>>

Unauthorized(r) == req[r].at = "sent" /\ req[r].token # "fresh"
Retryable(r) == ~req[r].retry /\ page # "login"

(* A second 401, or one on the login page, is the caller's. *)
UnauthorizedAgain(r) ==
    /\ Unauthorized(r) /\ ~Retryable(r)
    /\ req' = [req EXCEPT ![r] = Idle] /\ Rejected(r)
    /\ LogoutClears(r)
    /\ UNCHANGED <<leaving, boot, accepted, refreshing, signedOut, late, Bounds>>

(* A mutant of ForceLogout: the page is kept.                              *)
ForceLogoutStays == ClearToken /\ UNCHANGED leaving

ForceLogout == ClearToken /\ leaving' = IF page = "login" THEN leaving ELSE "login"

NothingStored(r) ==
    /\ Unauthorized(r) /\ Retryable(r) /\ ~stored
    /\ ForceLogout /\ req' = [req EXCEPT ![r] = Idle] /\ Rejected(r)
    /\ UNCHANGED <<boot, accepted, refreshing, signedOut, late, Bounds>>


(* The first refused request refreshes for all, ... *)
Refresh(r) ==
    /\ Unauthorized(r) /\ Retryable(r) /\ stored
    /\ ~refreshing /\ refreshing' = TRUE
    /\ req' = [req EXCEPT ![r].at = "refresh", ![r].retry = TRUE]
    /\ UNCHANGED <<page, leaving, loading, boot, user, token, stored, accepted,
                   signedOut, late, Bounds>>

(* ... the others wait for it. *)
AddRefreshSubscriber(r) ==
    /\ Unauthorized(r) /\ Retryable(r) /\ stored /\ refreshing
    /\ req' = [req EXCEPT ![r].at = "queued", ![r].retry = TRUE]
    /\ UNCHANGED <<page, leaving, loading, boot, user, token, stored, accepted, refreshing,
                   signedOut, late, Bounds>>

(* A mutant of OnTokenRefreshed: nobody is told.                           *)
OnTokenRefreshedAlone(r) ==
    req' = [q \in All |-> IF q = r THEN [req[q] EXCEPT !.at = "sent", !.token = "fresh"]
                          ELSE req[q]]

OnTokenRefreshed(r) ==
    req' = [q \in All |-> IF q \in Queued \cup {r}
                          THEN [req[q] EXCEPT !.at = "sent", !.token = "fresh"] ELSE req[q]]

(* The gateway refreshes what it accepts, locally or at the provider. *)
GatewayRefreshes == accepted

RefreshSucceeds(r) ==
    /\ req[r].at = "refresh" /\ GatewayRefreshes
    /\ SetTokens /\ refreshing' = FALSE /\ OnTokenRefreshed(r)
    /\ UNCHANGED <<page, leaving, loading, boot, user, accepted, signedOut, Bounds>>

(* The waiting requests are forgotten: their promises never settle. *)
RefreshFails(r) ==
    /\ req[r].at = "refresh"
    /\ (~GatewayRefreshes /\ UNCHANGED Bounds) \/ Fault
    /\ ForceLogout /\ refreshing' = FALSE /\ Rejected(r)
    /\ req' = [q \in All |-> IF q = r THEN Idle
                             ELSE IF q \in Queued THEN [req[q] EXCEPT !.at = "dropped"]
                             ELSE req[q]]
    /\ UNCHANGED <<boot, accepted, signedOut, late>>

-----------------------------------------------------------------------------
(* Signing in and out, and loading the page *)

FetchUser == req' = [req EXCEPT ![Me] = [Idle EXCEPT !.at = "sent", !.token = "fresh"]]

(* A sign-in the gateway grants; one it refuses changes nothing here. *)
SignIn ==
    /\ page = "login" /\ leaving = "no" /\ ~loading /\ ~user /\ req[Me].at = "idle"
    /\ token' = "fresh" /\ stored' = TRUE /\ accepted' = TRUE
    /\ signedOut' = FALSE /\ late' = FALSE /\ FetchUser
    /\ UNCHANGED <<page, leaving, loading, boot, user, refreshing, Bounds>>

(* The tokens are cleared first; the page is left when the audit POST has  *)
(* an answer or has failed.                                                *)
SignOut ==
    /\ page = "app" /\ user /\ leaving = "no"
    /\ ClearToken /\ Logout /\ leaving' = "audit" /\ signedOut' = TRUE /\ late' = FALSE
    /\ UNCHANGED <<boot, accepted, refreshing, req, Bounds>>

SignOutLeaves ==
    /\ leaving = "audit" /\ leaving' = "out"
    /\ UNCHANGED <<page, loading, boot, user, token, stored, accepted, refreshing, req,
                   signedOut, late, Bounds>>

(* A new page has an empty memory and the storage of the tab. *)
Load(path) ==
    /\ page' = path /\ leaving' = "no" /\ loading' = TRUE /\ boot' = "start"
    /\ user' = FALSE /\ token' = "none" /\ refreshing' = FALSE
    /\ req' = [r \in All |-> Idle]
    /\ UNCHANGED <<stored, accepted, signedOut, late>>

Unload == leaving \in {"login", "out"} /\ Load(leaving) /\ UNCHANGED Bounds
Reload == leaving = "no" /\ Load(page) /\ Fault

(* A mutant of NoSession: the loading screen stays.                        *)
NoSessionLoading == loading' = loading /\ boot' = "done" /\ page' = RequireAuth(FALSE)

NoSession == loading' = FALSE /\ boot' = "done" /\ page' = RequireAuth(FALSE)

AuthProviderInit ==
    /\ boot = "start"
    /\ IF stored THEN boot' = "refresh" /\ UNCHANGED <<loading, page>> ELSE NoSession
    /\ UNCHANGED <<leaving, user, token, stored, accepted, refreshing, req, signedOut, late,
                   Bounds>>

InitRefreshSucceeds ==
    /\ boot = "refresh" /\ GatewayRefreshes
    /\ boot' = "done" /\ SetTokens /\ FetchUser
    /\ UNCHANGED <<page, leaving, loading, user, accepted, refreshing, signedOut, Bounds>>

InitRefreshFails ==
    /\ boot = "refresh"
    /\ (~GatewayRefreshes /\ UNCHANGED Bounds) \/ Fault
    /\ ClearToken /\ NoSession
    /\ UNCHANGED <<leaving, user, accepted, refreshing, req, signedOut, late>>

(* From the page behind /login the user goes on to the application. *)
Visit ==
    /\ page = "out" /\ ~loading
    /\ page' = IF user THEN "app" ELSE "login"
    /\ UNCHANGED <<leaving, loading, boot, user, token, stored, accepted, refreshing, req,
                   signedOut, late, Bounds>>

-----------------------------------------------------------------------------
(* The gateway *)

TokenExpires ==
    /\ expiries < MaxExpiries /\ expiries' = expiries + 1 /\ UNCHANGED faults
    /\ token = "fresh" /\ token' = "stale"
    /\ req' = [r \in All |-> IF req[r].token = "fresh" THEN [req[r] EXCEPT !.token = "stale"]
                             ELSE req[r]]
    /\ UNCHANGED <<page, leaving, loading, boot, user, stored, accepted, refreshing, signedOut,
                   late>>

(* Seven days, or the last membership, are over. *)
RefreshAccessTokenRefuses ==
    /\ accepted /\ accepted' = FALSE /\ Fault
    /\ UNCHANGED <<page, leaving, loading, boot, user, token, stored, refreshing, req,
                   signedOut, late>>

Answer(r) == \/ Succeeds(r) \/ UnauthorizedAgain(r) \/ NothingStored(r) \/ Refresh(r)
             \/ AddRefreshSubscriber(r)
RefreshAnswer(r) == RefreshSucceeds(r) \/ RefreshFails(r)
PageSteps == \/ SignOutLeaves \/ Unload \/ AuthProviderInit \/ InitRefreshSucceeds
             \/ InitRefreshFails

Answered(r) == Answer(r) \/ RefreshAnswer(r)

Next == \/ \E r \in All : Send(r) \/ RequestFails(r) \/ Answered(r)
        \/ PageSteps \/ SignIn \/ SignOut \/ Reload \/ Visit
        \/ TokenExpires \/ RefreshAccessTokenRefuses

Spec == Init /\ [][Next]_vars

(* Every HTTP request is answered or fails, and the browser follows a      *)
(* navigation; the user and the clock need not act.                        *)
Fairness == (\A r \in All : WF_vars(Answered(r))) /\ WF_vars(PageSteps)

FairSpec == Spec /\ Fairness

-----------------------------------------------------------------------------
(* The flag and the refreshes agree: one request refreshes while it is     *)
(* set, none otherwise (lib/api.ts).                                       *)
OneRefresh == IF refreshing THEN \E r \in All : Owners = {r} ELSE Owners = {}

(* A request whose promise was forgotten belongs to a page that is being   *)
(* left or to the login page: no protected page waits for it.              *)
HangHasCause ==
    (\E r \in All : req[r].at = "dropped") => leaving # "no" \/ page = "login"

(* After a sign-out there is a token or a user again only through a        *)
(* refresh that was under way when the tokens were cleared.                *)
SessionAfterSignOutHasCause ==
    signedOut /\ (token # "none" \/ stored \/ user) => late

(* A request that waits for a refresh stops waiting, and one that was sent *)
(* settles, is forgotten with its page, or is one HangHasCause speaks of.  *)
RequestEnds ==
    \A r \in All : (req[r].at \in {"sent", "queued", "refresh"})
                       ~> (req[r].at \in {"idle", "dropped"})

(* The loading screen gives way to the application or the login page.      *)
LoadingEnds == loading ~> ~loading
=============================================================================
