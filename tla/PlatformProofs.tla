--------------------------- MODULE PlatformProofs ---------------------------
(***************************************************************************)
(* Migrations, sign-in with an external provider, the command line and the *)
(* dashboard's session, for any number of containers, requests and flows:  *)
(* each with the inductive invariant it needs, and the property the runs   *)
(* check of it.                                                            *)
(***************************************************************************)
EXTENDS Naturals, Sequences, WellFoundedInduction, TLAPS

CONSTANTS
  Runners, Last, Split, MaxStatements,      \* Migrations
  Reqs,                                     \* ExternalIdentity, Session
  MaxRunOuts, MaxDbFaults,                  \* ExternalIdentity
  Flows, MaxLost, MaxDown,                  \* OauthFlow
  Me, MaxExpiries, MaxFaults                \* Session

-----------------------------------------------------------------------------
\* The dashboard's session (Session)
VARIABLES
  page, leaving, loading, webBoot, webUser, token, stored, accepted,
  refreshing, webReq, signedOut, late, webExpiries, webFaults
Web == INSTANCE Session WITH
  boot <- webBoot, user <- webUser, req <- webReq, expiries <- webExpiries,
  faults <- webFaults

SessionConstants == Me \notin Reqs /\ MaxExpiries \in Nat /\ MaxFaults \in Nat

WebRequest == [at : {"idle", "sent", "refresh", "queued", "dropped"},
            token : Web!Tokens, retry : BOOLEAN]

(* Of the requests: one refreshes while the flag is set, and none is       *)
(* forgotten on a page that stays.                                         *)
Requesting ==
  /\ webReq \in [Web!All -> WebRequest]
  /\ refreshing => \E r \in Web!All : Web!Owners = {r}
  /\ ~refreshing => Web!Owners = {}
  /\ leaving = "no" => \A r \in Web!All : webReq[r].at # "dropped"
  /\ webBoot # "done" => \A r \in Web!All : webReq[r].at = "idle"
  /\ leaving = "no" /\ ~webUser => \A r \in Reqs : webReq[r].at = "idle"

(* Of the user: none while the page starts or fetches the user, nor on a   *)
(* login page that stays; and none after a sign-out but by a late refresh. *)
Known ==
  /\ webBoot # "done" => loading /\ ~webUser
  /\ webReq[Me].at # "idle" => ~webUser /\ (signedOut => late)
  /\ page = "login" /\ leaving = "no" => ~webUser
  /\ Web!SessionAfterSignOutHasCause

Browsing == Web!TypeOK /\ Requesting /\ Known

(* The step of one request that neither refreshes nor did.                 *)
LEMMA OneMoves ==
  ASSUME Browsing, NEW r \in Web!All, NEW k \in WebRequest, webReq' = [webReq EXCEPT ![r] = k],
         webReq[r].at # "refresh", k.at # "refresh"
  PROVE  /\ webReq' \in [Web!All -> WebRequest] /\ Web!Owners' = Web!Owners
         /\ \A q \in Web!All : webReq'[q] = IF q = r THEN k ELSE webReq[q]
<1>1. /\ webReq' \in [Web!All -> WebRequest]
      /\ \A q \in Web!All : webReq'[q] = IF q = r THEN k ELSE webReq[q]
  BY DEF Browsing, Requesting
<1> QED
  BY <1>1 DEF Web!Owners

(* A request at rest is one.                                               *)
LEMMA IdleIsRequest == Web!Idle \in WebRequest /\ Web!Idle.at = "idle"
  BY DEF Web!Idle, WebRequest, Web!Tokens

(* So is one that is sent.                                                 *)
LEMMA SentIsRequest ==
  ASSUME NEW t \in Web!Tokens
  PROVE  /\ [Web!Idle EXCEPT !.at = "sent", !.token = t] \in WebRequest
         /\ [Web!Idle EXCEPT !.at = "sent", !.token = t].at = "sent"
  BY DEF Web!Idle, WebRequest, Web!Tokens

(* A request comes to rest.                                                *)
LEMMA RestKeeps ==
  ASSUME SessionConstants, Browsing, NEW r \in Web!All, webReq[r].at = "sent",
         webReq' = [webReq EXCEPT ![r] = Web!Idle], UNCHANGED <<refreshing, webBoot>>,
         leaving' = "no" => leaving = "no", r # Me => webUser' = webUser
  PROVE  Requesting' /\ webBoot = "done" /\ (r = Me => ~webUser /\ (signedOut => late))
<1>1. /\ webReq' \in [Web!All -> WebRequest] /\ Web!Owners' = Web!Owners
      /\ \A q \in Web!All : webReq'[q] = IF q = r THEN Web!Idle ELSE webReq[q]
  BY OneMoves, IdleIsRequest
<1>2. webBoot = "done" /\ (r = Me => ~webUser /\ (signedOut => late))
  BY DEF Browsing, Requesting, Known
<1>3. leaving' = "no" /\ ~webUser' => \A q \in Reqs : webReq'[q].at = "idle"
  BY <1>1, <1>2, IdleIsRequest DEF Browsing, Requesting, Web!All
<1>4. leaving' = "no" => \A q \in Web!All : webReq'[q].at # "dropped"
  BY <1>1, IdleIsRequest DEF Browsing, Requesting
<1> QED
  BY <1>1, <1>2, <1>3, <1>4 DEF Browsing, Requesting

(* ... with an answer the caller takes as a refusal.                       *)
LEMMA RefusalKeeps ==
  ASSUME SessionConstants, Browsing, NEW r \in Web!All, webReq[r].at = "sent",
         webReq' = [webReq EXCEPT ![r] = Web!Idle], Web!Rejected(r),
         UNCHANGED <<webBoot, accepted, refreshing, signedOut, late>>,
         \/ Web!LogoutClears(r) /\ UNCHANGED leaving
         \/ Web!ForceLogout,
         UNCHANGED Web!Bounds \/ Web!Fault
  PROVE  Browsing'
<1>0. Web!TypeOK
  BY DEF Browsing
<1>1. /\ leaving' = "no" => leaving = "no"
      /\ leaving' \in {"no", "audit", "login", "out"}
      /\ token' \in {"none", token} /\ token' \in Web!Tokens
  BY <1>0 DEF Web!TypeOK, Web!LogoutClears, Web!ForceLogout, Web!ClearToken, Web!Tokens
<1>4. stored' \in BOOLEAN /\ (stored' => stored)
  <2>1. CASE stored' = FALSE
    BY <2>1, Zenon
  <2>2. CASE stored' = stored
    BY <1>0, <2>2, Zenon DEF Web!TypeOK
  <2> QED
    BY <2>1, <2>2 DEF Web!LogoutClears, Web!ForceLogout, Web!ClearToken
<1>5. webExpiries' \in 0 .. MaxExpiries /\ webFaults' \in 0 .. MaxFaults
  BY <1>0 DEF Web!TypeOK, Web!Bounds, Web!Fault, SessionConstants
<1>2. CASE r = Me
  <2>1. page' \in {"login", page}
    BY <1>2 DEF Web!Rejected, Web!Logout, Web!RequireAuth
  <2>6. webUser' \in BOOLEAN /\ ~webUser' /\ loading' \in BOOLEAN
    BY <1>2, Zenon DEF Web!Rejected, Web!Logout
  <2>2. Requesting' /\ webBoot = "done"
    BY <1>1, <1>2, RestKeeps
  <2>3. webReq'[Me].at = "idle"
    BY <1>0, <1>2, IdleIsRequest DEF Web!TypeOK
  <2>4. Known'
    BY <1>1, <1>4, <2>1, <2>2, <2>3, <2>6 DEF Known, Browsing,
         Web!SessionAfterSignOutHasCause
  <2>5. Web!TypeOK'
    BY <1>0, <1>1, <1>4, <1>5, <2>1, <2>2, <2>6 DEF Web!TypeOK, Requesting, WebRequest
  <2> QED
    BY <2>2, <2>4, <2>5 DEF Browsing
<1>3. CASE r # Me
  <2>1. UNCHANGED <<webUser, loading, page>>
    BY <1>3 DEF Web!Rejected
  <2>2. Requesting' /\ webBoot = "done"
    BY <1>1, <1>3, <2>1, RestKeeps
  <2>3. webReq'[Me] = webReq[Me]
    BY <1>0, <1>3 DEF Web!TypeOK, Web!All
  <2>4. Known'
    BY <1>1, <1>4, <2>1, <2>2, <2>3 DEF Known, Browsing, Web!SessionAfterSignOutHasCause
  <2>5. Web!TypeOK'
    BY <1>0, <1>1, <1>4, <1>5, <2>1, <2>2 DEF Web!TypeOK, Requesting, WebRequest
  <2> QED
    BY <2>2, <2>4, <2>5 DEF Browsing
<1> QED
  BY <1>2, <1>3

(* A request that succeeds comes to rest; the one of fetchUser sets the    *)
(* user.                                                                   *)
LEMMA SucceedsKeeps ==
  ASSUME SessionConstants, Browsing, NEW r \in Web!All, Web!Succeeds(r) PROVE Browsing'
<1>0. Web!TypeOK
  BY DEF Browsing
<1>1. /\ webReq[r].at = "sent" /\ webReq' = [webReq EXCEPT ![r] = Web!Idle]
      /\ UNCHANGED <<leaving, webBoot, token, stored, accepted, refreshing, signedOut, late, Web!Bounds>>
  BY DEF Web!Succeeds
<1>2. CASE r = Me
  <2>1. /\ webUser' = TRUE /\ loading' = FALSE
        /\ page' = IF page = "login" THEN "app" ELSE page
    BY <1>2 DEF Web!Succeeds
  <2>2. Requesting' /\ webBoot = "done" /\ (signedOut => late)
    BY <1>1, <1>2, RestKeeps
  <2>3. webReq'[Me].at = "idle"
    BY <1>0, <1>1, <1>2, IdleIsRequest DEF Web!TypeOK
  <2>4. Known'
    BY <1>1, <2>1, <2>2, <2>3 DEF Known, Web!SessionAfterSignOutHasCause
  <2>5. Web!TypeOK'
    BY <1>0, <1>1, <2>1, <2>2 DEF Web!TypeOK, Requesting, WebRequest, Web!Bounds
  <2> QED
    BY <2>2, <2>4, <2>5 DEF Browsing
<1>3. CASE r # Me
  <2>1. UNCHANGED <<webUser, loading, page>>
    BY <1>3 DEF Web!Succeeds
  <2>2. Requesting'
    BY <1>1, <1>3, <2>1, RestKeeps
  <2>3. webReq'[Me] = webReq[Me]
    BY <1>0, <1>1, <1>3 DEF Web!TypeOK, Web!All
  <2>4. Known'
    BY <1>1, <2>1, <2>3 DEF Known, Browsing, Web!SessionAfterSignOutHasCause
  <2>5. Web!TypeOK'
    BY <1>0, <1>1, <2>1, <2>2 DEF Web!TypeOK, Requesting, WebRequest, Web!Bounds
  <2> QED
    BY <2>2, <2>4, <2>5 DEF Browsing
<1> QED
  BY <1>2, <1>3

(* Requests that set out, and that wait or refresh after a refusal.        *)
LEMMA SendKeeps ==
  ASSUME SessionConstants, Browsing, NEW r \in Reqs, Web!Send(r) PROVE Browsing'
<1> DEFINE k == [Web!Idle EXCEPT !.at = "sent", !.token = token]
<1>0. Web!TypeOK /\ r \in Web!All /\ r # Me /\ Me \in Web!All
  BY DEF Browsing, Web!All, SessionConstants
<1>1. k \in WebRequest /\ k.at = "sent"
  BY <1>0, SentIsRequest, Zenon DEF Web!TypeOK
<1>2. /\ webReq[r].at = "idle" /\ page = "app" /\ webUser /\ webReq' = [webReq EXCEPT ![r] = k]
      /\ UNCHANGED <<page, leaving, loading, webBoot, webUser, token, stored, accepted, refreshing,
                     signedOut, late, Web!Bounds>>
  BY DEF Web!Send
<1> HIDE DEF k
<1>3. /\ webReq' \in [Web!All -> WebRequest] /\ Web!Owners' = Web!Owners
      /\ \A q \in Web!All : webReq'[q] = IF q = r THEN k ELSE webReq[q]
  BY <1>0, <1>1, <1>2, OneMoves
<1>4. Requesting'
  BY <1>1, <1>2, <1>3 DEF Browsing, Requesting, Known
<1>5. Known'
  BY <1>0, <1>2, <1>3 DEF Browsing, Known, Web!SessionAfterSignOutHasCause
<1>6. Web!TypeOK'
  BY <1>0, <1>2, <1>3 DEF Web!TypeOK, WebRequest, Web!Bounds
<1> QED
  BY <1>4, <1>5, <1>6 DEF Browsing

(* A refused request refreshes when nobody does, or waits for who does.    *)
LEMMA RetryKeeps ==
  ASSUME SessionConstants, Browsing, NEW r \in Web!All, Web!Refresh(r) \/ Web!AddRefreshSubscriber(r)
  PROVE  Browsing'
<1>0. Web!TypeOK /\ Me \in Web!All
  BY DEF Browsing, Web!All
<1>1. PICK at \in {"refresh", "queued"} :
        /\ webReq[r].at = "sent" /\ webReq' = [webReq EXCEPT ![r].at = at, ![r].retry = TRUE]
        /\ at = "queued" => refreshing /\ refreshing' = refreshing
        /\ at = "refresh" => ~refreshing /\ refreshing' = TRUE
        /\ UNCHANGED <<page, leaving, loading, webBoot, webUser, token, stored, accepted,
                       signedOut, late, Web!Bounds>>
  BY DEF Web!Refresh, Web!AddRefreshSubscriber, Web!Unauthorized
<1>2. webReq[r] \in WebRequest
  BY <1>0 DEF Web!TypeOK, WebRequest
<1>3. webReq' \in [Web!All -> WebRequest]
  BY <1>0, <1>1, <1>2 DEF Web!TypeOK, WebRequest
<1>4. \A q \in Web!All : webReq'[q].at = IF q = r THEN at ELSE webReq[q].at
  BY <1>0, <1>1, <1>2 DEF Web!TypeOK, WebRequest
<1>5. webBoot = "done" /\ refreshing' = TRUE
  BY <1>0, <1>1 DEF Browsing, Requesting, Web!TypeOK
<1>6. \E q \in Web!All : Web!Owners' = {q}
  <2>1. CASE at = "queued"
    <3>1. Web!Owners' = Web!Owners
      BY <1>1, <1>4, <2>1 DEF Web!Owners
    <3> QED
      BY <1>1, <2>1, <3>1 DEF Browsing, Requesting
  <2>2. CASE at = "refresh"
    <3>1. \A q \in Web!All : webReq[q].at # "refresh"
      BY <1>1, <2>2 DEF Browsing, Requesting, Web!Owners
    <3>2. Web!Owners' = {r}
      BY <1>4, <2>2, <3>1 DEF Web!Owners
    <3> QED
      BY <3>2
  <2> QED
    BY <2>1, <2>2
<1>7. Requesting'
  <2>1. leaving' = "no" /\ ~webUser' => \A q \in Reqs : webReq'[q].at = "idle"
    BY <1>0, <1>1, <1>4 DEF Browsing, Requesting, Known, Web!All
  <2>2. leaving' = "no" => \A q \in Web!All : webReq'[q].at # "dropped"
    BY <1>1, <1>4 DEF Browsing, Requesting
  <2> QED
    BY <1>1, <1>3, <1>5, <1>6, <2>1, <2>2 DEF Requesting
<1>8. Known'
  BY <1>0, <1>1, <1>4 DEF Browsing, Known, Web!SessionAfterSignOutHasCause
<1>9. Web!TypeOK'
  <2>1. refreshing' \in BOOLEAN
    BY <1>5, Zenon
  <2> QED
    BY <1>0, <1>1, <1>3, <2>1 DEF Web!TypeOK, WebRequest, Web!Bounds
<1> QED
  BY <1>7, <1>8, <1>9 DEF Browsing

(* The answer to the one refresh.                                          *)
LEMMA RefreshSucceedsKeeps ==
  ASSUME SessionConstants, Browsing, NEW r \in Web!All, Web!RefreshSucceeds(r) PROVE Browsing'
<1>0. Web!TypeOK /\ Me \in Web!All
  BY DEF Browsing, Web!All
<1>1. /\ webReq[r].at = "refresh" /\ webBoot = "done"
      /\ UNCHANGED <<page, leaving, loading, webBoot, webUser, accepted, signedOut, Web!Bounds>>
  BY DEF Web!RefreshSucceeds, Browsing, Requesting
<1>2. /\ late' \in BOOLEAN /\ (signedOut => late') /\ refreshing' = FALSE
      /\ refreshing' \in BOOLEAN /\ stored' \in BOOLEAN
  <2>1. late' \in BOOLEAN /\ (signedOut => late')
    BY Zenon DEF Web!RefreshSucceeds, Web!SetTokens
  <2>2. refreshing' = FALSE /\ stored' = TRUE
    BY DEF Web!RefreshSucceeds, Web!SetTokens
  <2> QED
    BY <2>1, <2>2, Zenon
<1>3. token' \in Web!Tokens
  BY DEF Web!RefreshSucceeds, Web!SetTokens, Web!Tokens
<1>4. \A q \in Web!All : \/ webReq'[q] = webReq[q] /\ q # r /\ webReq[q].at # "queued"
                         \/ /\ webReq'[q] \in WebRequest /\ webReq'[q].at = "sent"
                            /\ webReq[q].at \in {"refresh", "queued"}
  <2>1. \A q \in Web!All : webReq[q] \in WebRequest
    BY <1>0 DEF Web!TypeOK, WebRequest
  <2>2. \A q \in Web!All : /\ [webReq[q] EXCEPT !.at = "sent", !.token = "fresh"] \in WebRequest
                           /\ [webReq[q] EXCEPT !.at = "sent", !.token = "fresh"].at = "sent"
    BY <2>1 DEF WebRequest, Web!Tokens
  <2>3. \A q \in Web!All : webReq'[q] = IF q \in Web!Queued \cup {r}
                                 THEN [webReq[q] EXCEPT !.at = "sent", !.token = "fresh"] ELSE webReq[q]
    BY Zenon DEF Web!RefreshSucceeds, Web!OnTokenRefreshed
  <2> QED
    BY <1>1, <2>2, <2>3, Zenon DEF Web!Queued
<1>5. webReq' \in [Web!All -> WebRequest]
  <2>1. webReq' = [q \in Web!All |-> webReq'[q]]
    BY Zenon DEF Web!RefreshSucceeds, Web!OnTokenRefreshed
  <2> QED
    BY <1>0, <1>4, <2>1 DEF Web!TypeOK, WebRequest
<1>6. Web!Owners' = {}
  <2>1. \A q \in Web!All : webReq[q].at = "refresh" => q = r
    BY <1>1 DEF Browsing, Requesting, Web!Owners
  <2> QED
    BY <1>4, <2>1 DEF Web!Owners
<1>7. Requesting'
  <2>1. leaving' = "no" /\ ~webUser' => \A q \in Reqs : webReq'[q].at = "idle"
    BY <1>1, <1>4 DEF Browsing, Requesting, Web!All
  <2>2. leaving' = "no" => \A q \in Web!All : webReq'[q].at # "dropped"
    BY <1>1, <1>4 DEF Browsing, Requesting
  <2> QED
    BY <1>1, <1>2, <1>5, <1>6, <2>1, <2>2 DEF Requesting
<1>8. Known'
  BY <1>0, <1>1, <1>2, <1>4 DEF Browsing, Known, Web!SessionAfterSignOutHasCause
<1>9. Web!TypeOK'
  BY <1>0, <1>1, <1>2, <1>3, <1>5 DEF Web!TypeOK, WebRequest, Web!Bounds
<1> QED
  BY <1>7, <1>8, <1>9 DEF Browsing

(* A refresh that fails forgets the waiting requests only with their page. *)
LEMMA RefreshFailsKeeps ==
  ASSUME SessionConstants, Browsing, NEW r \in Web!All, Web!RefreshFails(r) PROVE Browsing'
<1>0. Web!TypeOK /\ Me \in Web!All
  BY DEF Browsing, Web!All
<1>1. /\ webReq[r].at = "refresh" /\ webBoot = "done" /\ refreshing' = FALSE
      /\ leaving' = IF page = "login" THEN leaving ELSE "login"
      /\ token' = "none" /\ stored' = FALSE
      /\ UNCHANGED <<webBoot, accepted, signedOut, late>>
  BY DEF Web!RefreshFails, Web!ForceLogout, Web!ClearToken, Browsing, Requesting
<1>2. refreshing' \in BOOLEAN /\ stored' \in BOOLEAN /\ token' \in Web!Tokens
  BY <1>1, Zenon DEF Web!Tokens
<1>3. webExpiries' \in 0 .. MaxExpiries /\ webFaults' \in 0 .. MaxFaults
  BY <1>0 DEF Web!RefreshFails, Web!TypeOK, Web!Bounds, Web!Fault, SessionConstants
<1>4. /\ r = Me => webUser' \in BOOLEAN /\ ~webUser' /\ loading' \in BOOLEAN
      /\ r # Me => UNCHANGED <<webUser, loading>>
  BY Zenon DEF Web!RefreshFails, Web!Rejected, Web!Logout
<1>5. page' \in {"login", page} /\ (r # Me => page' = page)
  BY DEF Web!RefreshFails, Web!Rejected, Web!Logout, Web!RequireAuth
<1>6. \A q \in Web!All : /\ q = r => webReq'[q] = Web!Idle
                         /\ q # r /\ webReq[q].at # "queued" => webReq'[q] = webReq[q]
                         /\ q # r /\ webReq[q].at = "queued"
                              => webReq'[q] \in WebRequest /\ webReq'[q].at = "dropped"
  <2>1. \A q \in Web!All : webReq[q] \in WebRequest
    BY <1>0 DEF Web!TypeOK, WebRequest
  <2>2. \A q \in Web!All : /\ [webReq[q] EXCEPT !.at = "dropped"] \in WebRequest
                           /\ [webReq[q] EXCEPT !.at = "dropped"].at = "dropped"
    BY <2>1 DEF WebRequest
  <2>3. \A q \in Web!All : webReq'[q] = IF q = r THEN Web!Idle
                                 ELSE IF q \in Web!Queued THEN [webReq[q] EXCEPT !.at = "dropped"]
                                 ELSE webReq[q]
    BY DEF Web!RefreshFails
  <2> QED
    BY <2>2, <2>3 DEF Web!Queued
<1>7. webReq' \in [Web!All -> WebRequest]
  <2>1. webReq' = [q \in Web!All |-> webReq'[q]]
    BY DEF Web!RefreshFails
  <2> QED
    BY <1>0, <1>6, <2>1, IdleIsRequest DEF Web!TypeOK, WebRequest
<1>8. Web!Owners' = {}
  <2>1. \A q \in Web!All : webReq[q].at = "refresh" => q = r
    BY <1>1 DEF Browsing, Requesting, Web!Owners
  <2> QED
    BY <1>6, <2>1, IdleIsRequest DEF Web!Owners
<1>9. Requesting'
  <2>1. ASSUME leaving' = "no"
        PROVE  r = Me /\ \A q \in Reqs : webReq[q].at = "idle"
    <3>1. page = "login" /\ leaving = "no" /\ ~webUser
      BY <1>1, <2>1 DEF Browsing, Known
    <3> QED
      BY <1>1, <3>1 DEF Browsing, Requesting, Web!All
  <2>2. leaving' = "no" => \A q \in Web!All : webReq'[q].at = "idle"
    BY <1>6, <2>1, IdleIsRequest DEF Web!All
  <2> QED
    BY <1>1, <1>7, <1>8, <2>2 DEF Requesting, Web!All
<1>10. Known'
  <2>1. webReq'[Me].at # "idle" => r # Me /\ webReq[Me].at # "idle"
    BY <1>0, <1>6, IdleIsRequest
  <2>2. page' = "login" /\ leaving' = "no" => ~webUser'
    BY <1>1, <1>4, <1>5 DEF Browsing, Known
  <2>3. webUser' => webUser /\ r # Me
    BY <1>4
  <2> QED
    BY <1>1, <2>1, <2>2, <2>3 DEF Browsing, Known, Web!SessionAfterSignOutHasCause
<1>11. Web!TypeOK'
  BY <1>0, <1>1, <1>2, <1>3, <1>4, <1>5, <1>7 DEF Web!TypeOK, WebRequest
<1> QED
  BY <1>9, <1>10, <1>11 DEF Browsing

(* The user is fetched: behind a sign-in, or behind the first refresh of a *)
(* page.                                                                   *)
LEMMA FetchKeeps ==
  ASSUME SessionConstants, Browsing, Web!SignIn \/ Web!InitRefreshSucceeds PROVE Browsing'
<1> DEFINE k == [Web!Idle EXCEPT !.at = "sent", !.token = "fresh"]
<1>0. Web!TypeOK /\ Me \in Web!All
  BY DEF Browsing, Web!All
<1>1. k \in WebRequest /\ k.at = "sent"
  BY SentIsRequest DEF Web!Tokens
<1>2. /\ ~webUser /\ webReq[Me].at = "idle" /\ webReq' = [webReq EXCEPT ![Me] = k]
      /\ UNCHANGED <<page, leaving, loading, webUser, refreshing, Web!Bounds>>
  BY <1>0 DEF Web!SignIn, Web!InitRefreshSucceeds, Web!FetchUser, Browsing, Known,
       Requesting
<1>3. webBoot' = "done" /\ token' \in Web!Tokens
  BY DEF Web!SignIn, Web!InitRefreshSucceeds, Web!SetTokens, Web!Tokens, Browsing, Known
<1>4. /\ stored' \in BOOLEAN /\ accepted' \in BOOLEAN /\ signedOut' \in BOOLEAN
      /\ late' \in BOOLEAN /\ (signedOut' => late')
  <2>1. CASE Web!SignIn
    <3>1. stored' = TRUE /\ accepted' = TRUE /\ signedOut' = FALSE /\ late' = FALSE
      BY <2>1 DEF Web!SignIn
    <3> QED
      BY <3>1, Zenon
  <2>2. CASE Web!InitRefreshSucceeds
    <3>1. stored' = TRUE /\ accepted' = accepted /\ signedOut' = signedOut
      BY <2>2 DEF Web!InitRefreshSucceeds, Web!SetTokens
    <3>2. late' \in BOOLEAN /\ (signedOut => late')
      BY <2>2, Zenon DEF Web!InitRefreshSucceeds, Web!SetTokens
    <3>3. stored' \in BOOLEAN
      BY <3>1, Zenon
    <3> QED
      BY <1>0, <3>1, <3>2, <3>3 DEF Web!TypeOK
  <2> QED
    BY <2>1, <2>2
<1> HIDE DEF k
<1>5. /\ webReq' \in [Web!All -> WebRequest] /\ Web!Owners' = Web!Owners
      /\ \A q \in Web!All : webReq'[q] = IF q = Me THEN k ELSE webReq[q]
  BY <1>0, <1>1, <1>2, OneMoves
<1>6. Requesting'
  BY <1>1, <1>2, <1>3, <1>5 DEF Browsing, Requesting, SessionConstants, Web!All
<1>7. Known'
  BY <1>2, <1>3, <1>4 DEF Browsing, Known, Web!SessionAfterSignOutHasCause
<1>8. Web!TypeOK'
  BY <1>0, <1>2, <1>3, <1>4, <1>5 DEF Web!TypeOK, WebRequest, Web!Bounds
<1> QED
  BY <1>6, <1>7, <1>8 DEF Browsing

(* A page is loaded.                                                       *)
LEMMA PageLoadKeeps ==
  ASSUME SessionConstants, Browsing, NEW path \in {"app", "login", "out"}, Web!Load(path),
         UNCHANGED Web!Bounds \/ Web!Fault
  PROVE  Browsing'
<1>0. Web!TypeOK
  BY DEF Browsing
<1>1. /\ page' = path /\ leaving' = "no" /\ webBoot' = "start" /\ token' = "none"
      /\ UNCHANGED <<stored, accepted, signedOut, late>>
      /\ loading' = TRUE /\ webUser' = FALSE /\ refreshing' = FALSE
  BY DEF Web!Load
<1>2. loading' \in BOOLEAN /\ webUser' \in BOOLEAN /\ refreshing' \in BOOLEAN /\ loading' /\ ~webUser'
  BY <1>1, Zenon
<1>3. webReq' \in [Web!All -> WebRequest] /\ \A q \in Web!All : webReq'[q].at = "idle"
  BY IdleIsRequest DEF Web!Load
<1>4. Web!Owners' = {}
  BY <1>3 DEF Web!Owners
<1>5. webExpiries' \in 0 .. MaxExpiries /\ webFaults' \in 0 .. MaxFaults
  BY <1>0 DEF Web!TypeOK, Web!Bounds, Web!Fault, SessionConstants
<1>6. Requesting'
  BY <1>1, <1>3, <1>4 DEF Requesting, Web!All
<1>7. Known'
  BY <1>1, <1>2, <1>3 DEF Browsing, Known, Web!SessionAfterSignOutHasCause, Web!All
<1>8. Web!TypeOK'
  BY <1>0, <1>1, <1>2, <1>3, <1>5 DEF Web!TypeOK, WebRequest, Web!Tokens
<1> QED
  BY <1>6, <1>7, <1>8 DEF Browsing

(* Steps that leave the requests alone.                                    *)
LEMMA PageKeeps ==
  ASSUME SessionConstants, Browsing,
         \/ Web!SignOut \/ Web!SignOutLeaves \/ Web!AuthProviderInit \/ Web!InitRefreshFails \/ Web!Visit
         \/ Web!RefreshAccessTokenRefuses
  PROVE  Browsing'
<1>0. Web!TypeOK
  BY DEF Browsing
<1>1. UNCHANGED <<webReq, refreshing>> /\ Web!Owners' = Web!Owners
  BY DEF Web!SignOut, Web!SignOutLeaves, Web!AuthProviderInit, Web!InitRefreshFails,
       Web!Visit,
         Web!RefreshAccessTokenRefuses, Web!Owners
<1>2. CASE Web!SignOut
  <2>1. /\ page = "app" /\ webUser /\ token' = "none" /\ leaving' = "audit"
        /\ stored' = FALSE /\ webUser' = FALSE /\ loading' = FALSE /\ signedOut' = TRUE
        /\ late' = FALSE /\ page' = Web!RequireAuth(FALSE)
        /\ UNCHANGED <<webBoot, accepted, Web!Bounds>>
    BY <1>2 DEF Web!SignOut, Web!ClearToken, Web!Logout
  <2>2. /\ stored' \in BOOLEAN /\ webUser' \in BOOLEAN /\ loading' \in BOOLEAN
        /\ signedOut' \in BOOLEAN /\ late' \in BOOLEAN
    BY <2>1, Zenon
  <2>3. page' \in {"app", "login", "out"}
    BY <1>0, <2>1 DEF Web!TypeOK, Web!RequireAuth
  <2>4. webReq[Me].at = "idle" /\ webBoot = "done"
    BY <2>1 DEF Browsing, Known
  <2>5. Web!TypeOK'
    BY <1>0, <1>1, <2>1, <2>2, <2>3 DEF Web!TypeOK, Web!Tokens, Web!Bounds
  <2>6. Requesting'
    BY <1>1, <2>1, <2>4 DEF Browsing, Requesting
  <2>7. Known'
    BY <1>1, <2>1, <2>4 DEF Known, Web!SessionAfterSignOutHasCause
  <2> QED
    BY <2>5, <2>6, <2>7 DEF Browsing
<1>3. CASE Web!SignOutLeaves \/ Web!Visit
  <2>1. Web!TypeOK'
    BY <1>0, <1>1, <1>3 DEF Web!SignOutLeaves, Web!Visit, Web!Bounds, Web!TypeOK
  <2>2. Requesting'
    BY <1>1, <1>3 DEF Web!SignOutLeaves, Web!Visit, Browsing, Requesting
  <2>3. Known'
    BY <1>1, <1>3 DEF Web!SignOutLeaves, Web!Visit, Browsing, Known,
         Web!SessionAfterSignOutHasCause
  <2> QED
    BY <2>1, <2>2, <2>3 DEF Browsing
<1>4. CASE Web!RefreshAccessTokenRefuses
  <2>1. accepted' \in BOOLEAN
    BY <1>4, Zenon DEF Web!RefreshAccessTokenRefuses
  <2>2. Web!TypeOK'
    BY <1>0, <1>1, <1>4, <2>1 DEF Web!RefreshAccessTokenRefuses, Web!Fault,
         SessionConstants, Web!TypeOK
  <2>3. Requesting'
    BY <1>1, <1>4 DEF Web!RefreshAccessTokenRefuses, Browsing, Requesting
  <2>4. Known'
    BY <1>1, <1>4 DEF Web!RefreshAccessTokenRefuses, Browsing, Known,
         Web!SessionAfterSignOutHasCause
  <2> QED
    BY <2>2, <2>3, <2>4 DEF Browsing
<1>5. CASE Web!AuthProviderInit /\ stored
  <2>1. Web!TypeOK'
    BY <1>0, <1>1, <1>5 DEF Web!AuthProviderInit, Web!Bounds, Web!TypeOK
  <2>2. Requesting'
    BY <1>1, <1>5 DEF Web!AuthProviderInit, Browsing, Requesting
  <2>3. Known'
    BY <1>1, <1>5 DEF Web!AuthProviderInit, Browsing, Known,
         Web!SessionAfterSignOutHasCause
  <2> QED
    BY <2>1, <2>2, <2>3 DEF Browsing
<1>6. CASE (Web!AuthProviderInit /\ ~stored) \/ Web!InitRefreshFails
  <2>1. /\ webBoot # "done" /\ webBoot' = "done" /\ loading' = FALSE /\ page' = Web!RequireAuth(FALSE)
        /\ UNCHANGED <<leaving, webUser, accepted, signedOut, late>>
    BY <1>6 DEF Web!AuthProviderInit, Web!InitRefreshFails, Web!NoSession
  <2>2. loading' \in BOOLEAN
    BY <2>1, Zenon
  <2>3. page' \in {"app", "login", "out"}
    BY <1>0, <2>1 DEF Web!TypeOK, Web!RequireAuth
  <2>4. token' \in Web!Tokens /\ (token' # "none" => token # "none")
    BY <1>0, <1>6 DEF Web!AuthProviderInit, Web!InitRefreshFails, Web!ClearToken,
         Web!TypeOK, Web!Tokens
  <2>5. stored' \in BOOLEAN /\ (stored' => stored)
    <3>1. CASE stored' = FALSE
      BY <3>1, Zenon
    <3>2. CASE stored' = stored
      BY <1>0, <3>2, Zenon DEF Web!TypeOK
    <3> QED
      BY <1>6, <3>1, <3>2 DEF Web!AuthProviderInit, Web!InitRefreshFails, Web!ClearToken
  <2>6. webExpiries' \in 0 .. MaxExpiries /\ webFaults' \in 0 .. MaxFaults
    BY <1>0, <1>6 DEF Web!AuthProviderInit, Web!InitRefreshFails, Web!TypeOK,
         Web!Bounds, Web!Fault, SessionConstants
  <2>7. ~webUser
    BY <2>1 DEF Browsing, Known
  <2>8. Web!TypeOK'
    BY <1>0, <1>1, <2>1, <2>2, <2>3, <2>4, <2>5, <2>6 DEF Web!TypeOK
  <2>9. Requesting'
    BY <1>1, <2>1 DEF Browsing, Requesting
  <2>10. Known'
    BY <1>1, <2>1, <2>4, <2>5, <2>7 DEF Browsing, Known, Web!SessionAfterSignOutHasCause
  <2> QED
    BY <2>8, <2>9, <2>10 DEF Browsing
<1> QED
  BY <1>2, <1>3, <1>4, <1>5, <1>6

(* A token that runs out stops no request.                                 *)
LEMMA TokenExpiryKeeps ==
  ASSUME SessionConstants, Browsing, Web!TokenExpires PROVE Browsing'
<1>0. Web!TypeOK
  BY DEF Browsing
<1>1. /\ UNCHANGED <<page, leaving, loading, webBoot, webUser, stored, accepted, refreshing,
                     signedOut, late>>
      /\ token = "fresh" /\ token' = "stale"
      /\ webExpiries' \in 0 .. MaxExpiries /\ webFaults' = webFaults
  BY <1>0 DEF Web!TokenExpires, Web!TypeOK, SessionConstants
<1>2. \A q \in Web!All : webReq'[q] \in WebRequest /\ webReq'[q].at = webReq[q].at
  <2>1. \A q \in Web!All : webReq[q] \in WebRequest
    BY <1>0 DEF Web!TypeOK, WebRequest
  <2>2. \A q \in Web!All : /\ [webReq[q] EXCEPT !.token = "stale"] \in WebRequest
                           /\ [webReq[q] EXCEPT !.token = "stale"].at = webReq[q].at
    BY <2>1 DEF WebRequest, Web!Tokens
  <2>3. \A q \in Web!All : webReq'[q] = IF webReq[q].token = "fresh" THEN [webReq[q] EXCEPT !.token = "stale"]
                                 ELSE webReq[q]
    BY DEF Web!TokenExpires
  <2> QED
    BY <2>1, <2>2, <2>3
<1>3. webReq' \in [Web!All -> WebRequest]
  <2>1. webReq' = [q \in Web!All |-> webReq'[q]]
    BY DEF Web!TokenExpires
  <2> QED
    BY <1>2, <2>1
<1>4. Web!Owners' = Web!Owners
  BY <1>2 DEF Web!Owners
<1>5. Requesting'
  BY <1>1, <1>2, <1>3, <1>4 DEF Browsing, Requesting, Web!All
<1>6. Known'
  BY <1>1, <1>2 DEF Browsing, Known, Web!SessionAfterSignOutHasCause, Web!All
<1>7. Web!TypeOK'
  BY <1>0, <1>1, <1>3 DEF Web!TypeOK, WebRequest, Web!Tokens
<1> QED
  BY <1>5, <1>6, <1>7 DEF Browsing

(* The invariant of the session is inductive.                              *)
LEMMA BrowsingStep ==
  ASSUME SessionConstants, Browsing, [Web!Next]_(Web!vars) PROVE Browsing'
<1>1. CASE UNCHANGED Web!vars
  BY <1>1 DEF Web!vars, Browsing, Requesting, Known, Web!TypeOK, Web!Owners,
       Web!SessionAfterSignOutHasCause
<1>2. ASSUME NEW r \in Web!All, Web!Send(r) \/ Web!RequestFails(r) \/ Web!Answered(r) PROVE Browsing'
  <2>1. CASE Web!Send(r)
    BY <2>1, SendKeeps DEF Web!Send
  <2>2. CASE Web!RequestFails(r) \/ Web!UnauthorizedAgain(r) \/ Web!NothingStored(r)
    BY <2>2, RefusalKeeps DEF Web!RequestFails, Web!UnauthorizedAgain,
         Web!NothingStored, Web!Unauthorized
  <2> QED
    BY <1>2, <2>1, <2>2, SucceedsKeeps, RetryKeeps, RefreshSucceedsKeeps,
         RefreshFailsKeeps
       DEF Web!Answered, Web!Answer, Web!RefreshAnswer
<1>3. CASE Web!Unload
  BY <1>3, PageLoadKeeps DEF Web!Unload
<1>4. CASE Web!Reload
  BY <1>4, PageLoadKeeps DEF Web!Reload, Browsing, Web!TypeOK
<1> QED
  BY <1>1, <1>2, <1>3, <1>4, FetchKeeps, PageKeeps, TokenExpiryKeeps DEF Web!Next,
       Web!PageSteps

(* The session is sound, by the invariant Browsing.                        *)
LEMMA SessionIsSafe ==
  ASSUME SessionConstants
  PROVE  Web!Spec => [](Web!TypeOK /\ Web!OneRefresh /\ Web!HangHasCause /\ Web!SessionAfterSignOutHasCause)
<1>1. ASSUME Web!Init PROVE Browsing
  <2>1. webReq \in [Web!All -> WebRequest] /\ \A q \in Web!All : webReq[q].at = "idle"
    BY <1>1, IdleIsRequest DEF Web!Init
  <2>2. Web!Owners = {}
    BY <2>1 DEF Web!Owners
  <2>3. {loading, webUser, stored, accepted, refreshing, signedOut, late} \subseteq BOOLEAN
    <3>1. /\ loading = FALSE /\ webUser = FALSE /\ stored = FALSE /\ accepted = FALSE
          /\ refreshing = FALSE /\ signedOut = FALSE /\ late = FALSE
      BY <1>1 DEF Web!Init
    <3> QED
      BY <3>1, Zenon
  <2>4. Web!TypeOK
    BY <1>1, <2>1, <2>3 DEF Web!Init, Web!TypeOK, WebRequest, Web!Tokens,
         SessionConstants
  <2>5. Requesting
    BY <1>1, <2>1, <2>2 DEF Web!Init, Requesting, Web!All
  <2>6. Known
    BY <1>1, <2>1 DEF Web!Init, Known, Web!SessionAfterSignOutHasCause, Web!All
  <2> QED
    BY <2>4, <2>5, <2>6 DEF Browsing
<1>2. Browsing /\ [Web!Next]_(Web!vars) => Browsing'
  BY BrowsingStep
<1>3. Browsing => Web!TypeOK /\ Web!OneRefresh /\ Web!HangHasCause /\ Web!SessionAfterSignOutHasCause
  BY DEF Browsing, Requesting, Known, Web!OneRefresh, Web!HangHasCause
<1> QED
  BY <1>1, <1>2, <1>3, PTL DEF Web!Spec

-----------------------------------------------------------------------------
\* Database initialisation and migrations (Migrations)
VARIABLES
  pc, fresh, seen, file, made, applied, index, recorded, seeded, migFaults,
  migExcused
Mig == INSTANCE Migrations WITH
  faults <- migFaults, excused <- migExcused, MaxFaults <- MaxStatements

MigrationConstants ==
    Runners # {} /\ Last \in Nat \ {0} /\ Split \subseteq Mig!Files /\ MaxStatements \in Nat

(* A container at a file has every earlier one behind it, has run what it  *)
(* is about to record, and has seen only what is recorded.                 *)
AtFile(r) ==
    /\ pc[r] \in {"chunk", "index", "building", "record"} =>
          file[r] \in Mig!Files /\ \A g \in Mig!Files : g < file[r] => g \in applied
    /\ pc[r] \in {"index", "building", "record"} => file[r] \in applied
    /\ pc[r] \in {"index", "building"} => file[r] \in Split
    /\ pc[r] = "record" /\ file[r] \in Split =>
          index[file[r]] = "valid" \/ "index" \in migExcused

Progress ==
    /\ Mig!TypeOK /\ Mig!RecordedIsApplied /\ Mig!InOrder
    /\ \A r \in Runners : AtFile(r) /\ seen[r] \subseteq recorded

(* The earliest pending file is one, and none is earlier.                  *)
LEMMA EarliestIsLeast ==
    ASSUME MigrationConstants, NEW s, s \subseteq Mig!Files, s # {}
    PROVE  Mig!Earliest(s) \in s /\ \A g \in s : Mig!Earliest(s) <= g
<1>1. s \subseteq Nat
  BY DEF Mig!Files, MigrationConstants
<1> DEFINE R == {ss \in Nat \X Nat : ss[1] < ss[2]}
<1>2. IsWellFoundedOn(R, Nat)
  BY NatLessThanWellFounded DEF OpToRel
<1>3. \E f \in s : \A g \in s : ~(<<g, f>> \in R)
  <2> HIDE DEF R
  <2> QED BY <1>1, <1>2, WFMin, Zenon
<1>4. \E f \in s : \A g \in s : f <= g
  <2>1. PICK f \in s : \A g \in s : ~(<<g, f>> \in R)
    BY <1>3
  <2>2. ASSUME NEW g \in s PROVE f <= g
    <3>1. f \in Nat /\ g \in Nat
      BY <1>1
    <3>2. <<g, f>> \in Nat \X Nat /\ <<g, f>>[1] = g /\ <<g, f>>[2] = f
      BY <3>1
    <3>3. g < f => <<g, f>> \in R
      BY <3>2
    <3> QED
      BY <2>1, <3>1, <3>3
  <2> QED
    BY <2>2
<1> QED
  BY <1>4 DEF Mig!Earliest

(* The invariant of the migrations holds of a new volume and of an earlier *)
(* release.                                                                *)
LEMMA ProgressInit ==
    ASSUME MigrationConstants, Mig!Init PROVE Progress
<1>1. applied \subseteq {1} /\ 1 \in Mig!Files
  BY DEF Mig!Init, MigrationConstants, Mig!Files
<1>2. Mig!TypeOK
  BY <1>1 DEF Mig!Init, MigrationConstants, Mig!TypeOK, Mig!Files, Mig!Steps,
       Mig!Objects
<1>3. Mig!RecordedIsApplied
  BY DEF Mig!Init, Mig!RecordedIsApplied, MigrationConstants
<1>4. Mig!InOrder
  BY <1>1 DEF Mig!InOrder
<1>5. \A r \in Runners : AtFile(r) /\ seen[r] \subseteq recorded
  BY DEF Mig!Init, AtFile
<1> QED
  BY <1>2, <1>3, <1>4, <1>5 DEF Progress

(* Steps that leave the migrations alone keep the invariant if the        *)
(* container does not come to stand at a file.                             *)
LEMMA ElsewhereKeeps ==
    ASSUME MigrationConstants, Progress, NEW r \in Runners, Mig!TypeOK',
           NEW step, pc' = [pc EXCEPT ![r] = step],
           step \notin {"chunk", "index", "building", "record"},
           UNCHANGED <<seen, file, applied, recorded, index, migExcused>>
    PROVE  Progress'
BY DEF Progress, Mig!TypeOK, Mig!RecordedIsApplied, Mig!InOrder, AtFile

(* A container that fails leaves behind what others rely on.               *)
LEMMA RaiseKeeps ==
    ASSUME MigrationConstants, Progress, NEW r \in Runners, Mig!TypeOK', Mig!Raise(r),
           UNCHANGED <<seen, file, applied, recorded>>
    PROVE  Progress'
<1>1. ASSUME NEW f \in Split, index[f] = "valid" \/ "index" \in migExcused
      PROVE  (index[f] = "valid" \/ "index" \in migExcused)'
  BY <1>1 DEF Mig!Raise
<1>2. Mig!RecordedIsApplied' /\ Mig!InOrder'
  BY <1>1 DEF Progress, Mig!RecordedIsApplied, Mig!InOrder
<1>3. ASSUME NEW q \in Runners PROVE AtFile(q)'
  <2>1. q = r => pc'[q] = "down"
    BY DEF Mig!Raise, Mig!To, Progress, Mig!TypeOK
  <2>2. q # r => pc'[q] = pc[q]
    BY DEF Mig!Raise, Mig!To, Progress, Mig!TypeOK
  <2> QED
    BY <1>1, <2>1, <2>2 DEF Progress, AtFile
<1> QED
  BY <1>2, <1>3 DEF Progress

(* Every step of a container keeps the order of the migrations.            *)
LEMMA ProgressStep ==
    ASSUME MigrationConstants, Progress, [Mig!Next]_(Mig!vars) PROVE Progress'
<1> USE DEF Progress
<1>1. CASE UNCHANGED Mig!vars
  BY <1>1 DEF Mig!TypeOK, Mig!RecordedIsApplied, Mig!InOrder, AtFile, Mig!vars,
       Mig!dbvars
<1>2. ASSUME NEW r \in Runners, Mig!Step(r) \/ Mig!Crash(r) PROVE Progress'
  <2>1. CASE Mig!Probe(r)
    <3>1. Mig!TypeOK'
      BY <2>1 DEF Mig!Probe, Mig!RunMigrations, Mig!To, Mig!TypeOK, Mig!dbvars,
           Mig!Steps
    <3> QED
      BY <2>1, <3>1, ElsewhereKeeps DEF Mig!Probe, Mig!RunMigrations, Mig!To, Mig!dbvars
  <2>2. CASE Mig!InitDatabase(r)
    <3>1. ASSUME NEW what \in Mig!Objects, NEW create \in {"newrole", "newdatabase"},
                 NEW then \in {"database", "schema"}, Mig!LookFor(r, what, create, then)
          PROVE  Progress'
      <4>1. Mig!TypeOK'
        BY <3>1 DEF Mig!LookFor, Mig!To, Mig!TypeOK, Mig!dbvars, Mig!Steps
      <4> QED
        BY <3>1, <4>1, ElsewhereKeeps, Zenon DEF Mig!LookFor, Mig!To, Mig!dbvars
    <3>2. ASSUME NEW what \in Mig!Objects, NEW create \in {"newrole", "newdatabase"},
                 NEW then \in {"database", "schema"}, Mig!Create(r, what, create, then)
          PROVE  Progress'
      <4>1. Mig!TypeOK'
        BY <3>2, Zenon DEF Mig!Create, Mig!Raise, Mig!To, Mig!TypeOK, Mig!Steps
      <4>2. CASE what \in made
        BY <3>2, <4>1, <4>2, RaiseKeeps DEF Mig!Create
      <4>3. CASE what \notin made
        BY <3>2, <4>1, <4>3, ElsewhereKeeps DEF Mig!Create, Mig!To
      <4> QED
        BY <4>2, <4>3
    <3>3. {"role", "database"} \subseteq Mig!Objects
      BY DEF Mig!Objects
    <3> QED
      BY <2>2, <3>1, <3>2, <3>3 DEF Mig!InitDatabase
  <2>3. CASE Mig!ExecuteSchema(r)
    <3>1. Mig!TypeOK'
      BY <2>3 DEF Mig!ExecuteSchema, Mig!To, Mig!TypeOK, Mig!Steps, Mig!Objects
    <3> QED
      BY <2>3, <3>1, ElsewhereKeeps, Zenon DEF Mig!ExecuteSchema, Mig!To
  <2>4. CASE Mig!ReadApplied(r)
    <3>1. CASE recorded = Mig!Files
      <4>1. Mig!TypeOK'
        BY <2>4, <3>1 DEF Mig!ReadApplied, Mig!To, Mig!After, Mig!TypeOK, Mig!Steps,
             Mig!dbvars, MigrationConstants
      <4>2. ASSUME NEW q \in Runners PROVE AtFile(q)' /\ seen'[q] \subseteq recorded'
        BY <2>4, <3>1, <4>1 DEF Mig!ReadApplied, Mig!To, Mig!After, Mig!TypeOK,
             AtFile, Mig!dbvars
      <4> QED
        BY <2>4, <4>1, <4>2 DEF Mig!ReadApplied, Mig!dbvars, Mig!RecordedIsApplied,
             Mig!InOrder
    <3>2. CASE recorded # Mig!Files
      <4> DEFINE f == Mig!Earliest(Mig!Pending(recorded))
      <4>1. f \in Mig!Pending(recorded) /\ \A g \in Mig!Pending(recorded) : f <= g
        BY <3>2, EarliestIsLeast, Zenon DEF Mig!TypeOK, Mig!Pending
      <4>2. f \in Mig!Files /\ \A g \in Mig!Files : g < f => g \in applied
        <5>1. ASSUME NEW g \in Mig!Files, g < f PROVE g \in recorded
          BY <4>1, <5>1 DEF Mig!Pending, Mig!Files, MigrationConstants
        <5> QED
          BY <4>1, <5>1 DEF Mig!Pending, Mig!RecordedIsApplied
      <4> HIDE DEF f
      <4>3. /\ seen' = [seen EXCEPT ![r] = recorded] /\ pc' = [pc EXCEPT ![r] = "chunk"]
            /\ file' = [file EXCEPT ![r] = f]
            /\ UNCHANGED <<fresh, Mig!dbvars, migFaults, migExcused>>
        BY <2>4, <3>2 DEF Mig!ReadApplied, Mig!To, f
      <4>4. Mig!TypeOK'
        BY <4>2, <4>3 DEF Mig!TypeOK, Mig!Steps, Mig!dbvars, Mig!Files,
             MigrationConstants
      <4>5. ASSUME NEW q \in Runners PROVE AtFile(q)' /\ seen'[q] \subseteq recorded'
        BY <4>2, <4>3 DEF Mig!TypeOK, AtFile, Mig!dbvars
      <4> QED
        BY <4>3, <4>4, <4>5 DEF Mig!dbvars, Mig!RecordedIsApplied, Mig!InOrder
    <3> QED
      BY <3>1, <3>2
  <2>5. CASE Mig!ApplyChunk(r)
    <3>1. file[r] \in Mig!Files /\ \A g \in Mig!Files : g < file[r] => g \in applied
      BY <2>5 DEF Mig!ApplyChunk, AtFile
    <3>2. Mig!TypeOK'
      BY <2>5, <3>1 DEF Mig!ApplyChunk, Mig!To, Mig!TypeOK, Mig!Steps
    <3>3. Mig!InOrder'
      BY <2>5, <3>1 DEF Mig!ApplyChunk, Mig!InOrder, Mig!TypeOK, Mig!Files,
           MigrationConstants
    <3>4. ASSUME NEW q \in Runners PROVE AtFile(q)'
      BY <2>5, <3>1 DEF Mig!ApplyChunk, Mig!To, Mig!TypeOK, AtFile
    <3> QED
      BY <2>5, <3>2, <3>3, <3>4 DEF Mig!ApplyChunk, Mig!RecordedIsApplied
  <2>6. CASE Mig!StartIndex(r)
    <3>1. file[r] \in Split /\ index[file[r]] \in {"none", "building", "valid", "invalid"}
      BY <2>6 DEF Mig!StartIndex, AtFile, Mig!TypeOK
    <3>2. Mig!TypeOK'
      BY <2>6, <3>1 DEF Mig!StartIndex, Mig!To, Mig!TypeOK, Mig!Steps
    <3>3. ASSUME NEW f \in Split, index[f] = "valid" \/ "index" \in migExcused
          PROVE  (index[f] = "valid" \/ "index" \in migExcused)'
      BY <2>6, <3>1, <3>3 DEF Mig!StartIndex, Mig!TypeOK
    <3>4. Mig!RecordedIsApplied'
      BY <2>6, <3>3 DEF Mig!StartIndex, Mig!RecordedIsApplied
    <3>5. ASSUME NEW q \in Runners PROVE AtFile(q)'
      BY <2>6, <3>1, <3>3 DEF Mig!StartIndex, Mig!To, Mig!TypeOK, AtFile
    <3> QED
      BY <2>6, <3>2, <3>4, <3>5, Zenon DEF Mig!StartIndex, Mig!InOrder
  <2>7. CASE Mig!FinishIndex(r)
    <3>1. file[r] \in Split
      BY <2>7 DEF Mig!FinishIndex, AtFile
    <3>2. Mig!TypeOK'
      BY <2>7, <3>1 DEF Mig!FinishIndex, Mig!To, Mig!TypeOK, Mig!Steps
    <3>3. ASSUME NEW f \in Split, index[f] = "valid" \/ "index" \in migExcused
          PROVE  (index[f] = "valid" \/ "index" \in migExcused)'
      BY <2>7, <3>1, <3>3 DEF Mig!FinishIndex, Mig!TypeOK
    <3>4. Mig!RecordedIsApplied'
      BY <2>7, <3>3 DEF Mig!FinishIndex, Mig!RecordedIsApplied
    <3>5. ASSUME NEW q \in Runners PROVE AtFile(q)'
      BY <2>7, <3>1, <3>3 DEF Mig!FinishIndex, Mig!To, Mig!TypeOK, AtFile
    <3> QED
      BY <2>7, <3>2, <3>4, <3>5 DEF Mig!FinishIndex, Mig!InOrder
  <2>8. CASE Mig!Record(r)
    <3>0. /\ file[r] \in Mig!Files /\ file[r] \in applied
          /\ \A g \in Mig!Files : g < file[r] => g \in applied
          /\ file[r] \in Split => index[file[r]] = "valid" \/ "index" \in migExcused
      BY <2>8 DEF Mig!Record, AtFile
    <3>1. CASE file[r] \in recorded
      <4>1. Mig!TypeOK'
        BY <2>8, <3>1, Zenon DEF Mig!Record, Mig!Raise, Mig!To, Mig!TypeOK, Mig!Steps
      <4> QED
        BY <2>8, <3>1, <4>1, RaiseKeeps DEF Mig!Record
    <3>2. CASE file[r] \notin recorded
      <4> DEFINE rest == {f \in Mig!Pending(seen[r]) : f > file[r]}
                 f == Mig!Earliest(rest)
      <4>1. /\ recorded' = recorded \cup {file[r]}
            /\ UNCHANGED <<fresh, seen, made, applied, index, seeded, migFaults, migExcused>>
        BY <2>8, <3>2 DEF Mig!Record
      <4>2. Mig!RecordedIsApplied' /\ Mig!InOrder'
        BY <3>0, <4>1 DEF Mig!RecordedIsApplied, Mig!InOrder
      <4>3. CASE rest = {}
        <5>1. /\ file' = [file EXCEPT ![r] = Last + 1]
              /\ pc' = [pc EXCEPT ![r] = Mig!After(r)]
          BY <2>8, <3>2, <4>3 DEF Mig!Record, Mig!To
        <5>2. Mig!TypeOK'
          BY <3>0, <4>1, <5>1 DEF Mig!TypeOK, Mig!After, Mig!Steps, MigrationConstants
        <5>3. ASSUME NEW q \in Runners PROVE AtFile(q)' /\ seen'[q] \subseteq recorded'
          BY <4>1, <5>1 DEF Mig!TypeOK, Mig!After, AtFile
        <5> QED
          BY <4>2, <5>2, <5>3
      <4>4. CASE rest # {}
        <5>1. file' = [file EXCEPT ![r] = f] /\ pc' = [pc EXCEPT ![r] = "chunk"]
          BY <2>8, <3>2, <4>4 DEF Mig!Record, Mig!To
        <5>2. f \in rest /\ \A g \in rest : f <= g
          BY <4>4, EarliestIsLeast DEF Mig!Pending
        <5>3. f \in Mig!Files /\ \A g \in Mig!Files : g < f => g \in applied
          <6>1. ASSUME NEW g \in Mig!Files, g < f, g > file[r] PROVE g \in seen[r]
            BY <5>2, <6>1 DEF Mig!Pending, Mig!Files, MigrationConstants
          <6>2. seen[r] \subseteq applied
            BY DEF Mig!RecordedIsApplied
          <6> QED
            BY <3>0, <5>2, <6>1, <6>2 DEF Mig!Pending, Mig!Files, MigrationConstants
        <5> HIDE DEF f
        <5>4. Mig!TypeOK'
          <6>1. f \in 1 .. Last + 1
            BY <5>3 DEF Mig!Files, MigrationConstants
          <6> QED
            BY <3>0, <4>1, <5>1, <6>1 DEF Mig!TypeOK, Mig!Steps
        <5>5. ASSUME NEW q \in Runners PROVE AtFile(q)' /\ seen'[q] \subseteq recorded'
          BY <4>1, <5>1, <5>3 DEF Mig!TypeOK, AtFile
        <5> QED
          BY <4>2, <5>4, <5>5
      <4> QED
        BY <4>3, <4>4
    <3> QED
      BY <3>1, <3>2
  <2>9. CASE Mig!BootstrapApiGateway(r)
    <3>1. Mig!TypeOK'
      BY <2>9 DEF Mig!BootstrapApiGateway, Mig!To, Mig!TypeOK, Mig!Steps
    <3> QED
      BY <2>9, <3>1, ElsewhereKeeps, Zenon DEF Mig!BootstrapApiGateway, Mig!To
  <2>10. CASE Mig!Restart(r)
    <3>1. Mig!TypeOK'
      BY <2>10 DEF Mig!Restart, Mig!To, Mig!TypeOK, Mig!dbvars, Mig!Steps
    <3> QED
      BY <2>10, <3>1, ElsewhereKeeps, Zenon DEF Mig!Restart, Mig!To, Mig!dbvars
  <2>11. CASE Mig!Crash(r)
    <3>1. Mig!TypeOK'
      BY <2>11 DEF Mig!Crash, Mig!Raise, Mig!To, Mig!TypeOK, Mig!Steps,
           MigrationConstants
    <3> QED
      BY <2>11, <3>1, RaiseKeeps DEF Mig!Crash
  <2> QED
    BY <1>2, <2>1, <2>2, <2>3, <2>4, <2>5, <2>6, <2>7, <2>8, <2>9, <2>10, <2>11,
         Zenon DEF Mig!Step
<1> QED
  BY <1>1, <1>2 DEF Mig!Next

(* The first-time initialisation that created the schema goes on to the    *)
(* bootstrap, or it failed behind the schema.                              *)
Initialising == {"role", "newrole", "database", "newdatabase", "schema"}
Migrating == {"read", "chunk", "index", "building", "record", "bootstrap"}

Bootstrapping ==
    /\ \A r \in Runners : pc[r] \in Initialising => fresh[r]
    /\ \A r \in Runners : pc[r] \in Migrating \cup {"done"} => "schema" \in made
    /\ "schema" \in made /\ ~seeded /\ "init" \notin migExcused =>
          \E r \in Runners : fresh[r] /\ pc[r] \in Migrating

(* Nobody has begun to initialise.                                         *)
LEMMA BootstrappingInit ==
    ASSUME Mig!Init PROVE Bootstrapping
BY DEF Mig!Init, Bootstrapping, Initialising, Migrating, Mig!Objects

(* Whoever saw no schema comes to the bootstrap, or fails and is excused.  *)
LEMMA BootstrappingStep ==
    ASSUME Mig!TypeOK, Bootstrapping, [Mig!Next]_(Mig!vars) PROVE Bootstrapping'
<1> USE DEF Bootstrapping, Mig!TypeOK
<1>1. CASE UNCHANGED Mig!vars
  BY <1>1 DEF Mig!vars, Mig!dbvars
<1>2. ASSUME NEW r \in Runners, Mig!Step(r) \/ Mig!Crash(r) PROVE Bootstrapping'
  <2> USE DEF Initialising, Migrating
  <2>1. CASE Mig!Probe(r)
    BY <2>1, Zenon DEF Mig!Probe, Mig!RunMigrations, Mig!To, Mig!dbvars
  <2>2. CASE Mig!InitDatabase(r)
    <3>1. ASSUME NEW what \in Mig!Objects, NEW create \in {"newrole", "newdatabase"},
                 NEW then \in {"database", "schema"}, Mig!LookFor(r, what, create, then),
                 what \in Initialising
          PROVE  Bootstrapping'
      BY <3>1 DEF Mig!LookFor, Mig!To, Mig!dbvars
    <3>2. ASSUME NEW what \in {"role", "database"}, NEW create \in {"newrole", "newdatabase"},
                 NEW then \in {"database", "schema"}, Mig!Create(r, what, create, then)
          PROVE  Bootstrapping'
      BY <3>2 DEF Mig!Create, Mig!Raise, Mig!To
    <3> QED
      BY <2>2, <3>1, <3>2 DEF Mig!InitDatabase, Mig!Objects
  <2>3. CASE Mig!ExecuteSchema(r)
    BY <2>3 DEF Mig!ExecuteSchema, Mig!To
  <2>4. CASE Mig!ReadApplied(r)
    BY <2>4 DEF Mig!ReadApplied, Mig!To, Mig!After, Mig!dbvars
  <2>5. CASE Mig!ApplyChunk(r)
    BY <2>5 DEF Mig!ApplyChunk, Mig!To
  <2>6. CASE Mig!StartIndex(r)
    BY <2>6 DEF Mig!StartIndex, Mig!To
  <2>7. CASE Mig!FinishIndex(r)
    BY <2>7 DEF Mig!FinishIndex, Mig!To
  <2>8. CASE Mig!Record(r)
    <3>1. CASE file[r] \in recorded
      BY <2>8, <3>1 DEF Mig!Record, Mig!Raise, Mig!To
    <3>2. CASE file[r] \notin recorded
      <4>1. \/ pc' = [pc EXCEPT ![r] = "chunk"]
            \/ pc' = [pc EXCEPT ![r] = IF fresh[r] THEN "bootstrap" ELSE "done"]
        BY <2>8, <3>2 DEF Mig!Record, Mig!To, Mig!After
      <4> QED
        BY <2>8, <3>2, <4>1 DEF Mig!Record
    <3> QED
      BY <3>1, <3>2
  <2>9. CASE Mig!BootstrapApiGateway(r)
    BY <2>9 DEF Mig!BootstrapApiGateway, Mig!To
  <2>10. CASE Mig!Restart(r)
    BY <2>10 DEF Mig!Restart, Mig!To, Mig!dbvars
  <2>11. CASE Mig!Crash(r)
    BY <2>11 DEF Mig!Crash, Mig!Raise, Mig!To
  <2> QED
    BY <1>2, <2>1, <2>2, <2>3, <2>4, <2>5, <2>6, <2>7, <2>8, <2>9, <2>10, <2>11,
         Zenon DEF Mig!Step
<1> QED
  BY <1>1, <1>2 DEF Mig!Next

(* Migrations are sound, by the invariants Progress and Bootstrapping.     *)
LEMMA MigrationsKeepOrder ==
    ASSUME MigrationConstants
    PROVE  Mig!Spec => [](Mig!TypeOK /\ Mig!RecordedIsApplied /\ Mig!InOrder /\ Mig!BootstrapLostHasCause)
<1> DEFINE Inv == Progress /\ Bootstrapping
<1>1. Mig!Init => Inv
  BY ProgressInit, BootstrappingInit
<1>2. Inv /\ [Mig!Next]_(Mig!vars) => Inv'
  <2>1. Progress /\ [Mig!Next]_(Mig!vars) => Progress'
    BY ProgressStep
  <2>2. Inv /\ [Mig!Next]_(Mig!vars) => Bootstrapping'
    BY BootstrappingStep DEF Progress
  <2> QED
    BY <2>1, <2>2
<1>3. Inv => Mig!TypeOK /\ Mig!RecordedIsApplied /\ Mig!InOrder /\ Mig!BootstrapLostHasCause
  BY DEF Progress, Bootstrapping, Mig!BootstrapLostHasCause, Migrating,
       MigrationConstants
<1> QED
  BY <1>1, <1>2, <1>3, PTL DEF Mig!Spec

-----------------------------------------------------------------------------
\* Rows for users of an external provider (ExternalIdentity)
VARIABLES
  taken, extUser, org, mem, cached, extReq, extFaults, extExpiries
Ext == INSTANCE ExternalIdentity WITH
  user <- extUser, req <- extReq, faults <- extFaults,
  expiries <- extExpiries, MaxExpiries <- MaxRunOuts, MaxFaults <- MaxDbFaults

ExternalConstants == MaxDbFaults \in Nat /\ MaxRunOuts \in Nat

Stations == {"idle", "user", "org", "fetch", "insert", "again", "suffix",
             "member", "link", "build", "ok", "refused"}

Requests == [at : Stations, found : BOOLEAN, name : Ext!Names \cup {"none"}, expired : BOOLEAN]

(* Behind the user's lookup the user's row is there, behind the            *)
(* organisation's insert the organisation's; a request that gave up on     *)
(* either has rolled back.                                                 *)
Found(r) ==
  /\ r.at \notin {"idle", "user", "refused"} => extUser
  /\ r.at = "insert" => r.name \in Ext!Names
  /\ r.at \in {"member", "link"} => org # "none"
  /\ r.at \in {"again", "suffix"} => r.expired
  /\ r.at = "build" /\ ~r.expired => org # "none" /\ mem
  /\ r.at = "ok" => org # "none" /\ mem

Resolving ==
  /\ taken \in BOOLEAN /\ extUser \in BOOLEAN /\ mem \in BOOLEAN /\ cached \in BOOLEAN
  /\ org \in Ext!Names \cup {"none"}
  /\ extFaults \in 0 .. MaxDbFaults /\ extExpiries \in 0 .. MaxRunOuts
  /\ extReq = [r \in Reqs |-> extReq[r]]
  /\ \A r \in Reqs : extReq[r] \in Requests /\ Found(extReq[r])

(* What a request found stays while rows are only added.                   *)
LEMMA FoundStays ==
  ASSUME NEW r \in Requests, Found(r), extUser => extUser', org # "none" => org' # "none", mem => mem'
  PROVE  Found(r)'
  BY DEF Found

(* A step of one request that only adds rows leaves the others with what   *)
(* they found.                                                             *)
LEMMA RequestKeeps ==
  ASSUME Resolving, NEW r \in Reqs, NEW x \in Requests, extReq' = [extReq EXCEPT ![r] = x],
         taken' \in BOOLEAN, extUser' \in BOOLEAN, mem' \in BOOLEAN, cached' \in BOOLEAN,
         org' \in Ext!Names \cup {"none"},
         extFaults' \in 0 .. MaxDbFaults, extExpiries' \in 0 .. MaxRunOuts,
         extUser => extUser', org # "none" => org' # "none", mem => mem', Found(x)'
  PROVE  Resolving'
<1>1. ASSUME NEW q \in Reqs PROVE extReq'[q] \in Requests /\ Found(extReq[q])'
  <2>1. CASE q = r
    <3>1. extReq'[q] = x
      BY <2>1 DEF Resolving
    <3> QED
      BY <3>1 DEF Found
  <2>2. CASE q # r
    <3>1. PICK y : y = extReq[q]
      OBVIOUS
    <3>2. y \in Requests /\ Found(y) /\ extReq'[q] = y
      BY <2>2, <3>1 DEF Resolving
    <3>3. Found(y)'
      BY <3>2, FoundStays
    <3> QED
      BY <3>2, <3>3 DEF Found
  <2> QED
    BY <2>1, <2>2
<1>2. extReq' = [q \in Reqs |-> extReq'[q]]
  BY DEF Resolving
<1> QED
  BY <1>1, <1>2 DEF Resolving

(* The invariant of resolving an external user is inductive.               *)
LEMMA ResolvingStep ==
  ASSUME ExternalConstants, Resolving, [Ext!Next]_(Ext!vars) PROVE Resolving'
<1>1. CASE UNCHANGED Ext!vars
  BY <1>1 DEF Ext!vars, Resolving, Found
<1>2. CASE Ext!CacheExpires
  <2>1. cached' \in BOOLEAN
    BY <1>2, Zenon DEF Ext!CacheExpires
  <2>2. extExpiries' \in 0 .. MaxRunOuts
    BY <1>2 DEF Ext!CacheExpires, Resolving, ExternalConstants
  <2> QED
    BY <1>2, <2>1, <2>2 DEF Ext!CacheExpires, Resolving, Found
<1>3. ASSUME NEW r \in Reqs, Ext!Request(r) \/ Ext!DatabaseFails(r) PROVE Resolving'
  <2>0. PICK y : y = extReq[r]
    OBVIOUS
  <2>1. /\ y \in Requests /\ Found(y) /\ extReq = [q \in Reqs |-> extReq[q]]
        /\ taken \in BOOLEAN /\ extUser \in BOOLEAN /\ mem \in BOOLEAN /\ cached \in BOOLEAN
        /\ org \in Ext!Names \cup {"none"}
        /\ extFaults \in 0 .. MaxDbFaults /\ extExpiries \in 0 .. MaxRunOuts
    BY <2>0 DEF Resolving
  <2>2. CASE Ext!ResolveToken(r)
    <3> DEFINE x == [Ext!NoRequest EXCEPT !.at = "user", !.found = extUser]
    <3>1. x \in Requests /\ x.at = "user"
      BY <2>1 DEF Ext!NoRequest, Requests, Stations
    <3>2. extReq' = [extReq EXCEPT ![r] = x] /\ UNCHANGED Ext!Rows
      BY <2>2 DEF Ext!ResolveToken
    <3> HIDE DEF x
    <3> QED
      BY <2>1, <3>1, <3>2, RequestKeeps DEF Ext!Rows, Found
  <2>3. ASSUME NEW at \in Stations, Ext!Go(r, at), UNCHANGED <<taken, org, mem, extExpiries>>,
               extUser' \in BOOLEAN, extUser => extUser', cached' \in BOOLEAN,
               extFaults' \in 0 .. MaxDbFaults,
               Found([y EXCEPT !.at = at])'
        PROVE  Resolving'
    <3> DEFINE x == [y EXCEPT !.at = at]
    <3>1. x \in Requests /\ extReq' = [extReq EXCEPT ![r] = x]
      BY <2>0, <2>1, <2>3 DEF Requests, Ext!Go
    <3> HIDE DEF x
    <3>2. Found(x)'
      BY <2>3 DEF x
    <3> QED
      BY <2>1, <2>3, <3>1, <3>2, RequestKeeps
  <2>4. CASE Ext!ShadowUser(r)
    BY <2>0, <2>1, <2>3, <2>4 DEF Ext!ShadowUser, Found, Stations, Requests
  <2>5. CASE Ext!FindOrg(r) \/ Ext!FindAgain(r) \/ Ext!FindMember(r)
    BY <2>0, <2>1, <2>3, <2>5 DEF Ext!FindOrg, Ext!FindAgain, Ext!FindMember,
         Ext!Rows, Found, Stations, Requests
  <2>6. CASE Ext!BuildContext(r)
    BY <2>0, <2>1, <2>3, <2>6 DEF Ext!BuildContext, Found, Stations, Requests
  <2>7. CASE Ext!FetchIdpOrgName(r)
    <3>1. PICK n \in {"idp", "fallback"} :
            /\ extReq' = [extReq EXCEPT ![r].at = "insert", ![r].name = n]
            /\ n = "fallback" => extFaults < MaxDbFaults
            /\ extFaults' = IF n = "fallback" THEN extFaults + 1 ELSE extFaults
      BY <2>7 DEF Ext!FetchIdpOrgName
    <3> DEFINE x == [y EXCEPT !.at = "insert", !.name = n]
    <3>2. x \in Requests /\ extReq' = [extReq EXCEPT ![r] = x] /\ x.at = "insert" /\ x.name = n
      BY <2>0, <2>1, <3>1 DEF Requests, Stations, Ext!Names
    <3>3. extFaults' \in 0 .. MaxDbFaults
      BY <2>1, <3>1 DEF ExternalConstants
    <3>4. extUser /\ UNCHANGED <<taken, extUser, org, mem, cached, extExpiries>>
      BY <2>0, <2>1, <2>7 DEF Ext!FetchIdpOrgName, Found
    <3> HIDE DEF x
    <3> QED
      BY <2>1, <3>2, <3>3, <3>4, RequestKeeps DEF Found, Ext!Names
  <2>8. CASE Ext!InsertOrg(r)
    <3> DEFINE clash == org # "none" \/ (taken /\ y.name = "idp")
               x == [y EXCEPT !.at = IF clash THEN "again" ELSE "member", !.expired = clash]
    <3>1. /\ y.at = "insert" /\ org' = IF clash THEN org ELSE y.name
          /\ extReq' = [extReq EXCEPT ![r] = x]
          /\ UNCHANGED <<taken, extUser, mem, cached, extFaults, extExpiries>>
      BY <2>0, <2>8 DEF Ext!InsertOrg
    <3>2. clash \in BOOLEAN
      BY Zenon
    <3>3. extUser /\ y.name \in Ext!Names
      BY <2>1, <3>1 DEF Found
    <3>4. CASE clash
      <4>1. x \in Requests /\ x.at = "again" /\ x.expired
        BY <2>1, <3>2, <3>4 DEF Requests, Stations
      <4>2. org' = org
        BY <3>1, <3>4
      <4> HIDE DEF x, clash
      <4> QED
        BY <2>1, <3>1, <3>3, <4>1, <4>2, RequestKeeps DEF Found
    <3>5. CASE ~clash
      <4>1. x \in Requests /\ x.at = "member"
        BY <2>1, <3>2, <3>5 DEF Requests, Stations
      <4>2. org' = y.name
        BY <3>1, <3>5
      <4> HIDE DEF x, clash
      <4> QED
        BY <2>1, <3>1, <3>3, <4>1, <4>2, RequestKeeps DEF Found, Ext!Names
    <3> QED
      BY <3>4, <3>5
  <2>9. CASE Ext!InsertSuffixed(r)
    <3> DEFINE x == [y EXCEPT !.at = IF org = "none" THEN "member" ELSE "build"]
    <3>1. /\ y.at = "suffix" /\ org' = IF org = "none" THEN "suffixed" ELSE org
          /\ extReq' = [extReq EXCEPT ![r] = x]
          /\ UNCHANGED <<taken, extUser, mem, cached, extFaults, extExpiries>>
      BY <2>0, <2>9 DEF Ext!InsertSuffixed, Ext!Go
    <3>2. /\ x \in Requests /\ x.expired /\ extUser
          /\ x.at \in {"member", "build"} /\ org' # "none" /\ org' \in Ext!Names
      BY <2>1, <3>1 DEF Requests, Stations, Found, Ext!Names
    <3> HIDE DEF x
    <3> QED
      BY <2>1, <3>1, <3>2, RequestKeeps DEF Found
  <2>10. CASE Ext!InsertMember(r)
    <3> DEFINE b == y.expired \/ mem
               x == [y EXCEPT !.at = "build", !.expired = b]
    <3>1. /\ y.at = "link" /\ mem' = TRUE /\ extReq' = [extReq EXCEPT ![r] = x]
          /\ UNCHANGED <<taken, extUser, org, cached, extFaults, extExpiries>>
      BY <2>0, <2>10 DEF Ext!InsertMember
    <3>2. b \in BOOLEAN
      BY Zenon
    <3> HIDE DEF b
    <3>3. x \in Requests /\ x.at = "build" /\ extUser /\ org # "none"
      BY <2>1, <3>1, <3>2 DEF Requests, Stations, Found
    <3> HIDE DEF x
    <3> QED
      BY <2>1, <3>1, <3>3, RequestKeeps DEF Found
  <2>11. CASE Ext!DatabaseFails(r)
    <3>1. extFaults' \in 0 .. MaxDbFaults /\ UNCHANGED <<taken, extUser, org, mem, cached, extExpiries>>
      BY <2>1, <2>11 DEF Ext!DatabaseFails, ExternalConstants
    <3>2. CASE y.at = "user" /\ Ext!Go(r, "refused")
      BY <2>0, <2>1, <2>3, <3>1, <3>2 DEF Found, Stations, Requests
    <3>3. CASE /\ y.at \in {"org", "insert", "again", "suffix", "member", "link"}
               /\ extReq' = [extReq EXCEPT ![r].at = "build", ![r].expired = TRUE]
      <4> DEFINE x == [y EXCEPT !.at = "build", !.expired = TRUE]
      <4>1. x \in Requests /\ x.at = "build" /\ x.expired /\ extReq' = [extReq EXCEPT ![r] = x] /\ extUser
        BY <2>0, <2>1, <3>3 DEF Requests, Stations, Found
      <4> HIDE DEF x
      <4> QED
        BY <2>1, <3>1, <4>1, RequestKeeps DEF Found
    <3> QED
      BY <2>0, <2>11, <3>2, <3>3 DEF Ext!DatabaseFails
  <2> QED
    BY <1>3, <2>2, <2>4, <2>5, <2>6, <2>7, <2>8, <2>9, <2>10, <2>11 DEF Ext!Request,
         Ext!Resolve
<1> QED
  BY <1>1, <1>2, <1>3 DEF Ext!Next

(* A served request has its rows, by the invariant Resolving.              *)
LEMMA ExternalIsSafe ==
  ASSUME ExternalConstants
  PROVE  Ext!Spec => [](Ext!TypeOK /\ Ext!ServedHasRows)
<1>1. Ext!Init => Resolving
  <2>1. Ext!NoRequest \in Requests /\ Ext!NoRequest.at = "idle"
    BY DEF Ext!NoRequest, Requests, Stations
  <2>2. ASSUME Ext!Init PROVE extUser \in BOOLEAN /\ mem \in BOOLEAN /\ cached \in BOOLEAN
    BY <2>2, Zenon DEF Ext!Init
  <2>3. ASSUME Ext!Init
        PROVE  extReq = [r \in Reqs |-> extReq[r]] /\ \A r \in Reqs : extReq[r] = Ext!NoRequest
    BY <2>3 DEF Ext!Init
  <2>4. ASSUME Ext!Init PROVE Found(Ext!NoRequest)
    BY <2>1 DEF Found
  <2>5. ASSUME Ext!Init PROVE \A r \in Reqs : extReq[r] \in Requests /\ Found(extReq[r])
    BY <2>1, <2>3, <2>4, <2>5
  <2>6. ASSUME Ext!Init PROVE extFaults \in 0 .. MaxDbFaults /\ extExpiries \in 0 .. MaxRunOuts
    BY <2>6 DEF Ext!Init, ExternalConstants
  <2> QED
    BY <2>2, <2>3, <2>5, <2>6, Zenon DEF Ext!Init, Resolving
<1>2. Resolving /\ [Ext!Next]_(Ext!vars) => Resolving'
  BY ResolvingStep
<1>3. Resolving => Ext!TypeOK /\ Ext!ServedHasRows
  BY DEF Resolving, Ext!TypeOK, Ext!ServedHasRows, Found, Requests, Stations
<1> QED
  BY <1>1, <1>2, <1>3, PTL DEF Ext!Spec

-----------------------------------------------------------------------------
\* The OAuth sign-in (OauthFlow)
VARIABLES
  cookie, flow, tries, spent, session, oauthExcused, lost, down
Oauth == INSTANCE OauthFlow WITH
  excused <- oauthExcused

OauthConstants == MaxLost \in Nat /\ MaxDown \in Nat

(* A flow that has not come back yet has the cookies or is excused; one    *)
(* that is exchanging its code for a second time is, too.                  *)
SigningIn ==
  /\ Oauth!TypeOK
  /\ \A f \in Flows :
       /\ flow[f] \in {"provider", "back"} => cookie = f \/ f \in oauthExcused
       /\ flow[f] \in {"new", "provider", "back"} => tries[f] = 0 /\ spent[f] = 0
       /\ flow[f] = "exchange" => (tries[f] = 0 /\ spent[f] = 0) \/ f \in oauthExcused
       /\ flow[f] \in Oauth!Failed => f \in oauthExcused

(* An answer to the callback has a cause if it is a failure.               *)
LEMMA AnswerKeeps ==
  ASSUME SigningIn, NEW f \in Flows, NEW at \in {"signed_in", "rejected", "unavailable"},
         Oauth!Answer(f, at), at # "signed_in" => f \in oauthExcused, flow[f] = "exchange",
         tries' \in [Flows -> 0 .. 2], spent' \in [Flows -> 0 .. 2],
         \A g \in Flows : g # f => tries'[g] = tries[g] /\ spent'[g] = spent[g],
         UNCHANGED <<lost, down>>
  PROVE  SigningIn'
<1>1. /\ flow' = [flow EXCEPT ![f] = at] /\ flow \in [Flows -> Oauth!At]
      /\ session' \in Flows \cup {0} /\ cookie' \in Flows \cup {0} /\ oauthExcused' \subseteq Flows
      /\ oauthExcused \subseteq oauthExcused'
      /\ cookie' = cookie \/ Oauth!Pending \subseteq oauthExcused'
  BY DEF Oauth!Answer, SigningIn, Oauth!TypeOK, Oauth!Pending
<1>2. Oauth!TypeOK'
  BY <1>1 DEF SigningIn, Oauth!TypeOK, Oauth!At
<1> QED
  BY <1>1, <1>2 DEF SigningIn, Oauth!Pending, Oauth!Failed

(* The invariant of the sign-in is inductive.                              *)
LEMMA SigningInStep ==
  ASSUME OauthConstants, SigningIn, [Oauth!Next]_(Oauth!vars) PROVE SigningIn'
<1> USE DEF OauthConstants
<1>1. CASE UNCHANGED Oauth!vars
  BY <1>1 DEF Oauth!vars, SigningIn, Oauth!TypeOK
<1>2. ASSUME NEW f \in Flows, Oauth!AuthStart(f) PROVE SigningIn'
  BY <1>2 DEF Oauth!AuthStart, SigningIn, Oauth!TypeOK, Oauth!At, Oauth!Failed,
       Oauth!Pending
<1>3. ASSUME NEW f \in Flows, Oauth!Redirect(f) PROVE SigningIn'
  BY <1>3 DEF Oauth!Redirect, SigningIn, Oauth!TypeOK, Oauth!At, Oauth!Failed
<1>4. CASE Oauth!CookiesExpire
  BY <1>4 DEF Oauth!CookiesExpire, SigningIn, Oauth!TypeOK, Oauth!At, Oauth!Failed,
       Oauth!Pending
<1>5. ASSUME NEW f \in Flows, Oauth!AuthCallback(f) PROVE SigningIn'
  BY <1>5 DEF Oauth!AuthCallback, Oauth!StateMatches, SigningIn, Oauth!TypeOK,
       Oauth!At, Oauth!Failed
<1>6. ASSUME NEW f \in Flows, Oauth!PostToken(f) PROVE SigningIn'
  <2>1. /\ tries' \in [Flows -> 0 .. 2] /\ spent' \in [Flows -> 0 .. 2]
        /\ \A g \in Flows : g # f => tries'[g] = tries[g] /\ spent'[g] = spent[g]
        /\ flow[f] = "exchange" /\ UNCHANGED <<lost, down>>
    BY <1>6 DEF Oauth!PostToken, Oauth!Issue, SigningIn, Oauth!TypeOK
  <2>2. Oauth!Answer(f, "signed_in") \/ (Oauth!Answer(f, "rejected") /\ spent[f] > 0)
    BY <1>6 DEF Oauth!PostToken
  <2>3. spent[f] > 0 => f \in oauthExcused
    BY <2>1 DEF SigningIn
  <2> QED
    BY <2>1, <2>2, <2>3, AnswerKeeps
<1>7. ASSUME NEW f \in Flows, Oauth!RetriesExhausted(f) PROVE SigningIn'
  <2>1. /\ flow[f] = "exchange" /\ tries[f] = 2 /\ Oauth!Answer(f, "unavailable")
        /\ UNCHANGED <<tries, spent, lost, down>>
    BY <1>7 DEF Oauth!RetriesExhausted
  <2>2. f \in oauthExcused /\ tries \in [Flows -> 0 .. 2] /\ spent \in [Flows -> 0 .. 2]
    BY <2>1 DEF SigningIn, Oauth!TypeOK
  <2> QED
    BY <2>1, <2>2, AnswerKeeps
<1>8. ASSUME NEW f \in Flows, Oauth!PostLost(f) PROVE SigningIn'
  <2>1. /\ tries' \in [Flows -> 0 .. 2] /\ spent' \in [Flows -> 0 .. 2]
        /\ \A g \in Flows : g # f => tries'[g] = tries[g] /\ spent'[g] = spent[g]
        /\ lost' \in 0 .. MaxLost /\ flow[f] = "exchange"
        /\ oauthExcused' = oauthExcused \cup {f} /\ UNCHANGED <<cookie, flow, session, down>>
    BY <1>8 DEF Oauth!PostLost, Oauth!Issue, SigningIn, Oauth!TypeOK
  <2> QED
    BY <2>1 DEF SigningIn, Oauth!TypeOK, Oauth!Failed
<1>9. ASSUME NEW f \in Flows, Oauth!PostUnavailable(f) PROVE SigningIn'
  <2>1. /\ tries' \in [Flows -> 0 .. 2] /\ UNCHANGED <<cookie, spent, session, lost>>
        /\ \A g \in Flows : g # f => tries'[g] = tries[g]
        /\ down' \in 0 .. MaxDown /\ flow' = [flow EXCEPT ![f] = "unavailable"]
        /\ oauthExcused' = oauthExcused \cup {f}
    BY <1>9 DEF Oauth!PostUnavailable, SigningIn, Oauth!TypeOK
  <2> QED
    BY <2>1 DEF SigningIn, Oauth!TypeOK, Oauth!At, Oauth!Failed
<1> QED
  BY <1>1, <1>2, <1>3, <1>4, <1>5, <1>6, <1>7, <1>8, <1>9 DEF Oauth!Next,
       Oauth!Callback, Oauth!Exchange

(* A failed sign-in has a cause, by the invariant SigningIn.               *)
LEMMA OauthIsSafe ==
  ASSUME OauthConstants
  PROVE  Oauth!Spec => [](Oauth!TypeOK /\ Oauth!FailureHasCause)
<1>1. Oauth!Init => SigningIn
  BY DEF Oauth!Init, SigningIn, Oauth!TypeOK, Oauth!At, Oauth!Failed, OauthConstants
<1>2. SigningIn /\ [Oauth!Next]_(Oauth!vars) => SigningIn'
  BY SigningInStep
<1>3. SigningIn => Oauth!TypeOK /\ Oauth!FailureHasCause
  BY DEF SigningIn, Oauth!FailureHasCause
<1> QED
  BY <1>1, <1>2, <1>3, PTL DEF Oauth!Spec

-----------------------------------------------------------------------------
\* Starting and stopping the services (Startup)
VARIABLES
  mode, cli, proc, node, queue, started, sigint, silent
Cli == INSTANCE Startup

(* The display goes on while a service is missing; a parent that is gone   *)
(* has seen every service end, and a service that ended stays so.          *)
Running ==
  /\ Cli!TypeOK
  /\ cli = "display" => started < Cli!Total
  /\ sigint = "group" => ~node
  /\ cli = "exit" => \A s \in Cli!Mine : Cli!Ended(s)

(* A step of a service that has not ended keeps the invariant.             *)
LEMMA ServiceKeeps ==
  ASSUME Running, NEW s \in Cli!Services, NEW step \in {"starting", "serving", "ended"},
         Cli!To(s, step), proc[s] # "ended", UNCHANGED Cli!Parent,
         queue' \in Seq({"started", "failed"}), node' \in BOOLEAN,
         sigint = "group" => ~node', silent' \subseteq Cli!Services
  PROVE  Running'
<1>1. Cli!TypeOK' /\ Cli!Mine' = Cli!Mine
  BY DEF Running, Cli!TypeOK, Cli!To, Cli!Parent, Cli!Mine
<1>2. cli = "exit" => \A t \in Cli!Mine : Cli!Ended(t)'
  BY DEF Running, Cli!TypeOK, Cli!To, Cli!Ended, Cli!Mine
<1> QED
  BY <1>1, <1>2 DEF Running, Cli!Parent

(* An event that is posted is one of the two.                              *)
LEMMA PutKeeps ==
  ASSUME Cli!TypeOK, NEW event \in {"started", "failed"}, Cli!Put(event)
  PROVE  queue' \in Seq({"started", "failed"})
  BY DEF Cli!Put, Cli!TypeOK

(* The invariant of the command line is inductive.                         *)
LEMMA RunningStep ==
  ASSUME Running, [Cli!Next]_(Cli!vars) PROVE Running'
<1>0. Cli!TypeOK
  BY DEF Running
<1>1. CASE UNCHANGED Cli!vars
  BY <1>1 DEF Cli!vars, Running, Cli!TypeOK, Cli!Mine, Cli!Ended
<1>2. ASSUME NEW s \in Cli!Services, Cli!Process(s) \/ Cli!Crash(s) PROVE Running'
  <2>1. ASSUME Cli!Fail(s), UNCHANGED Cli!Parent, proc[s] # "ended" PROVE Running'
    BY <1>0, <2>1, ServiceKeeps, PutKeeps DEF Cli!Fail, Running, Cli!TypeOK
  <2>2. ASSUME Cli!Silently(s), UNCHANGED Cli!Parent, proc[s] # "ended" PROVE Running'
    BY <1>0, <2>2, ServiceKeeps DEF Cli!Silently, Running, Cli!TypeOK
  <2>3. ASSUME NEW step \in {"starting", "ended"}, Cli!To(s, step), UNCHANGED <<queue, node, silent>>,
               UNCHANGED Cli!Parent, proc[s] # "ended"
        PROVE  Running'
    BY <1>0, <2>3, ServiceKeeps DEF Running, Cli!TypeOK
  <2>4. ASSUME Cli!To(s, "ended"), Cli!Put("started"), node' = TRUE, UNCHANGED silent,
               UNCHANGED Cli!Parent, proc[s] # "ended", sigint # "group"
        PROVE  Running'
    <3>1. node' \in BOOLEAN
      BY <2>4
    <3> QED
      BY <1>0, <2>4, <3>1, ServiceKeeps, PutKeeps DEF Cli!TypeOK
  <2>5. ASSUME NEW step \in {"serving", "ended"}, Cli!To(s, step), Cli!Put("started"),
               UNCHANGED <<node, silent>>, UNCHANGED Cli!Parent, proc[s] # "ended"
        PROVE  Running'
    BY <1>0, <2>5, ServiceKeeps, PutKeeps DEF Running, Cli!TypeOK
  <2>6. CASE Cli!Runner(s)
    <3>1. CASE s = "web"
      BY <2>2, <2>3, <2>6, <3>1 DEF Cli!Runner, Cli!RunUnifiedWeb, Cli!Runs
    <3>2. CASE s = "orchestration"
      BY <2>1, <2>3, <2>6, <3>2 DEF Cli!Runner, Cli!RunOrchestrationService, Cli!Runs
    <3>3. CASE s = "worker"
      BY <2>1, <2>3, <2>6, <3>3 DEF Cli!Runner, Cli!RunWorker, Cli!Runs
    <3>4. CASE s = "sidecar"
      BY <2>1, <2>2, <2>4, <2>6, <3>4 DEF Cli!Runner, Cli!RunNosanaSidecar, Cli!Runs
    <3>5. CASE s = "skypilot"
      BY <2>1, <2>5, <2>6, <3>5 DEF Cli!Runner, Cli!RunSkypilotServer, Cli!Runs
    <3> QED
      BY <3>1, <3>2, <3>3, <3>4, <3>5 DEF Cli!Services
  <2>7. CASE Cli!Serve(s)
    BY <2>5, <2>7 DEF Cli!Serve, Cli!Runs
  <2>8. CASE Cli!ServiceInterrupted(s)
    BY <2>3, <2>8 DEF Cli!ServiceInterrupted
  <2>9. CASE Cli!Crash(s)
    BY <2>1, <2>3, <2>9 DEF Cli!Crash, Cli!Runs
  <2> QED
    BY <1>2, <2>6, <2>7, <2>8, <2>9 DEF Cli!Process
<1>3. CASE Cli!Display
  <2>1. /\ cli = "display" /\ queue # <<>> /\ cli' \in {"display", "join"}
        /\ queue' \in Seq({"started", "failed"}) /\ UNCHANGED <<mode, proc, node, sigint, silent>>
    BY <1>0, <1>3 DEF Cli!Display, Cli!TypeOK
  <2>2. started' \in 0 .. Cli!Total /\ (cli' = "display" => started' < Cli!Total)
    BY <1>0, <1>3 DEF Cli!Display, Running, Cli!TypeOK, Cli!Total
  <2>3. Cli!Mine' = Cli!Mine
    BY <2>1 DEF Cli!Mine
  <2> QED
    BY <2>1, <2>2, <2>3 DEF Running, Cli!TypeOK
<1>4. CASE Cli!Join
  BY <1>4 DEF Cli!Join, Running, Cli!TypeOK, Cli!Mine, Cli!Ended
<1>7. CASE Cli!ParentInterrupted
  <2>1. cli' \in {"shutdown", "atexit"} /\ queue' \in Seq({"started", "failed"})
    BY <1>7 DEF Cli!ParentInterrupted
  <2> QED
    BY <1>7, <2>1 DEF Cli!ParentInterrupted, Running, Cli!TypeOK
<1>5. CASE Cli!Shutdown
  BY <1>5 DEF Cli!Shutdown, Running, Cli!TypeOK, Cli!Mine, Cli!Ended
<1>6. CASE Cli!Interrupt
  <2>1. node' \in BOOLEAN /\ (sigint' = "group" => ~node')
    BY <1>6, Zenon DEF Cli!Interrupt
  <2> QED
    BY <1>6, <2>1 DEF Cli!Interrupt, Running, Cli!TypeOK, Cli!Mine, Cli!Ended
<1> QED
  BY <1>1, <1>2, <1>3, <1>4, <1>5, <1>6, <1>7 DEF Cli!Next, Cli!Main

(* No service outlives the parent, by the invariant Running.               *)
LEMMA StartupIsSafe == Cli!Spec => [](Cli!TypeOK /\ Cli!NothingLeftBehind)
<1>1. ASSUME Cli!Init PROVE Running
  <2>1. node \in BOOLEAN /\ ~node
    BY <1>1, Zenon DEF Cli!Init
  <2>4. queue \in Seq({"started", "failed"})
    BY <1>1 DEF Cli!Init
  <2>2. proc \in [Cli!Services -> {"absent", "spawned", "starting", "serving", "ended"}]
    BY <1>1 DEF Cli!Init, Cli!ProcessSpecs
  <2>3. started \in 0 .. Cli!Total /\ started < Cli!Total
    BY <1>1 DEF Cli!Init, Cli!Total
  <2> QED
    BY <1>1, <2>1, <2>2, <2>3, <2>4 DEF Cli!Init, Running, Cli!TypeOK
<1>2. Running /\ [Cli!Next]_(Cli!vars) => Running'
  BY RunningStep
<1>3. Running => Cli!TypeOK /\ Cli!NothingLeftBehind
  BY DEF Running, Cli!NothingLeftBehind
<1> QED
  BY <1>1, <1>2, <1>3, PTL DEF Cli!Spec

-----------------------------------------------------------------------------
\* External identities: a request that is served has its rows, although
\* concurrent first requests and failed statements race to make them; a sign-
\* in with an external provider fails only for a known reason.
SignInSound ==
  /\ Ext!TypeOK
  /\ Ext!ServedHasRows
  /\ Oauth!TypeOK
  /\ Oauth!FailureHasCause

\* The dashboard's session: one request refreshes at a time, a promise is
\* forgotten only on a page that is being left or on the login page, and
\* after a sign-out only a refresh under way restores a session.
SessionSound ==
  /\ Web!TypeOK
  /\ Web!OneRefresh
  /\ Web!HangHasCause
  /\ Web!SessionAfterSignOutHasCause

\* The command line: when the parent is gone no service is left.
StartupSound ==
  /\ Cli!TypeOK
  /\ Cli!NothingLeftBehind

\* Migrations: a recorded one has been run, none runs before an earlier one
\* is committed, and the bootstrap has run when every container serves but
\* for a failed initialisation.
MigrationsSound ==
  /\ Mig!TypeOK
  /\ Mig!RecordedIsApplied
  /\ Mig!InOrder
  /\ Mig!BootstrapLostHasCause

(* Constants of the components, as the code gives them.                    *)
ASSUME PlatformAssumption ==
  MigrationConstants /\ ExternalConstants /\ OauthConstants /\ SessionConstants

(* Any number of containers, restarted at any step: the migrations are     *)
(* sound.                                                                  *)
THEOREM MigrationsAreSound == Mig!Spec => []MigrationsSound
<1>1. /\ Mig!TypeOK /\ Mig!RecordedIsApplied /\ Mig!InOrder /\ Mig!BootstrapLostHasCause
      => MigrationsSound
  BY DEF MigrationsSound
<1> QED
  BY <1>1, PlatformAssumption, MigrationsKeepOrder, PTL

(* Any number of requests and flows: signing in with an external provider  *)
(* is sound.                                                               *)
THEOREM SignInIsSound == Ext!Spec /\ Oauth!Spec => []SignInSound
<1>1. Ext!TypeOK /\ Ext!ServedHasRows /\ Oauth!TypeOK /\ Oauth!FailureHasCause => SignInSound
  BY DEF SignInSound
<1>2. Ext!Spec => [](Ext!TypeOK /\ Ext!ServedHasRows)
  BY PlatformAssumption, ExternalIsSafe
<1>3. Oauth!Spec => [](Oauth!TypeOK /\ Oauth!FailureHasCause)
  BY PlatformAssumption, OauthIsSafe
<1> QED
  BY <1>1, <1>2, <1>3, PTL

(* The parent ends after its services, however they fail and whoever is    *)
(* interrupted.                                                            *)
THEOREM StartupIsSound == Cli!Spec => []StartupSound
<1>1. Cli!TypeOK /\ Cli!NothingLeftBehind => StartupSound
  BY DEF StartupSound
<1> QED
  BY <1>1, StartupIsSafe, PTL

(* Any number of requests of the dashboard: its session is sound.          *)
THEOREM SessionIsSound == Web!Spec => []SessionSound
<1>1. /\ Web!TypeOK /\ Web!OneRefresh /\ Web!HangHasCause /\ Web!SessionAfterSignOutHasCause
      => SessionSound
  BY DEF SessionSound
<1> QED
  BY <1>1, PlatformAssumption, SessionIsSafe, PTL
=============================================================================
