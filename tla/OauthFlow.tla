------------------------------ MODULE OauthFlow -----------------------------
(***************************************************************************)
(* Signing in through the provider (rbac/oauth_router.py, oauth_client.py) *)
(* from one browser: /auth/start keeps the state and the PKCE verifier of  *)
(* the flow in two cookies, the provider sends the browser back with a     *)
(* one-time code, and /auth/callback exchanges it.  The tabs of a browser  *)
(* share the cookies; the client repeats an exchange once when it got no   *)
(* answer.  A flow is named by its number: its state, verifier and code.   *)
(***************************************************************************)
EXTENDS Naturals

CONSTANTS
  Flows,        \* flows, in the order they are started: 1 .. n
  MaxLost,      \* bound: exchanges whose answer is lost
  MaxDown       \* bound: exchanges the provider fails with a 5xx

VARIABLES
  cookie,       \* the flow of the two cookies, 0 when they are gone
  flow,         \* where each flow is
  tries,        \* POSTs made for the code of a flow
  spent,        \* tokens the provider has issued for the code of a flow
  session,      \* the flow the browser's tokens come from, 0 without any
  excused,      \* flows a later start, a time limit or a fault has spoiled
  lost, down

vars == <<cookie, flow, tries, spent, session, excused, lost, down>>

At == {"new", "provider", "back", "exchange", "signed_in", "invalid_state",
       "rejected", "unavailable"}

TypeOK ==
  /\ cookie \in Flows \cup {0}
  /\ flow \in [Flows -> At]
  /\ tries \in [Flows -> 0 .. 2]
  /\ spent \in [Flows -> 0 .. 2]
  /\ session \in Flows \cup {0}
  /\ excused \subseteq Flows
  /\ lost \in 0 .. MaxLost /\ down \in 0 .. MaxDown

Init ==
  /\ cookie = 0
  /\ flow = [f \in Flows |-> "new"]
  /\ tries = [f \in Flows |-> 0]
  /\ spent = [f \in Flows |-> 0]
  /\ session = 0
  /\ excused = {}
  /\ lost = 0 /\ down = 0

Pending == {f \in Flows : flow[f] \in {"provider", "back"}}

-----------------------------------------------------------------------------
AuthStart(f) ==
  /\ flow[f] = "new" /\ \A g \in Flows : g < f => flow[g] # "new"
  /\ cookie' = f
  /\ flow' = [flow EXCEPT ![f] = "provider"]
  /\ excused' = excused \cup Pending
  /\ UNCHANGED <<tries, spent, session, lost, down>>

(* The user signs in at the provider, which redirects with a code.         *)
Redirect(f) ==
  /\ flow[f] = "provider"
  /\ flow' = [flow EXCEPT ![f] = "back"]
  /\ UNCHANGED <<cookie, tries, spent, session, excused, lost, down>>

(* The cookies live ten minutes.                                           *)
CookiesExpire ==
  /\ cookie # 0
  /\ cookie' = 0
  /\ excused' = excused \cup Pending
  /\ UNCHANGED <<flow, tries, spent, session, lost, down>>

StateMatches(f) == cookie = f

(* A mutant: a refused callback drops the cookies as well.                 *)
AuthCallbackClears(f) ==
  /\ flow[f] = "back"
  /\ flow' = [flow EXCEPT ![f] = IF StateMatches(f) THEN "exchange" ELSE "invalid_state"]
  /\ cookie' = IF StateMatches(f) THEN cookie ELSE 0
  /\ UNCHANGED <<tries, spent, session, excused, lost, down>>

AuthCallback(f) ==
  /\ flow[f] = "back"
  /\ flow' = [flow EXCEPT ![f] = IF StateMatches(f) THEN "exchange" ELSE "invalid_state"]
  /\ UNCHANGED <<cookie, tries, spent, session, excused, lost, down>>

(* The answer to the browser drops the cookies, whoever's they are by now. *)
Answer(f, at) ==
  /\ flow' = [flow EXCEPT ![f] = at]
  /\ session' = IF at = "signed_in" THEN f ELSE session
  /\ cookie' = IF at = "signed_in" THEN 0 ELSE cookie
  /\ excused' = IF at = "signed_in" THEN excused \cup Pending ELSE excused

(* External: the provider issues tokens for a code once, 4xx after that.   *)
Issue(f) == spent' = [spent EXCEPT ![f] = 1]

(* A mutant: one attempt too many.                                         *)
PostTokenOnceMore(f) ==
  /\ flow[f] = "exchange" /\ tries[f] <= 2
  /\ tries' = [tries EXCEPT ![f] = @ + 1]
  /\ \/ /\ spent[f] = 0
        /\ Issue(f) /\ Answer(f, "signed_in")
     \/ /\ spent[f] > 0
        /\ Answer(f, "rejected") /\ UNCHANGED spent
  /\ UNCHANGED <<lost, down>>

PostToken(f) ==
  /\ flow[f] = "exchange" /\ tries[f] < 2
  /\ tries' = [tries EXCEPT ![f] = @ + 1]
  /\ \/ /\ spent[f] = 0
        /\ Issue(f) /\ Answer(f, "signed_in")
     \/ /\ spent[f] > 0
        /\ Answer(f, "rejected") /\ UNCHANGED spent
  /\ UNCHANGED <<lost, down>>

(* httpx.HTTPError: the request or its answer was lost.                    *)
PostLost(f) ==
  /\ flow[f] = "exchange" /\ tries[f] < 2
  /\ lost < MaxLost
  /\ lost' = lost + 1
  /\ tries' = [tries EXCEPT ![f] = @ + 1]
  /\ \/ Issue(f) \/ UNCHANGED spent
  /\ excused' = excused \cup {f}
  /\ UNCHANGED <<cookie, flow, session, down>>

(* A mutant: the client does not give up.                                  *)
RetriesForever(f) ==
  /\ flow[f] = "exchange" /\ tries[f] > 2
  /\ Answer(f, "unavailable")
  /\ UNCHANGED <<tries, spent, lost, down>>

RetriesExhausted(f) ==
  /\ flow[f] = "exchange" /\ tries[f] = 2
  /\ Answer(f, "unavailable")
  /\ UNCHANGED <<tries, spent, lost, down>>

PostUnavailable(f) ==
  /\ flow[f] = "exchange" /\ tries[f] < 2
  /\ down < MaxDown
  /\ down' = down + 1
  /\ tries' = [tries EXCEPT ![f] = @ + 1]
  /\ flow' = [flow EXCEPT ![f] = "unavailable"]
  /\ excused' = excused \cup {f}
  /\ UNCHANGED <<cookie, spent, session, lost>>

-----------------------------------------------------------------------------
Exchange(f) == PostToken(f) \/ RetriesExhausted(f)

Callback(f) == AuthCallback(f) \/ Exchange(f)

Next ==
  \/ \E f \in Flows : \/ AuthStart(f) \/ Redirect(f) \/ Callback(f)
                      \/ PostLost(f) \/ PostUnavailable(f)
  \/ CookiesExpire

Spec == Init /\ [][Next]_vars

(* The browser follows its redirects and the exchange, once begun, ends.   *)
Fairness == \A f \in Flows : WF_vars(Callback(f))

FairSpec == Spec /\ Fairness

-----------------------------------------------------------------------------
Failed == {"invalid_state", "rejected", "unavailable"}

(* A sign-in fails only when the browser started another one meanwhile,    *)
(* took longer than the cookies live, or the provider or its answer failed:*)
(* the gateway itself spoils no flow.                                      *)
FailureHasCause == \A f \in Flows : flow[f] \in Failed => f \in excused

(* A callback is always answered, after one retry at most.                 *)
CallbackAnswered ==
  \A f \in Flows : (flow[f] = "back") ~> (flow[f] \in Failed \cup {"signed_in"})

=============================================================================
