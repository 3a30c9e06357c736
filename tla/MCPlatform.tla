----------------------------- MODULE MCPlatform ------------------------------
(***************************************************************************)
(* Accounts, sign-in and the life of the processes, checked together:      *)
(* organisations and invitations, the second factor, users of an external  *)
(* provider, the OAuth sign-in, the dashboard's session, startup and       *)
(* migrations.  They share no state that their modules model, so a         *)
(* behaviour of the sum is a behaviour of one of them; `part` says of      *)
(* which.  The components, the properties and their proofs are in the      *)
(* modules this one extends.                                               *)
(***************************************************************************)
EXTENDS AccountProofs, PlatformProofs

CONSTANT Parts   \* the components to check

\* The superadmin, and an address that is typed in two ways.
TheRoot == [addr |-> "root", case |-> "lower"]
TheEmails == {TheRoot} \cup [addr : {"ann"}, case : {"lower", "typed"}]

VARIABLE part   \* the component that runs

\* Organisations, members and invitations (Accounts)
accVars ==
  <<orgs, default, member, role, inv, used, accCall, accBoot, accBegun,
  crashes>>

\* Enrolment of a second factor (TwoFactor)
totpVars ==
  <<row, totpCall, issued, proven, overlap, totpBegun>>

\* Rows for users of an external provider (ExternalIdentity)
extVars ==
  <<taken, extUser, org, mem, cached, extReq, extFaults, extExpiries>>

\* The OAuth sign-in (OauthFlow)
oauthVars ==
  <<cookie, flow, tries, spent, session, oauthExcused, lost, down>>

\* The dashboard's session (Session)
webVars ==
  <<page, leaving, loading, webBoot, webUser, token, stored, accepted,
  refreshing, webReq, signedOut, late, webExpiries, webFaults>>

\* Starting and stopping the services (Startup)
cliVars ==
  <<mode, cli, proc, node, queue, started, sigint, silent>>

\* Database initialisation and migrations (Migrations)
migVars ==
  <<pc, fresh, seen, file, made, applied, index, recorded, seeded, migFaults,
  migExcused>>

\* The parts that do not run rest in their initial states.
Rest(p) ==
  /\ UNCHANGED part
  /\ IF p = "accounts" THEN TRUE ELSE UNCHANGED accVars
  /\ IF p = "two_factor" THEN TRUE ELSE UNCHANGED totpVars
  /\ IF p = "external_identity" THEN TRUE ELSE UNCHANGED extVars
  /\ IF p = "oauth_flow" THEN TRUE ELSE UNCHANGED oauthVars
  /\ IF p = "session" THEN TRUE ELSE UNCHANGED webVars
  /\ IF p = "startup" THEN TRUE ELSE UNCHANGED cliVars
  /\ IF p = "migrations" THEN TRUE ELSE UNCHANGED migVars

vars == <<part, accVars, totpVars, extVars, oauthVars, webVars, cliVars, migVars>>

\* One initial state is enough for a part that does not run.
Resting ==
  /\ part # "accounts" => orgs = {}
  /\ part # "external_identity" => ~taken
  /\ part # "startup" => mode = "all"
  /\ part # "migrations" => ~seeded

Init ==
  /\ part \in Parts
  /\ Acc!Init
  /\ Totp!Init
  /\ Ext!Init
  /\ Oauth!Init
  /\ Web!Init
  /\ Cli!Init
  /\ Mig!Init
  /\ Resting

Next ==
  \/ part = "accounts" /\ Acc!Next /\ Rest("accounts")
  \/ part = "two_factor" /\ Totp!Next /\ Rest("two_factor")
  \/ part = "external_identity" /\ Ext!Next /\ Rest("external_identity")
  \/ part = "oauth_flow" /\ Oauth!Next /\ Rest("oauth_flow")
  \/ part = "session" /\ Web!Next /\ Rest("session")
  \/ part = "startup" /\ Cli!Next /\ Rest("startup")
  \/ part = "migrations" /\ Mig!Next /\ Rest("migrations")

Spec == Init /\ [][Next]_vars

\* The fairness of each component, for the part that runs.
Fairness ==
  /\ \A c \in Calls : WF_accVars(part = "accounts" /\ Acc!Commit(c))
  /\ \A g \in Gateways : WF_accVars(part = "accounts" /\ Acc!Boot(g))
  /\ \A r \in Reqs : WF_extVars(part = "external_identity" /\ Ext!Request(r))
  /\ \A f \in Flows : WF_oauthVars(part = "oauth_flow" /\ Oauth!Callback(f))
  /\ \A r \in Web!All : WF_webVars(part = "session" /\ Web!Answered(r))
  /\ WF_webVars(part = "session" /\ Web!PageSteps)
  /\ WF_cliVars(part = "startup" /\ Cli!Main)
  /\ \A s \in Cli!Services : WF_cliVars(part = "startup" /\ Cli!Process(s))
  /\ \A r \in Runners : WF_migVars(part = "migrations" /\ Mig!Step(r))

FairSpec == Spec /\ Fairness

-----------------------------------------------------------------------------
=============================================================================
