------------------------------ MODULE Accounts ------------------------------
(***************************************************************************)
(* Users, organisations, memberships, roles and invitations of the API     *)
(* gateway (api_gateway/rbac and api_gateway/management), in local mode.   *)
(*                                                                         *)
(* Every handler reads what it checks, then commits one transaction: a     *)
(* handler in flight is a record of `call`, and other handlers commit      *)
(* between its two steps.  The database's unique keys (users.email,        *)
(* uq_user_org, roles.name) refuse a commit; SQLAlchemy refuses an UPDATE  *)
(* of an invitation whose row was deleted (StaleDataError), and the whole  *)
(* transaction rolls back.                                                 *)
(*                                                                         *)
(* An e-mail is a record: the address, and whether it is spelled in lower  *)
(* case ("lower") or otherwise ("typed").  users.email is unique as        *)
(* spelled; invitations and look-ups at login compare the address.         *)
(***************************************************************************)
EXTENDS Naturals, FiniteSets

CONSTANTS
  Emails,       \* the spellings that occur: records [addr, case]
  Root,         \* settings.superadmin_email, a member of Emails
  Orgs, Invs,   \* organisation rows and invitation rows there is room for
  Calls,        \* handlers in flight at a time
  Gateways,     \* gateway processes, each seeding the database as it starts
  Given,        \* roles given to new members, of {"admin", "member"}
  MaxCalls,     \* bound: handlers begun
  MaxCrashes    \* bound: gateway crashes while seeding

VARIABLES
  orgs,         \* organizations rows
  default,      \* users.default_org_id, "absent" when there is no such user
  member,       \* user_organizations: the role of a user in an organisation
  role,         \* roles: what a role grants ("manage" holds every permission)
  inv,          \* invitations rows
  used,         \* memberships each invitation has given (history)
  call,         \* handlers between their reads and their commit
  boot,         \* where each gateway is in initialize_default_org
  begun, crashes

vars == <<orgs, default, member, role, inv, used, call, boot, begun, crashes>>

Roles == {"admin", "member", "custom"}

Lower(e) == [e EXCEPT !.case = "lower"]

Users == {u \in Emails : default[u] # "absent"}

NoInv == [st |-> "none"]

Idle == [op |-> "idle"]

TypeOK ==
  /\ orgs \subseteq Orgs
  /\ default \in [Emails -> Orgs \cup {"absent", "none"}]
  /\ member \in [Emails -> [Orgs -> Roles \cup {"none"}]]
  /\ role \in [Roles -> {"absent", "plain", "manage"}]
  /\ \A i \in Invs : \/ inv[i] = NoInv
                     \/ /\ inv[i].st \in {"pending", "accepted", "revoked"}
                        /\ inv[i].org \in orgs
                        /\ inv[i].email.case = "lower"
  /\ used \in [Invs -> Nat]
  /\ \A g \in Gateways :
       /\ boot[g].at \in {"roles", "org", "user", "member", "done", "failed"}
       /\ boot[g].at \in {"user", "member", "done"} => boot[g].org \in orgs
  /\ begun \in 0 .. MaxCalls /\ crashes \in 0 .. MaxCrashes

(* A database before its first start, and one in use: the superadmin runs  *)
(* every organisation, the others belong to one of them, an invitation may *)
(* be pending, and its gateways are past their restarts.                   *)
Empty ==
  /\ orgs = {}
  /\ default = [u \in Emails |-> "absent"]
  /\ member = [u \in Emails |-> [o \in Orgs |-> "none"]]
  /\ role = [r \in Roles |-> "absent"]
  /\ inv = [i \in Invs |-> NoInv]
  /\ boot = [g \in Gateways |-> [at |-> "roles", fresh |-> TRUE, org |-> "none"]]
  /\ crashes = 0

InUse ==
  \E home \in Orgs :
    /\ orgs = Orgs
    /\ default = [u \in Emails |-> home]
    /\ member = [u \in Emails |-> [o \in Orgs |->
          IF u = Root THEN "admin" ELSE IF o = home THEN "member" ELSE "none"]]
    /\ role = [r \in Roles |-> IF r = "admin" THEN "manage" ELSE "plain"]
    /\ boot = [g \in Gateways |-> [at |-> "done", fresh |-> FALSE, org |-> home]]
    /\ crashes = MaxCrashes
    /\ \/ inv = [i \in Invs |-> NoInv]
       \/ \E i \in Invs, o \in Orgs, e \in {Lower(u) : u \in Emails}, r \in Given :
            inv = [j \in Invs |-> IF j # i THEN NoInv
                     ELSE [st |-> "pending", live |-> TRUE, org |-> o,
                           email |-> e, role |-> r]]

Init ==
  /\ Empty \/ InUse
  /\ used = [i \in Invs |-> 0]
  /\ call = [c \in Calls |-> Idle]
  /\ begun = 0

-----------------------------------------------------------------------------
(* Authorisation: the context of a request holds the caller's organisation *)
(* and the permissions of the role the caller has there.                   *)

Manages(by, o) ==
  by \in Users /\ member[by][o] # "none" /\ role[member[by][o]] = "manage"

(* A gateway takes requests once its seeding has ended, well or badly.     *)
Begin(c, r) ==
  /\ call[c] = Idle
  /\ \E g \in Gateways : boot[g].at \in {"done", "failed"}
  /\ begun < MaxCalls
  /\ begun' = begun + 1
  /\ call' = [call EXCEPT ![c] = r]
  /\ UNCHANGED <<orgs, default, member, role, inv, used, boot, crashes>>

(* A commit that the database refuses answers 500 and changes nothing.     *)
Finish(c) ==
  /\ call' = [call EXCEPT ![c] = Idle]
  /\ UNCHANGED <<boot, begun, crashes>>

Refused(c) ==
  Finish(c) /\ UNCHANGED <<orgs, default, member, role, inv, used>>

-----------------------------------------------------------------------------
(* management/users.py: the e-mail is compared as it was typed.            *)

CreateUser(c) ==
  \E by \in Users, o \in orgs, e \in Emails, r \in Given :
    /\ Manages(by, o)
    /\ e \notin Users
    /\ Begin(c, [op |-> "create_user", org |-> o, email |-> e, role |-> r])

CommitUser(c) ==
  LET k == call[c] IN
  /\ k.op = "create_user"
  /\ \/ k.email \in Users /\ Refused(c)
     \/ /\ k.email \notin Users
        /\ default' = [default EXCEPT ![k.email] = k.org]
        /\ member' = [member EXCEPT ![k.email][k.org] = k.role]
        /\ Finish(c) /\ UNCHANGED <<orgs, role, inv, used>>

-----------------------------------------------------------------------------
(* management/organizations.py: organisations and invitations              *)

CreateOrganization(c) ==
  \E by \in Users, o \in orgs, new \in Orgs \ orgs :
    /\ Manages(by, o)
    /\ \A d \in Calls : call[d].op = "create_org" => call[d].org # new
    /\ Begin(c, [op |-> "create_org", by |-> by, org |-> new])

CommitOrganization(c) ==
  LET k == call[c] IN
  /\ k.op = "create_org"
  /\ orgs' = orgs \cup {k.org}
  /\ member' = [member EXCEPT ![k.by][k.org] = "admin"]
  /\ default' = [default EXCEPT ![k.by] = IF @ = "none" THEN k.org ELSE @]
  /\ Finish(c) /\ UNCHANGED <<role, inv, used>>

Pending(i) == inv[i].st = "pending" /\ inv[i].live

CreateInvitation(c) ==
  \E by \in Users, o \in orgs, e \in {Lower(u) : u \in Emails},
     r \in Given, i \in Invs :
    LET existing == {u \in Users : Lower(u) = e} IN
    /\ Manages(by, o)
    /\ existing # {} => \E u \in existing : member[u][o] = "none"
    /\ ~ \E j \in Invs : Pending(j) /\ inv[j].email = e /\ inv[j].org = o
    /\ inv[i] = NoInv
    /\ \A d \in Calls : call[d].op = "create_invite" => call[d].inv # i
    /\ Begin(c, [op |-> "create_invite", inv |-> i, org |-> o,
                 email |-> e, role |-> r])

CommitInvitation(c) ==
  LET k == call[c] IN
  /\ k.op = "create_invite"
  /\ inv' = [inv EXCEPT ![k.inv] = [st |-> "pending", live |-> TRUE,
                 org |-> k.org, email |-> k.email, role |-> k.role]]
  /\ Finish(c) /\ UNCHANGED <<orgs, default, member, role, used>>

(* A revoked row is deleted; "revoked" remembers that it was.              *)
RevokeInvitation(c) ==
  \E by \in Users, i \in Invs :
    /\ inv[i].st \in {"pending", "accepted"}
    /\ Manages(by, inv[i].org)
    /\ Begin(c, [op |-> "revoke", inv |-> i])

CommitRevocation(c) ==
  /\ call[c].op = "revoke"
  /\ inv' = [inv EXCEPT ![call[c].inv].st = "revoked"]
  /\ Finish(c) /\ UNCHANGED <<orgs, default, member, role, used>>

InviteExpires(i) ==
  /\ Pending(i)
  /\ inv' = [inv EXCEPT ![i].live = FALSE]
  /\ UNCHANGED <<orgs, default, member, role, used, call, boot, begun, crashes>>

-----------------------------------------------------------------------------
(* rbac/router.py: taking an invitation up                                 *)

ValidInvite(i) == inv[i].st = "pending" /\ inv[i].live

(* A mutant: the update of the deleted row goes unnoticed.                 *)
RowAssumed(i) == TRUE

(* UPDATE invitations SET accepted_at: no row left to update rolls the     *)
(* transaction back.                                                       *)
RowRemains(i) == inv[i].st # "revoked"

Accepted(i) ==
  /\ inv' = [inv EXCEPT ![i].st = IF @ = "revoked" THEN @ ELSE "accepted"]
  /\ used' = [used EXCEPT ![i] = @ + 1]

RegisterInvite(c) ==
  \E i \in Invs :
    /\ ValidInvite(i)
    /\ ~ \E u \in Users : Lower(u) = inv[i].email
    /\ Begin(c, [op |-> "register", inv |-> i])

CommitRegistration(c) ==
  LET i == call[c].inv
      e == inv[i].email IN
  /\ call[c].op = "register"
  /\ \/ (e \in Users \/ ~RowRemains(i)) /\ Refused(c)
     \/ /\ e \notin Users /\ RowRemains(i)
        /\ default' = [default EXCEPT ![e] = inv[i].org]
        /\ member' = [member EXCEPT ![e][inv[i].org] = inv[i].role]
        /\ Accepted(i)
        /\ Finish(c) /\ UNCHANGED <<orgs, role>>

AcceptInvitation(c) ==
  \E u \in Users, i \in Invs :
    /\ ValidInvite(i)
    /\ Lower(u) = inv[i].email
    /\ Begin(c, [op |-> "accept", inv |-> i, by |-> u,
                 joined |-> member[u][inv[i].org] # "none"])

(* A mutant: nothing keeps a second acceptance from joining.               *)
CommitAcceptanceTwice(c) ==
  LET k == call[c]
      o == inv[k.inv].org IN
  /\ k.op = "accept"
  /\ \/ ~RowRemains(k.inv) /\ Refused(c)
     \/ /\ RowRemains(k.inv)
        /\ member' = [member EXCEPT ![k.by][o] = inv[k.inv].role]
        /\ Accepted(k.inv)
        /\ Finish(c) /\ UNCHANGED <<orgs, default, role>>

(* A member who accepts keeps the old role; only the row is marked.        *)
CommitAcceptance(c) ==
  LET k == call[c]
      o == inv[k.inv].org
      clash == ~k.joined /\ member[k.by][o] # "none" IN
  /\ k.op = "accept"
  /\ \/ (clash \/ ~RowRemains(k.inv)) /\ Refused(c)
     \/ /\ ~clash /\ RowRemains(k.inv)
        /\ \/ /\ ~k.joined
              /\ member' = [member EXCEPT ![k.by][o] = inv[k.inv].role]
              /\ Accepted(k.inv)
           \/ /\ k.joined
              /\ inv' = [inv EXCEPT ![k.inv].st = "accepted"]
              /\ UNCHANGED <<member, used>>
        /\ Finish(c) /\ UNCHANGED <<orgs, default, role>>


(* The target organisation of switch-org becomes the default one.          *)
SwitchOrganization(c) ==
  \E u \in Users, o \in orgs :
    /\ member[u][o] # "none"
    /\ Begin(c, [op |-> "switch", by |-> u, org |-> o])

CommitSwitch(c) ==
  /\ call[c].op = "switch"
  /\ default' = [default EXCEPT ![call[c].by] = call[c].org]
  /\ Finish(c) /\ UNCHANGED <<orgs, member, role, inv, used>>

(* login() gives a user without any organisation a place in the first one. *)
Login(c) ==
  \E u \in Users, o \in orgs :
    /\ \A x \in Orgs : member[u][x] = "none"
    /\ Begin(c, [op |-> "login", by |-> u, org |-> o])

CommitLogin(c) ==
  LET k == call[c] IN
  /\ k.op = "login"
  /\ \/ member[k.by][k.org] # "none" /\ Refused(c)
     \/ /\ member[k.by][k.org] = "none"
        /\ member' = [member EXCEPT ![k.by][k.org] = "member"]
        /\ Finish(c) /\ UNCHANGED <<orgs, default, role, inv, used>>

-----------------------------------------------------------------------------
(* rbac/users_router.py and rbac/roles_router.py                           *)

UpdateUserRole(c) ==
  \E by, u \in Users, o \in orgs, r \in Roles :
    /\ Manages(by, o)
    /\ role[r] # "absent"
    /\ member[u][o] \notin {"none", r}
    /\ Begin(c, [op |-> "user_role", by |-> u, org |-> o, role |-> r])

CommitUserRole(c) ==
  LET k == call[c] IN
  /\ k.op = "user_role"
  /\ member' = [member EXCEPT ![k.by][k.org] = k.role]
  /\ Finish(c) /\ UNCHANGED <<orgs, default, role, inv, used>>

CreateRole(c) ==
  \E by \in Users, o \in orgs, p \in {"plain", "manage"} :
    /\ Manages(by, o)
    /\ role["custom"] = "absent"
    /\ Begin(c, [op |-> "create_role", perms |-> p])

CommitRole(c) ==
  /\ call[c].op = "create_role"
  /\ \/ role["custom"] # "absent" /\ Refused(c)
     \/ /\ role["custom"] = "absent"
        /\ role' = [role EXCEPT !["custom"] = call[c].perms]
        /\ Finish(c) /\ UNCHANGED <<orgs, default, member, inv, used>>

UpdateRole(c) ==
  \E by \in Users, o \in orgs, r \in Roles, p \in {"plain", "manage"} :
    /\ Manages(by, o)
    /\ role[r] \notin {"absent", p}
    /\ Begin(c, [op |-> "update_role", role |-> r, perms |-> p])

CommitRoleUpdate(c) ==
  LET k == call[c] IN
  /\ k.op = "update_role"
  /\ \/ role[k.role] = "absent" /\ Refused(c)
     \/ /\ role[k.role] # "absent"
        /\ role' = [role EXCEPT ![k.role] = k.perms]
        /\ Finish(c) /\ UNCHANGED <<orgs, default, member, inv, used>>

(* The two system roles cannot be deleted; a role in use can.              *)
DeleteRole(c) ==
  \E by \in Users, o \in orgs :
    /\ Manages(by, o)
    /\ role["custom"] # "absent"
    /\ Begin(c, [op |-> "delete_role"])

CommitRoleDelete(c) ==
  /\ call[c].op = "delete_role"
  /\ role' = [role EXCEPT !["custom"] = "absent"]
  /\ Finish(c) /\ UNCHANGED <<orgs, default, member, inv, used>>

-----------------------------------------------------------------------------
(* rbac/initialization.py: seeding, one commit per stage, each deciding on *)
(* what it read after the commit before (`fresh`: the row is missing).     *)
(* Gateways seed at once; a unique key that refuses one of them ends its   *)
(* seeding (the exception is logged), and a restart seeds again.           *)

ReadRoles == [at |-> "roles", fresh |-> role["admin"] = "absent", org |-> "none"]

Seed(g, clash, next) ==
  /\ boot' = [boot EXCEPT ![g] = IF clash THEN [@ EXCEPT !.at = "failed"] ELSE next]
  /\ UNCHANGED <<inv, used, call, begun, crashes>>

(* Any organisation will do: the query has a LIMIT and no ORDER BY.        *)
BootRoles(g) ==
  LET clash == boot[g].fresh /\ role["admin"] # "absent" IN
  /\ boot[g].at = "roles"
  /\ role' = IF clash THEN role
             ELSE [role EXCEPT !["admin"] = "manage", !["member"] = "plain"]
  /\ \E o \in IF orgs = {} THEN {"none"} ELSE orgs :
       Seed(g, clash, [at |-> "org", fresh |-> o = "none", org |-> o])
  /\ UNCHANGED <<orgs, default, member>>

BootOrg(g) ==
  LET b == boot[g]
      clash == b.fresh /\ orgs # {}
      o == IF b.fresh THEN CHOOSE x \in Orgs : TRUE ELSE b.org IN
  /\ b.at = "org"
  /\ orgs' = IF clash THEN orgs ELSE orgs \cup {o}
  /\ Seed(g, clash, [at |-> "user", fresh |-> Root \notin Users, org |-> o])
  /\ UNCHANGED <<default, member, role>>

BootUser(g) ==
  LET b == boot[g]
      clash == b.fresh /\ Root \in Users IN
  /\ b.at = "user"
  /\ default' = IF clash \/ default[Root] \in Orgs THEN default
                ELSE [default EXCEPT ![Root] = b.org]
  /\ Seed(g, clash, [b EXCEPT !.at = "member",
                              !.fresh = member[Root][b.org] = "none"])
  /\ UNCHANGED <<orgs, member, role>>

(* A mutant: a superadmin row that exists is taken for a finished seed.    *)
BootMemberOfNew(g) ==
  LET b == boot[g] IN
  /\ b.at = "member"
  /\ member' = IF b.fresh /\ crashes = 0
                 THEN [member EXCEPT ![Root][b.org] = "admin"] ELSE member
  /\ Seed(g, FALSE, [b EXCEPT !.at = "done"])
  /\ UNCHANGED <<orgs, default, role>>

BootMember(g) ==
  LET b == boot[g]
      clash == b.fresh /\ member[Root][b.org] # "none" IN
  /\ b.at = "member"
  /\ member' = IF clash THEN member ELSE [member EXCEPT ![Root][b.org] = "admin"]
  /\ Seed(g, clash, [b EXCEPT !.at = "done"])
  /\ UNCHANGED <<orgs, default, role>>

(* A gateway is restarted, in the middle of its seeding or later.          *)
Restart(g) ==
  /\ crashes < MaxCrashes
  /\ crashes' = crashes + 1
  /\ boot' = [boot EXCEPT ![g] = ReadRoles]
  /\ UNCHANGED <<orgs, default, member, role, inv, used, call, begun>>

-----------------------------------------------------------------------------
BeginCall(c) ==
  \/ CreateUser(c) \/ CreateOrganization(c) \/ CreateInvitation(c)
  \/ RevokeInvitation(c) \/ RegisterInvite(c) \/ AcceptInvitation(c)
  \/ SwitchOrganization(c) \/ Login(c) \/ UpdateUserRole(c)
  \/ CreateRole(c) \/ UpdateRole(c) \/ DeleteRole(c)

Commit(c) ==
  \/ CommitUser(c) \/ CommitOrganization(c) \/ CommitInvitation(c)
  \/ CommitRevocation(c) \/ CommitRegistration(c) \/ CommitAcceptance(c)
  \/ CommitSwitch(c) \/ CommitLogin(c) \/ CommitUserRole(c)
  \/ CommitRole(c) \/ CommitRoleUpdate(c) \/ CommitRoleDelete(c)

Boot(g) == BootRoles(g) \/ BootOrg(g) \/ BootUser(g) \/ BootMember(g)

Next ==
  \/ \E c \in Calls : BeginCall(c) \/ Commit(c)
  \/ \E i \in Invs : InviteExpires(i)
  \/ \E g \in Gateways : Boot(g) \/ Restart(g)

Spec == Init /\ [][Next]_vars

(* A handler runs on to its commit and a starting gateway runs its seeding *)
(* to the end: nothing in either waits for another request.                *)
Fairness ==
  /\ \A c \in Calls : WF_vars(Commit(c))
  /\ \A g \in Gateways : WF_vars(Boot(g))

FairSpec == Spec /\ Fairness

-----------------------------------------------------------------------------
(* Two spellings of one address have accounts of their own.                *)
Namesakes(e) == \E u, v \in Users : u # v /\ Lower(u) = e /\ Lower(v) = e

(* An invitation gives at most one membership, however its registration    *)
(* and acceptance interleave: both read accepted_at before either writes   *)
(* it, so it is the unique keys on users.email and on the membership that  *)
(* hold it, and they fail to only for accounts create_user has made for    *)
(* two spellings of the invited address.                                   *)
InvitationOnce ==
  \A i \in Invs : used[i] <= 1 \/ Namesakes(inv[i].email)

(* An invitation whose row was deleted gives no membership any more, not   *)
(* even to a handler that had read it while it was pending.                *)
RevokedGrantsNothing ==
  \A i \in Invs : inv[i].st = "revoked" => used'[i] = used[i]

(* The organisation a user lands in at login is one the user belongs to.   *)
(* Only the superadmin may be without it, between the two commits of a     *)
(* seeding that creates the account and then its membership.               *)
DefaultIsMembership ==
  \A u \in Users :
    \/ default[u] \in Orgs /\ member[u][default[u]] # "none"
    \/ u = Root /\ \A o \in Orgs : member[u][o] = "none"

(* However gateways race, fail and restart while they seed, the superadmin *)
(* ends up with the admin role somewhere; or, when a login through another *)
(* gateway made the membership first, with that of a member, and the       *)
(* seeding that was about to insert it has failed.                         *)
SeedCompletes ==
  <>(\E o \in Orgs : \/ member[Root][o] = "admin"
                     \/ /\ member[Root][o] = "member"
                        /\ \E g \in Gateways : boot[g].at = "failed")

=============================================================================
