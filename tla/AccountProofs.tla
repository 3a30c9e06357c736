--------------------------- MODULE AccountProofs ----------------------------
(***************************************************************************)
(* Accounts and their second factor, for any number of users, handlers,    *)
(* gateways and crashes: an invitation is used once, a user lands in an    *)
(* organisation the user belongs to, a login is checked against a secret   *)
(* the user has proven, and a revoked invitation gives nothing.            *)
(***************************************************************************)
EXTENDS Naturals, TLAPS

CONSTANTS
  Orgs, Invs, Given, MaxCalls, MaxCrashes,  \* Accounts
  Emails, Root, Gateways,                   \* Accounts
  Calls,                                    \* Accounts, TwoFactor
  MaxSecrets, MaxTotpCalls                  \* TwoFactor

\* Organisations, members and invitations (Accounts)
VARIABLES
  orgs, default, member, role, inv, used, accCall, accBoot, accBegun, crashes
Acc == INSTANCE Accounts WITH
  call <- accCall, boot <- accBoot, begun <- accBegun

(* The spellings are records, closed under lower-casing.                   *)
AccountConstants ==
  /\ Root \in Emails
  /\ \A u \in Emails : u = [addr |-> u.addr, case |-> u.case] /\ Acc!Lower(u) \in Emails
  /\ Orgs # {} /\ "none" \notin Orgs /\ "absent" \notin Orgs
  /\ Given \subseteq {"admin", "member"}
  /\ MaxCalls \in Nat /\ MaxCrashes \in Nat

Lowered == {Acc!Lower(u) : u \in Emails}

InvRow == [st : {"pending", "accepted", "revoked"}, live : BOOLEAN, org : Orgs,
           email : Lowered, role : Given]

AccShape ==
  /\ orgs \subseteq Orgs
  /\ default \in [Emails -> Orgs \cup {"absent"}]
  /\ member \in [Emails -> [Orgs -> Acc!Roles \cup {"none"}]]
  /\ role \in [Acc!Roles -> {"absent", "plain", "manage"}]
  /\ inv \in [Invs -> InvRow \cup {Acc!NoInv}]
  /\ \A i \in Invs : inv[i] # Acc!NoInv => inv[i].org \in orgs
  /\ used \in [Invs -> Nat]
  /\ accCall = [c \in Calls |-> accCall[c]]
  /\ accBegun \in 0 .. MaxCalls /\ crashes \in 0 .. MaxCrashes

(* What a handler in flight has read and can still rely on.                *)
Joined(u, o) == member[u][o] # "none"
Exists(i) == i \in Invs /\ inv[i] # Acc!NoInv

CallOK(k) ==
  /\ k.op \in {"idle", "create_user", "create_org", "create_invite", "revoke",
               "register", "accept", "switch", "login", "user_role",
               "create_role", "update_role", "delete_role"}
  /\ k.op = "create_user" => k.org \in orgs /\ k.email \in Emails /\ k.role \in Given
  /\ k.op = "create_org" =>
       k.by \in Acc!Users /\ k.org \in Orgs /\ \E o \in Orgs : Joined(k.by, o)
  /\ k.op = "create_invite" =>
       /\ k.inv \in Invs /\ inv[k.inv] = Acc!NoInv
       /\ k.org \in orgs /\ k.email \in Lowered /\ k.role \in Given
  /\ k.op \in {"revoke", "register"} => Exists(k.inv)
  /\ k.op = "accept" =>
       /\ Exists(k.inv) /\ k.by \in Acc!Users /\ Acc!Lower(k.by) = inv[k.inv].email
       /\ k.joined \in BOOLEAN
  /\ k.op = "switch" => k.by \in Acc!Users /\ k.org \in orgs /\ Joined(k.by, k.org)
  /\ k.op = "login" => k.by = Root /\ k.org \in orgs /\ Root \in Acc!Users
  /\ k.op = "user_role" => k.by \in Acc!Users /\ k.org \in orgs /\ k.role \in Acc!Roles
  /\ k.op = "create_role" => k.perms \in {"plain", "manage"}
  /\ k.op = "update_role" => k.role \in Acc!Roles /\ k.perms \in {"plain", "manage"}

InFlight ==
  /\ \A c \in Calls : CallOK(accCall[c])
  /\ \A c, d \in Calls :
       accCall[c].op = "create_invite" /\ accCall[d].op = "create_invite"
         /\ accCall[c].inv = accCall[d].inv => c = d

(* Until the superadmin has a membership there are no other users, at most *)
(* one organisation and nothing in flight but logins.                      *)
First == CHOOSE x \in Orgs : TRUE

BootRow == [at : {"roles", "org", "user", "member", "done", "failed"},
            fresh : BOOLEAN, org : Orgs \cup {"none"}]

BootOK(b) ==
  /\ b \in BootRow
  /\ b.at = "org" /\ ~b.fresh => b.org \in orgs
  /\ b.at \in {"user", "member", "done"} => b.org \in orgs
  /\ b.at = "member" => Root \in Acc!Users

Seeding ==
  /\ accBoot = [g \in Gateways |-> accBoot[g]]
  /\ \A g \in Gateways : BootOK(accBoot[g])
  /\ \A u \in Emails : u \notin Acc!Users => \A o \in Orgs : ~Joined(u, o)
  /\ \A c \in Calls : accCall[c].op = "login" => accCall[c].org = First
  /\ \/ Joined(Root, First)
     \/ /\ \A u \in Emails : u # Root => u \notin Acc!Users
        /\ \A o \in Orgs : ~Joined(Root, o)
        /\ orgs \subseteq {First} /\ default[Root] \in {"absent", First}
        /\ \A c \in Calls : accCall[c].op \in {"idle", "login"}
        /\ \A i \in Invs : inv[i] = Acc!NoInv

(* The members an invitation can have given.                               *)
Guests(i) == {u \in Acc!Users : Acc!Lower(u) = inv[i].email /\ Joined(u, inv[i].org)}

Counted ==
  \A i \in Invs : /\ inv[i] = Acc!NoInv => used[i] = 0
                  /\ used[i] > 0 => Guests(i) # {}
                  /\ used[i] > 1 => \E u, v \in Guests(i) : u # v

Landing ==
  \A u \in Acc!Users : \/ default[u] \in Orgs /\ Joined(u, default[u])
                       \/ u = Root /\ \A o \in Orgs : ~Joined(u, o)

AccInv == AccShape /\ InFlight /\ Seeding /\ Counted /\ Landing

(* Rows are never deleted but for invitations, whose number is not reused. *)
Grows ==
  /\ orgs \subseteq orgs'
  /\ \A u \in Acc!Users : u \in Acc!Users'
  /\ \A u \in Emails, o \in Orgs : Joined(u, o) => Joined(u, o)'
  /\ \A i \in Invs : inv[i] # Acc!NoInv =>
       inv'[i] # Acc!NoInv /\ inv'[i].org = inv[i].org /\ inv'[i].email = inv[i].email

(* An invitation is addressed to a spelling in lower case.                 *)
LEMMA LowerCase ==
  ASSUME AccountConstants, NEW e \in Lowered
  PROVE  e \in Emails /\ Acc!Lower(e) = e /\ e.case = "lower"
<1>1. PICK u \in Emails : e = Acc!Lower(u)
  BY DEF Lowered
<1>2. u = [addr |-> u.addr, case |-> u.case] /\ e \in Emails
  BY <1>1 DEF AccountConstants
<1>3. e = [addr |-> u.addr, case |-> "lower"]
  BY <1>1, <1>2 DEF Acc!Lower
<1> QED
  BY <1>2, <1>3 DEF Acc!Lower

(* The organisation that a bootstrap finds first exists as a value.        *)
LEMMA FirstIsOrg ==
  ASSUME AccountConstants PROVE First \in Orgs
BY DEF First, AccountConstants

(* A row of the table is not the absent one.                               *)
LEMMA RowIsNotNone ==
  ASSUME NEW r \in InvRow PROVE r # Acc!NoInv
BY DEF InvRow, Acc!NoInv

(* What a handler in flight relies on outlives a commit of another one     *)
(* that deletes no row but those of invitations.                           *)
LEMMA CallStays ==
  ASSUME AccountConstants, AccShape, Grows, NEW k, CallOK(k),
         k.op = "create_invite" => inv'[k.inv] = Acc!NoInv
  PROVE  CallOK(k)'
<1>1. k.op = "create_user" => k.org \in orgs' /\ k.email \in Emails /\ k.role \in Given
  BY DEF CallOK, Grows
<1>2. k.op = "create_org" =>
        k.by \in Acc!Users' /\ k.org \in Orgs /\ \E o \in Orgs : Joined(k.by, o)'
  BY DEF CallOK, Grows, Acc!Users
<1>3. k.op = "create_invite" =>
       /\ k.inv \in Invs /\ inv'[k.inv] = Acc!NoInv
       /\ k.org \in orgs' /\ k.email \in Lowered /\ k.role \in Given
  BY DEF CallOK, Grows
<1>4. k.op \in {"revoke", "register"} => Exists(k.inv)'
  BY DEF CallOK, Grows, Exists
<1>5. k.op = "accept" =>
       /\ Exists(k.inv)' /\ k.by \in Acc!Users' /\ Acc!Lower(k.by) = inv'[k.inv].email
       /\ k.joined \in BOOLEAN
  BY DEF CallOK, Grows, Exists
<1>6. k.op = "switch" => k.by \in Acc!Users' /\ k.org \in orgs' /\ Joined(k.by, k.org)'
  BY DEF CallOK, Grows, Acc!Users, AccShape
<1>7. k.op = "login" => k.by = Root /\ k.org \in orgs' /\ Root \in Acc!Users'
  BY DEF CallOK, Grows
<1>8. k.op = "user_role" => k.by \in Acc!Users' /\ k.org \in orgs' /\ k.role \in Acc!Roles
  BY DEF CallOK, Grows
<1> QED
  BY <1>1, <1>2, <1>3, <1>4, <1>5, <1>6, <1>7, <1>8 DEF CallOK

(* The members that an invitation can have given stay members.             *)
LEMMA GuestsStay ==
  ASSUME AccountConstants, AccShape, Grows, NEW i \in Invs, inv[i] # Acc!NoInv
  PROVE  Guests(i) \subseteq Guests(i)'
<1>1. inv'[i].email = inv[i].email /\ inv'[i].org = inv[i].org /\ inv[i].org \in Orgs
  BY DEF Grows, AccShape
<1> QED
  BY <1>1 DEF Guests, Grows, Acc!Users

(* A step that takes up no invitation leaves every count accounted for.    *)
LEMMA CountedStays ==
  ASSUME AccountConstants, AccInv, Grows, UNCHANGED used PROVE Counted'
<1>1. ASSUME NEW i \in Invs
      PROVE  /\ inv'[i] = Acc!NoInv => used[i] = 0
             /\ used[i] > 0 => Guests(i)' # {}
             /\ used[i] > 1 => \E u, v \in Guests(i)' : u # v
  <2>1. CASE inv[i] = Acc!NoInv
    BY <2>1 DEF AccInv, Counted
  <2>2. CASE inv[i] # Acc!NoInv
    BY <2>2, GuestsStay DEF AccInv, Counted, Grows
  <2> QED
    BY <2>1, <2>2
<1> QED
  BY <1>1 DEF Counted

(* Each use of an invitation makes a member who was not one before.        *)
LEMMA CountedUse ==
  ASSUME AccountConstants, AccInv, Grows, NEW i \in Invs, inv[i] # Acc!NoInv,
         used' = [used EXCEPT ![i] = @ + 1], \A j \in Invs : j # i => inv'[j] = inv[j],
         NEW u, u \in Guests(i)', u \notin Guests(i)
  PROVE  Counted'
<1>1. ASSUME NEW j \in Invs
      PROVE  /\ inv'[j] = Acc!NoInv => used'[j] = 0
             /\ used'[j] > 0 => Guests(j)' # {}
             /\ used'[j] > 1 => \E w, v \in Guests(j)' : w # v
  <2>1. used \in [Invs -> Nat]
    BY DEF AccInv, AccShape
  <2>2. CASE inv[j] = Acc!NoInv
    BY <2>1, <2>2 DEF AccInv, Counted
  <2>3. CASE inv[j] # Acc!NoInv /\ j # i
    BY <2>1, <2>3, GuestsStay DEF AccInv, Counted, Grows
  <2>4. CASE j = i
    <3>1. used'[i] = used[i] + 1 /\ used[i] \in Nat
      BY <2>1
    <3>2. Guests(i) \subseteq Guests(i)' /\ inv'[i] # Acc!NoInv
      BY GuestsStay DEF AccInv, Grows
    <3>3. used[i] > 0 => Guests(i) # {}
      BY DEF AccInv, Counted
    <3> QED
      BY <2>4, <3>1, <3>2, <3>3
  <2> QED
    BY <2>2, <2>3, <2>4
<1> QED
  BY <1>1 DEF Counted

(* The invariant holds of an empty database and of one that is seeded.     *)
LEMMA AccountsInit ==
  ASSUME AccountConstants, Acc!Init PROVE AccInv
<1>1. First \in Orgs
  BY FirstIsOrg
<1>2. Counted
  BY DEF Acc!Init, Counted
<1>3. InFlight
  BY DEF Acc!Init, InFlight, CallOK, Acc!Idle
<1>4. CASE Acc!Empty
  <2>1. AccShape
    BY <1>4 DEF Acc!Init, Acc!Empty, AccShape, Acc!Roles, Acc!NoInv, AccountConstants
  <2>2. Seeding
    BY <1>4, <1>1 DEF Acc!Init, Acc!Empty, Seeding, BootOK, Acc!Users, Joined,
         Acc!Idle, AccountConstants, BootRow
  <2>3. Landing
    BY <1>4 DEF Acc!Empty, Landing, Acc!Users
  <2> QED
    BY <1>2, <1>3, <2>1, <2>2, <2>3 DEF AccInv
<1>5. CASE Acc!InUse
  <2>1. PICK home \in Orgs :
           /\ orgs = Orgs
           /\ default = [u \in Emails |-> home]
           /\ member = [u \in Emails |-> [o \in Orgs |->
                 IF u = Root THEN "admin" ELSE IF o = home THEN "member" ELSE "none"]]
           /\ role = [r \in Acc!Roles |-> IF r = "admin" THEN "manage" ELSE "plain"]
           /\ accBoot = [g \in Gateways |-> [at |-> "done", fresh |-> FALSE, org |-> home]]
           /\ crashes = MaxCrashes
    BY <1>5, Zenon DEF Acc!InUse
  <2>2. inv \in [Invs -> InvRow \cup {Acc!NoInv}]
    <3>1. CASE inv = [i \in Invs |-> Acc!NoInv]
      BY <3>1
    <3>2. CASE \E i \in Invs, o \in Orgs, e \in Lowered, r \in Given :
                  inv = [j \in Invs |-> IF j # i THEN Acc!NoInv
                           ELSE [st |-> "pending", live |-> TRUE, org |-> o,
                                 email |-> e, role |-> r]]
      <4>1. PICK i \in Invs, o \in Orgs, e \in Lowered, r \in Given :
                  inv = [j \in Invs |-> IF j # i THEN Acc!NoInv
                           ELSE [st |-> "pending", live |-> TRUE, org |-> o,
                                 email |-> e, role |-> r]]
        BY <3>2, Zenon
      <4>2. [st |-> "pending", live |-> TRUE, org |-> o, email |-> e, role |-> r] \in InvRow
        BY DEF InvRow
      <4> QED
        BY <4>1, <4>2
    <3> QED
      BY <1>5, <3>1, <3>2, Zenon DEF Acc!InUse, Lowered
  <2>3. AccShape
    <3>1. \A i \in Invs : inv[i] # Acc!NoInv => inv[i].org \in orgs
      BY <2>1, <2>2 DEF InvRow
    <3> QED
      BY <2>1, <2>2, <3>1 DEF Acc!Init, AccShape, Acc!Roles, AccountConstants
  <2>4. Acc!Users = Emails
    BY <2>1 DEF Acc!Users, AccountConstants
  <2>5. Joined(Root, First) /\ \A u \in Emails : Joined(u, home)
    BY <1>1, <2>1 DEF Joined, AccountConstants
  <2>6. Seeding
    BY <2>1, <2>4, <2>5 DEF Acc!Init, Seeding, BootOK, Acc!Idle, AccountConstants,
         BootRow
  <2>7. Landing
    BY <2>1, <2>4, <2>5 DEF Landing
  <2> QED
    BY <1>2, <1>3, <2>3, <2>6, <2>7 DEF AccInv
<1> QED
  BY <1>4, <1>5 DEF Acc!Init

-----------------------------------------------------------------------------
(* Who may manage an organisation is a member of one.                      *)
LEMMA ManagerIsJoined ==
  ASSUME AccountConstants, AccInv, NEW by \in Acc!Users, NEW o \in orgs, Acc!Manages(by, o)
  PROVE  by \in Emails /\ o \in Orgs /\ Joined(by, o) /\ Joined(Root, First)
BY DEF Acc!Manages, AccInv, AccShape, Seeding, Joined, Acc!Users

(* A handler that has read its rows and written nothing disturbs nobody.   *)
LEMMA BeginKeeps ==
  ASSUME AccountConstants, AccInv, NEW c \in Calls, NEW r, Acc!Begin(c, r), CallOK(r),
         r.op = "create_invite" =>
            \A d \in Calls : accCall[d].op = "create_invite" => accCall[d].inv # r.inv,
         r.op = "login" => r.org = First,
         Joined(Root, First) \/ r.op = "login"
  PROVE  AccInv'
<1>1. /\ accCall' = [accCall EXCEPT ![c] = r] /\ accBegun' = accBegun + 1 /\ accBegun < MaxCalls
      /\ UNCHANGED <<orgs, default, member, role, inv, used, accBoot, crashes>>
  BY DEF Acc!Begin
<1>2. accCall = [d \in Calls |-> accCall[d]]
  BY DEF AccInv, AccShape
<1>3. accCall'[c] = r /\ \A d \in Calls : d # c => accCall'[d] = accCall[d]
  BY <1>1, <1>2
<1>4. AccShape'
  <2>1. accBegun' \in 0 .. MaxCalls
    BY <1>1 DEF AccInv, AccShape, AccountConstants
  <2>2. accCall' = [d \in Calls |-> accCall'[d]]
    BY <1>1, <1>2
  <2> QED
    BY <1>1, <2>1, <2>2 DEF AccInv, AccShape
<1>5. InFlight'
  <2>1. ASSUME NEW d \in Calls PROVE CallOK(accCall[d])'
    <3>1. CallOK(accCall'[d])
      BY <1>3 DEF AccInv, InFlight
    <3> QED
      BY <1>1, <3>1 DEF CallOK, Acc!Users, Joined, Exists
  <2>3. \A d, e \in Calls :
          accCall'[d].op = "create_invite" /\ accCall'[e].op = "create_invite"
             /\ accCall'[d].inv = accCall'[e].inv => d = e
    BY <1>3 DEF AccInv, InFlight
  <2> QED
    BY <2>1, <2>3 DEF InFlight
<1>6. Seeding'
  <2>1. \A d \in Calls : accCall'[d].op = "login" => accCall'[d].org = First
    BY <1>3 DEF AccInv, Seeding
  <2>2. \A g \in Gateways : BootOK(accBoot[g])'
    BY <1>1 DEF AccInv, Seeding, BootOK, Acc!Users
  <2>3. (\A d \in Calls : accCall[d].op \in {"idle", "login"}) /\ r.op = "login"
          => \A d \in Calls : accCall'[d].op \in {"idle", "login"}
    BY <1>3
  <2> QED
    BY <1>1, <2>1, <2>2, <2>3 DEF AccInv, Seeding, BootOK, Acc!Users, Joined
<1>7. Counted'
  BY <1>1 DEF AccInv, Counted, Guests, Acc!Users, Joined
<1>8. Landing'
  BY <1>1 DEF AccInv, Landing, Acc!Users, Joined
<1> QED
  BY <1>4, <1>5, <1>6, <1>7, <1>8 DEF AccInv

(* Each handler reads what its commit will rely on.                        *)
LEMMA BeginCallKeeps ==
  ASSUME AccountConstants, AccInv, NEW c \in Calls, Acc!BeginCall(c) PROVE AccInv'
<1>1. CASE Acc!CreateUser(c)
  <2>1. PICK by \in Acc!Users, o \in orgs, e \in Emails, r \in Given :
           Acc!Manages(by, o) /\ Acc!Begin(c, [op |-> "create_user", org |-> o, email |-> e, role |-> r])
    BY <1>1 DEF Acc!CreateUser
  <2>2. CallOK([op |-> "create_user", org |-> o, email |-> e, role |-> r])
    BY DEF CallOK
  <2> QED
    BY <2>1, <2>2, ManagerIsJoined, BeginKeeps
<1>2. CASE Acc!CreateOrganization(c)
  <2>1. PICK by \in Acc!Users, o \in orgs, new \in Orgs :
           Acc!Manages(by, o) /\ Acc!Begin(c, [op |-> "create_org", by |-> by, org |-> new])
    BY <1>2 DEF Acc!CreateOrganization
  <2>2. CallOK([op |-> "create_org", by |-> by, org |-> new])
    BY <2>1, ManagerIsJoined DEF CallOK
  <2> QED
    BY <2>1, <2>2, ManagerIsJoined, BeginKeeps
<1>3. CASE Acc!CreateInvitation(c)
  <2>1. PICK by \in Acc!Users, o \in orgs, e \in Lowered, r \in Given, i \in Invs :
           /\ Acc!Manages(by, o)
           /\ inv[i] = Acc!NoInv
           /\ \A d \in Calls : accCall[d].op = "create_invite" => accCall[d].inv # i
           /\ Acc!Begin(c, [op |-> "create_invite", inv |-> i, org |-> o,
                        email |-> e, role |-> r])
    BY <1>3, Zenon DEF Acc!CreateInvitation, Lowered
  <2>2. CallOK([op |-> "create_invite", inv |-> i, org |-> o, email |-> e, role |-> r])
    BY <2>1 DEF CallOK
  <2> QED
    BY <2>1, <2>2, ManagerIsJoined, BeginKeeps
<1>4. ASSUME NEW i \in Invs, inv[i].st \in {"pending", "accepted"}
      PROVE  Exists(i) /\ inv[i] \in InvRow /\ Joined(Root, First)
  BY <1>4 DEF Exists, AccInv, AccShape, Acc!NoInv, Seeding
<1>5. CASE Acc!RevokeInvitation(c)
  <2>1. PICK i \in Invs : /\ inv[i].st \in {"pending", "accepted"}
                          /\ Acc!Begin(c, [op |-> "revoke", inv |-> i])
    BY <1>5 DEF Acc!RevokeInvitation
  <2>2. CallOK([op |-> "revoke", inv |-> i])
    BY <1>4, <2>1 DEF CallOK
  <2> QED
    BY <1>4, <2>1, <2>2, BeginKeeps
<1>6. CASE Acc!RegisterInvite(c)
  <2>1. PICK i \in Invs : /\ inv[i].st \in {"pending", "accepted"}
                          /\ Acc!Begin(c, [op |-> "register", inv |-> i])
    BY <1>6 DEF Acc!RegisterInvite, Acc!ValidInvite
  <2>2. CallOK([op |-> "register", inv |-> i])
    BY <1>4, <2>1 DEF CallOK
  <2> QED
    BY <1>4, <2>1, <2>2, BeginKeeps
<1>7. CASE Acc!AcceptInvitation(c)
  <2>1. PICK u \in Acc!Users, i \in Invs :
           /\ inv[i].st \in {"pending", "accepted"} /\ Acc!Lower(u) = inv[i].email
           /\ Acc!Begin(c, [op |-> "accept", inv |-> i, by |-> u,
                        joined |-> member[u][inv[i].org] # "none"])
    BY <1>7 DEF Acc!AcceptInvitation, Acc!ValidInvite
  <2> DEFINE j == member[u][inv[i].org] # "none"
  <2>2. j \in BOOLEAN
    BY Zenon
  <2> HIDE DEF j
  <2>3. CallOK([op |-> "accept", inv |-> i, by |-> u, joined |-> j])
    BY <1>4, <2>1, <2>2 DEF CallOK
  <2>4. Acc!Begin(c, [op |-> "accept", inv |-> i, by |-> u, joined |-> j])
    BY <2>1 DEF j
  <2> QED
    BY <1>4, <2>1, <2>3, <2>4, BeginKeeps
<1>8. CASE Acc!SwitchOrganization(c)
  <2>1. PICK u \in Acc!Users, o \in orgs :
           Joined(u, o) /\ Acc!Begin(c, [op |-> "switch", by |-> u, org |-> o])
    BY <1>8 DEF Acc!SwitchOrganization, Joined
  <2>2. CallOK([op |-> "switch", by |-> u, org |-> o])
    BY <2>1 DEF CallOK
  <2>3. Joined(Root, First)
    BY <2>1 DEF AccInv, AccShape, Seeding, Acc!Users
  <2> QED
    BY <2>1, <2>2, <2>3, BeginKeeps
<1>9. CASE Acc!Login(c)
  <2>1. PICK u \in Acc!Users, o \in orgs :
           /\ \A x \in Orgs : ~Joined(u, x)
           /\ Acc!Begin(c, [op |-> "login", by |-> u, org |-> o])
    BY <1>9 DEF Acc!Login, Joined
  <2>2. u = Root /\ ~Joined(Root, First)
    BY <2>1, FirstIsOrg DEF AccInv, Landing
  <2>3. o = First
    BY <2>2 DEF AccInv, Seeding
  <2>4. CallOK([op |-> "login", by |-> u, org |-> o])
    BY <2>2 DEF CallOK
  <2> QED
    BY <2>1, <2>2, <2>3, <2>4, BeginKeeps
<1>10. CASE Acc!UpdateUserRole(c)
  <2>1. PICK by \in Acc!Users, u \in Acc!Users, o \in orgs, r \in Acc!Roles :
           Acc!Manages(by, o) /\ Acc!Begin(c, [op |-> "user_role", by |-> u, org |-> o, role |-> r])
    BY <1>10 DEF Acc!UpdateUserRole
  <2>2. CallOK([op |-> "user_role", by |-> u, org |-> o, role |-> r])
    BY <2>1 DEF CallOK
  <2> QED
    BY <2>1, <2>2, ManagerIsJoined, BeginKeeps
<1>11. CASE Acc!CreateRole(c)
  <2>1. PICK by \in Acc!Users, o \in orgs, p \in {"plain", "manage"} :
           Acc!Manages(by, o) /\ Acc!Begin(c, [op |-> "create_role", perms |-> p])
    BY <1>11 DEF Acc!CreateRole
  <2>2. CallOK([op |-> "create_role", perms |-> p])
    BY DEF CallOK
  <2> QED
    BY <2>1, <2>2, ManagerIsJoined, BeginKeeps
<1>12. CASE Acc!UpdateRole(c)
  <2>1. PICK by \in Acc!Users, o \in orgs, r \in Acc!Roles, p \in {"plain", "manage"} :
           Acc!Manages(by, o) /\ Acc!Begin(c, [op |-> "update_role", role |-> r, perms |-> p])
    BY <1>12 DEF Acc!UpdateRole
  <2>2. CallOK([op |-> "update_role", role |-> r, perms |-> p])
    BY DEF CallOK
  <2> QED
    BY <2>1, <2>2, ManagerIsJoined, BeginKeeps
<1>13. CASE Acc!DeleteRole(c)
  <2>1. PICK by \in Acc!Users, o \in orgs : Acc!Manages(by, o) /\ Acc!Begin(c, [op |-> "delete_role"])
    BY <1>13 DEF Acc!DeleteRole
  <2>2. CallOK([op |-> "delete_role"])
    BY DEF CallOK
  <2> QED
    BY <2>1, <2>2, ManagerIsJoined, BeginKeeps
<1> QED
  BY <1>1, <1>2, <1>3, <1>5, <1>6, <1>7, <1>8, <1>9, <1>10, <1>11, <1>12, <1>13
  DEF Acc!BeginCall

-----------------------------------------------------------------------------
(* What a commit has to show; all but a login's find the superadmin in     *)
(* place.                                                                  *)
LEMMA FinishKeeps ==
  ASSUME AccountConstants, AccInv, NEW c \in Calls, Acc!Finish(c), Grows,
         orgs' \subseteq Orgs,
         default' \in [Emails -> Orgs \cup {"absent"}],
         member' \in [Emails -> [Orgs -> Acc!Roles \cup {"none"}]],
         role' \in [Acc!Roles -> {"absent", "plain", "manage"}],
         inv' \in [Invs -> InvRow \cup {Acc!NoInv}],
         \A i \in Invs : inv'[i] # Acc!NoInv => inv'[i].org \in orgs',
         used' \in [Invs -> Nat],
         \A d \in Calls : d # c /\ accCall[d].op = "create_invite" => inv'[accCall[d].inv] = Acc!NoInv,
         Joined(Root, First)',
         \A u \in Emails : u \notin Acc!Users' => \A o \in Orgs : ~Joined(u, o)',
         Counted', Landing'
  PROVE  AccInv'
<1>1. accCall' = [accCall EXCEPT ![c] = Acc!Idle] /\ UNCHANGED <<accBoot, accBegun, crashes>>
  BY DEF Acc!Finish
<1>2. accCall = [d \in Calls |-> accCall[d]]
  BY DEF AccInv, AccShape
<1>3. accCall'[c] = Acc!Idle /\ \A d \in Calls : d # c => accCall'[d] = accCall[d]
  BY <1>1, <1>2
<1>4. AccShape'
  <2>1. accCall' = [d \in Calls |-> accCall'[d]]
    BY <1>1, <1>2
  <2> QED
    BY <1>1, <2>1 DEF AccInv, AccShape
<1>5. InFlight'
  <2>1. ASSUME NEW d \in Calls PROVE CallOK(accCall[d])'
    <3>1. CASE d = c
      BY <1>3, <3>1 DEF CallOK, Acc!Idle
    <3>2. CASE d # c
      <4> DEFINE k == accCall[d]
      <4>1. CallOK(k) /\ (k.op = "create_invite" => inv'[k.inv] = Acc!NoInv) /\ accCall'[d] = k
        BY <1>3, <3>2 DEF AccInv, InFlight
      <4>2. ASSUME NEW x, CallOK(x), x.op = "create_invite" => inv'[x.inv] = Acc!NoInv
            PROVE  CallOK(x)'
        BY <4>2, CallStays DEF AccInv
      <4> HIDE DEF k
      <4> QED
        BY <4>1, <4>2 DEF CallOK
    <3> QED
      BY <3>1, <3>2
  <2>2. \A d, e \in Calls :
          accCall'[d].op = "create_invite" /\ accCall'[e].op = "create_invite"
             /\ accCall'[d].inv = accCall'[e].inv => d = e
    BY <1>3 DEF AccInv, InFlight, Acc!Idle
  <2> QED
    BY <2>1, <2>2 DEF InFlight
<1>6. Seeding'
  <2>1. \A g \in Gateways : BootOK(accBoot[g])'
    BY <1>1 DEF AccInv, Seeding, BootOK, Grows
  <2>2. \A d \in Calls : accCall'[d].op = "login" => accCall'[d].org = First
    BY <1>3 DEF AccInv, Seeding, Acc!Idle
  <2> QED
    BY <1>1, <2>1, <2>2 DEF AccInv, Seeding
<1> QED
  BY <1>4, <1>5, <1>6 DEF AccInv

(* A handler that ends with an error has written nothing.                  *)
LEMMA RefusedKeeps ==
  ASSUME AccountConstants, AccInv, NEW c \in Calls, Acc!Refused(c) PROVE AccInv'
<1>1. /\ accCall' = [accCall EXCEPT ![c] = Acc!Idle]
      /\ UNCHANGED <<accBoot, accBegun, crashes, orgs, default, member, role, inv, used>>
  BY DEF Acc!Refused, Acc!Finish
<1>2. Grows
  BY <1>1 DEF Grows, Acc!Users, Joined
<1>3. CASE Joined(Root, First)
  <2>1. Counted'
    BY <1>1 DEF AccInv, Counted, Guests, Acc!Users, Joined
  <2>2. Landing'
    BY <1>1 DEF AccInv, Landing, Acc!Users, Joined
  <2>3. \A u \in Emails : u \notin Acc!Users' => \A o \in Orgs : ~Joined(u, o)'
    BY <1>1 DEF AccInv, Seeding, Acc!Users, Joined
  <2>4. \A d \in Calls : d # c /\ accCall[d].op = "create_invite" => inv'[accCall[d].inv] = Acc!NoInv
    BY <1>1 DEF AccInv, InFlight, CallOK
  <2>5. Acc!Finish(c) /\ Joined(Root, First)'
    BY <1>1, <1>3 DEF Acc!Refused, Joined
  <2> QED
    BY <1>1, <1>2, <2>1, <2>2, <2>3, <2>4, <2>5, FinishKeeps DEF AccInv, AccShape
<1>4. CASE ~Joined(Root, First)
  <2>1. accCall = [d \in Calls |-> accCall[d]]
    BY DEF AccInv, AccShape
  <2>2. accCall'[c] = Acc!Idle /\ \A d \in Calls : d # c => accCall'[d] = accCall[d]
    BY <1>1, <2>1
  <2>3. AccShape'
    <3>1. accCall' = [d \in Calls |-> accCall'[d]]
      BY <1>1, <2>1
    <3> QED
      BY <1>1, <3>1 DEF AccInv, AccShape
  <2>4. InFlight'
    <3>1. ASSUME NEW d \in Calls PROVE CallOK(accCall[d])'
      <4>1. CallOK(accCall'[d])
        BY <2>2 DEF AccInv, InFlight, CallOK, Acc!Idle
      <4> QED
        BY <1>1, <4>1, Zenon DEF CallOK, Acc!Users, Joined, Exists
    <3>2. \A d, e \in Calls :
            accCall'[d].op = "create_invite" /\ accCall'[e].op = "create_invite"
               /\ accCall'[d].inv = accCall'[e].inv => d = e
      BY <2>2 DEF AccInv, InFlight, Acc!Idle
    <3> QED
      BY <3>1, <3>2 DEF InFlight
  <2>5. Seeding'
    <3>1. \A g \in Gateways : BootOK(accBoot[g])'
      BY <1>1 DEF AccInv, Seeding, BootOK, Acc!Users
    <3>2. \A d \in Calls : /\ accCall'[d].op = "login" => accCall'[d].org = First
                           /\ accCall'[d].op \in {"idle", "login"}
      BY <1>4, <2>2 DEF AccInv, Seeding, Acc!Idle
    <3> QED
      BY <1>1, <1>4, <3>1, <3>2 DEF AccInv, Seeding, BootOK, Acc!Users, Joined
  <2>6. Counted' /\ Landing'
    BY <1>1 DEF AccInv, Counted, Landing, Guests, Acc!Users, Joined
  <2> QED
    BY <2>3, <2>4, <2>5, <2>6 DEF AccInv
<1> QED
  BY <1>3, <1>4

(* A commit that adds a membership, and perhaps the account it is for.     *)
LEMMA JoinGrows ==
  ASSUME AccountConstants, AccInv, NEW u \in Emails, NEW o \in Orgs, NEW r \in Acc!Roles,
         member' = [member EXCEPT ![u][o] = r],
         orgs \subseteq orgs', \A v \in Acc!Users : v \in Acc!Users',
         \A i \in Invs : inv[i] # Acc!NoInv =>
            inv'[i] # Acc!NoInv /\ inv'[i].org = inv[i].org /\ inv'[i].email = inv[i].email
  PROVE  /\ Grows /\ member' \in [Emails -> [Orgs -> Acc!Roles \cup {"none"}]]
         /\ Joined(u, o)'
         /\ \A v \in Emails, p \in Orgs : v # u \/ p # o => member'[v][p] = member[v][p]
<1>1. member \in [Emails -> [Orgs -> Acc!Roles \cup {"none"}]]
  BY DEF AccInv, AccShape
<1>2. \A v \in Emails, p \in Orgs :
        member'[v][p] = IF v = u /\ p = o THEN r ELSE member[v][p]
  BY <1>1
<1>3. member' \in [Emails -> [Orgs -> Acc!Roles \cup {"none"}]]
  BY <1>1
<1>4. r # "none"
  BY DEF Acc!Roles
<1> QED
  BY <1>2, <1>3, <1>4 DEF Grows, Joined

(* Creating a user writes the account and its membership together.         *)
LEMMA CommitUserKeeps ==
  ASSUME AccountConstants, AccInv, NEW c \in Calls, Acc!CommitUser(c) PROVE AccInv'
<1>0. PICK k : k = accCall[c]
  OBVIOUS
<1>1. CASE k.email \in Acc!Users /\ Acc!Refused(c)
  BY <1>1, RefusedKeeps
<1>2. CASE /\ k.email \notin Acc!Users
           /\ default' = [default EXCEPT ![k.email] = k.org]
           /\ member' = [member EXCEPT ![k.email][k.org] = k.role]
           /\ Acc!Finish(c) /\ UNCHANGED <<orgs, role, inv, used>>
  <2>1. /\ k.op = "create_user" /\ k.org \in orgs /\ k.org \in Orgs /\ k.org # "absent"
        /\ k.email \in Emails /\ k.role \in Given /\ k.role \in Acc!Roles
    BY <1>0 DEF Acc!CommitUser, AccInv, InFlight, CallOK, AccShape, AccountConstants,
         Acc!Roles
  <2>2. Joined(Root, First)
    BY <1>0, <2>1 DEF AccInv, Seeding
  <2>3. default \in [Emails -> Orgs \cup {"absent"}]
    BY DEF AccInv, AccShape
  <2>4. \A u \in Emails : default'[u] = IF u = k.email THEN k.org ELSE default[u]
    BY <1>2, <2>1, <2>3
  <2>5. Acc!Users' = Acc!Users \cup {k.email}
    BY <2>1, <2>4 DEF Acc!Users
  <2>6. /\ Grows /\ member' \in [Emails -> [Orgs -> Acc!Roles \cup {"none"}]]
        /\ Joined(k.email, k.org)'
        /\ \A v \in Emails, p \in Orgs : v # k.email \/ p # k.org
                                           => member'[v][p] = member[v][p]
    BY <1>2, <2>1, <2>5, JoinGrows, Zenon
  <2>7. Counted'
    BY <1>2, <2>6, CountedStays
  <2>8. Landing'
    <3>1. ASSUME NEW u \in Acc!Users'
          PROVE  \/ default'[u] \in Orgs /\ Joined(u, default[u])'
                 \/ u = Root /\ \A o \in Orgs : ~Joined(u, o)'
      <4>1. CASE u = k.email
        BY <2>1, <2>4, <2>6, <4>1 DEF Joined
      <4>2. CASE u # k.email
        BY <2>1, <2>4, <2>5, <2>6, <4>2 DEF AccInv, Landing, Joined, Acc!Users
      <4> QED
        BY <4>1, <4>2
    <3> QED
      BY <3>1 DEF Landing
  <2>9. \A u \in Emails : u \notin Acc!Users' => \A o \in Orgs : ~Joined(u, o)'
    BY <2>5, <2>6 DEF AccInv, Seeding, Joined
  <2>10. Joined(Root, First)'
    BY <2>2, <2>6, FirstIsOrg DEF Grows, AccountConstants
  <2>11. \A d \in Calls : d # c /\ accCall[d].op = "create_invite" => inv'[accCall[d].inv] = Acc!NoInv
    BY <1>2 DEF AccInv, InFlight, CallOK
  <2>12. default' \in [Emails -> Orgs \cup {"absent"}]
    BY <1>2, <2>1, <2>3
  <2> QED
    BY <1>2, <2>6, <2>7, <2>8, <2>9, <2>10, <2>11, <2>12, FinishKeeps DEF AccInv,
         AccShape
<1> QED
  BY <1>0, <1>1, <1>2 DEF Acc!CommitUser

(* A membership that is written over stays a membership.                   *)
LEMMA MembersStay ==
  ASSUME AccountConstants, AccInv, UNCHANGED <<default, member>>, Joined(Root, First)
  PROVE  /\ Joined(Root, First)' /\ Landing'
         /\ \A u \in Emails : u \notin Acc!Users' => \A o \in Orgs : ~Joined(u, o)'
BY DEF AccInv, Landing, Seeding, Acc!Users, Joined

(* Whoever has a membership, the superadmin has one in the first           *)
(* organisation.                                                           *)
LEMMA SeededBy ==
  ASSUME AccInv, NEW c \in Calls, accCall[c].op \notin {"idle", "login"}
  PROVE  Joined(Root, First)
BY DEF AccInv, Seeding

(* A new organisation has its creator as a member.                         *)
LEMMA CommitOrganizationKeeps ==
  ASSUME AccountConstants, AccInv, NEW c \in Calls, Acc!CommitOrganization(c) PROVE AccInv'
<1>0. PICK k : k = accCall[c]
  OBVIOUS
<1>1. /\ orgs' = orgs \cup {k.org}
      /\ member' = [member EXCEPT ![k.by][k.org] = "admin"]
      /\ default' = [default EXCEPT ![k.by] = IF @ = "none" THEN k.org ELSE @]
      /\ Acc!Finish(c) /\ UNCHANGED <<role, inv, used>>
  BY <1>0 DEF Acc!CommitOrganization
<1>2. /\ k.org \in Orgs /\ k.by \in Acc!Users /\ k.by \in Emails
      /\ \E o \in Orgs : Joined(k.by, o)
  BY <1>0 DEF Acc!CommitOrganization, AccInv, InFlight, CallOK, Acc!Users
<1>3. Joined(Root, First)
  BY <1>0, SeededBy DEF Acc!CommitOrganization
<1>4. default' = default
  BY <1>1, <1>2 DEF AccInv, AccShape, AccountConstants
<1>5. /\ Grows /\ member' \in [Emails -> [Orgs -> Acc!Roles \cup {"none"}]]
      /\ \A v \in Emails, p \in Orgs : v # k.by \/ p # k.org => member'[v][p] = member[v][p]
  BY <1>1, <1>2, <1>4, JoinGrows, Zenon DEF Acc!Roles, Acc!Users
<1>6. Counted'
  BY <1>1, <1>5, CountedStays
<1>7. Landing'
  <2>1. ASSUME NEW u \in Acc!Users
        PROVE  \/ default[u] \in Orgs /\ Joined(u, default[u])'
               \/ u = Root /\ \A o \in Orgs : ~Joined(u, o)'
    <3>1. CASE u = k.by
      BY <1>2, <1>4, <1>5, <3>1 DEF AccInv, Landing, Grows, Joined
    <3>2. CASE u # k.by
      BY <1>4, <1>5, <3>2 DEF AccInv, Landing, Joined, Acc!Users
    <3> QED
      BY <3>1, <3>2
  <2> QED
    BY <1>4, <2>1 DEF Landing, Acc!Users, Joined
<1>8. \A u \in Emails : u \notin Acc!Users' => \A o \in Orgs : ~Joined(u, o)'
  BY <1>2, <1>4, <1>5 DEF AccInv, Seeding, Joined, Acc!Users
<1>9. Joined(Root, First)'
  BY <1>3, <1>5, FirstIsOrg DEF Grows, AccountConstants
<1>10. \A d \in Calls : d # c /\ accCall[d].op = "create_invite" => inv'[accCall[d].inv] = Acc!NoInv
  BY <1>1 DEF AccInv, InFlight, CallOK
<1>11. orgs' \subseteq Orgs /\ \A i \in Invs : inv'[i] # Acc!NoInv => inv'[i].org \in orgs'
  BY <1>1, <1>2 DEF AccInv, AccShape
<1> QED
  BY <1>1, <1>4, <1>5, <1>6, <1>7, <1>8, <1>9, <1>10, <1>11, FinishKeeps DEF AccInv,
       AccShape

(* A commit that writes invitations only.                                  *)
LEMMA InvitationKeeps ==
  ASSUME AccountConstants, AccInv, NEW c \in Calls, Acc!Finish(c), Joined(Root, First),
         UNCHANGED <<orgs, default, member, role, used>>,
         NEW i \in Invs, NEW entry \in InvRow, inv' = [inv EXCEPT ![i] = entry],
         entry.org \in orgs,
         inv[i] # Acc!NoInv => entry.org = inv[i].org /\ entry.email = inv[i].email,
         \A d \in Calls : d # c /\ accCall[d].op = "create_invite" => accCall[d].inv # i
  PROVE  AccInv'
<1>1. inv \in [Invs -> InvRow \cup {Acc!NoInv}]
  BY DEF AccInv, AccShape
<1>2. inv' \in [Invs -> InvRow \cup {Acc!NoInv}] /\ inv'[i] = entry /\ entry # Acc!NoInv
      /\ \A j \in Invs : j # i => inv'[j] = inv[j]
  BY <1>1, RowIsNotNone, Zenon
<1>3. Grows
  BY <1>2 DEF Grows, Acc!Users, Joined
<1>4. Counted'
  BY <1>3, CountedStays
<1>5. \A j \in Invs : inv'[j] # Acc!NoInv => inv'[j].org \in orgs'
  BY <1>2 DEF AccInv, AccShape
<1>6. \A d \in Calls : d # c /\ accCall[d].op = "create_invite" => inv'[accCall[d].inv] = Acc!NoInv
  BY <1>2 DEF AccInv, InFlight, CallOK
<1> QED
  BY <1>2, <1>3, <1>4, <1>5, <1>6, MembersStay, FinishKeeps DEF AccInv, AccShape

(* A new invitation has a number nobody else has, and gave nothing yet.    *)
LEMMA CommitInvitationKeeps ==
  ASSUME AccountConstants, AccInv, NEW c \in Calls, Acc!CommitInvitation(c) PROVE AccInv'
<1>0. PICK k : k = accCall[c]
  OBVIOUS
<1> DEFINE entry == [st |-> "pending", live |-> TRUE, org |-> k.org,
                   email |-> k.email, role |-> k.role]
<1>1. /\ inv' = [inv EXCEPT ![k.inv] = entry]
      /\ Acc!Finish(c) /\ UNCHANGED <<orgs, default, member, role, used>>
  BY <1>0, Zenon DEF Acc!CommitInvitation
<1>2. /\ k.inv \in Invs /\ inv[k.inv] = Acc!NoInv /\ k.org \in orgs /\ k.org \in Orgs
      /\ k.email \in Lowered /\ k.role \in Given
      /\ \A d \in Calls : d # c /\ accCall[d].op = "create_invite" => accCall[d].inv # k.inv
  BY <1>0 DEF Acc!CommitInvitation, AccInv, InFlight, CallOK, AccShape
<1>3. entry \in InvRow /\ entry.org \in orgs
  BY <1>2 DEF InvRow
<1>4. Joined(Root, First)
  BY <1>0, SeededBy, Zenon DEF Acc!CommitInvitation
<1> HIDE DEF entry
<1> QED
  BY <1>1, <1>2, <1>3, <1>4, InvitationKeeps, Zenon

(* A revoked invitation keeps its organisation and its address.            *)
LEMMA CommitRevocationKeeps ==
  ASSUME AccountConstants, AccInv, NEW c \in Calls, Acc!CommitRevocation(c) PROVE AccInv'
<1>0. PICK i, old : i = accCall[c].inv /\ old = inv[i]
  OBVIOUS
<1> DEFINE entry == [old EXCEPT !.st = "revoked"]
<1>1. /\ inv' = [inv EXCEPT ![i] = entry]
      /\ Acc!Finish(c) /\ UNCHANGED <<orgs, default, member, role, used>>
  BY <1>0 DEF Acc!CommitRevocation
<1>2. i \in Invs /\ old # Acc!NoInv
  BY <1>0 DEF Acc!CommitRevocation, AccInv, InFlight, CallOK, Exists
<1>3. old \in InvRow /\ old.org \in orgs
  BY <1>0, <1>2 DEF AccInv, AccShape
<1>4. entry \in InvRow /\ entry.org = old.org /\ entry.email = old.email
  BY <1>3 DEF InvRow
<1>5. \A d \in Calls : d # c /\ accCall[d].op = "create_invite" => accCall[d].inv # i
  BY <1>0, <1>2 DEF AccInv, InFlight, CallOK
<1>6. Joined(Root, First)
  BY SeededBy DEF Acc!CommitRevocation
<1> HIDE DEF entry
<1> QED
  <2>1. entry.org \in orgs /\ entry.org = inv[i].org /\ entry.email = inv[i].email
    BY <1>0, <1>3, <1>4
  <2> QED
    BY <1>1, <1>2, <1>4, <1>5, <1>6, <2>1, InvitationKeeps, Zenon

(* A commit that writes roles only.                                        *)
LEMMA RoleKeeps ==
  ASSUME AccountConstants, AccInv, NEW c \in Calls, Acc!Finish(c), Joined(Root, First),
         UNCHANGED <<orgs, default, member, inv, used>>,
         NEW r \in Acc!Roles, NEW p \in {"absent", "plain", "manage"},
         role' = [role EXCEPT ![r] = p]
  PROVE  AccInv'
<1>1. role' \in [Acc!Roles -> {"absent", "plain", "manage"}]
  BY DEF AccInv, AccShape
<1>2. Grows
  BY DEF Grows, Acc!Users, Joined
<1>3. \A d \in Calls : d # c /\ accCall[d].op = "create_invite" => inv'[accCall[d].inv] = Acc!NoInv
  BY DEF AccInv, InFlight, CallOK
<1>4. Counted'
  BY <1>2, CountedStays
<1>5. \A i \in Invs : inv'[i] # Acc!NoInv => inv'[i].org \in orgs'
  BY DEF AccInv, AccShape
<1> QED
  BY <1>1, <1>2, <1>3, <1>4, <1>5, MembersStay, FinishKeeps DEF AccInv, AccShape

(* Once the superadmin is a member, every user lands in an organisation of *)
(* theirs.                                                                 *)
LEMMA LandingOfSeeded ==
  ASSUME AccountConstants, AccInv, Joined(Root, First), NEW u \in Acc!Users
  PROVE  default[u] \in Orgs /\ Joined(u, default[u])
BY FirstIsOrg DEF AccInv, Landing

(* Taking an invitation up: the member is new to the organisation.         *)
LEMMA UseKeeps ==
  ASSUME AccountConstants, AccInv, NEW c \in Calls, Acc!Finish(c), Joined(Root, First),
         NEW i \in Invs, NEW old \in InvRow, old = inv[i],
         NEW u \in Emails, Acc!Lower(u) = old.email, u \notin Acc!Users \/ ~Joined(u, old.org),
         member' = [member EXCEPT ![u][old.org] = old.role],
         inv' = [inv EXCEPT ![i] = [old EXCEPT !.st = "accepted"]],
         used' = [used EXCEPT ![i] = @ + 1],
         default' = [default EXCEPT ![u] = IF u \in Acc!Users THEN @ ELSE old.org],
         UNCHANGED <<orgs, role>>
  PROVE  AccInv'
<1> DEFINE entry == [old EXCEPT !.st = "accepted"]
<1>1. entry \in InvRow /\ entry.org = old.org /\ entry.email = old.email /\ entry # Acc!NoInv
  <2>1. entry \in InvRow /\ entry.org = old.org /\ entry.email = old.email
    BY DEF InvRow
  <2> QED
    BY <2>1, RowIsNotNone
<1> HIDE DEF entry
<1>2. old.org \in orgs /\ old.org \in Orgs /\ old.role \in Acc!Roles /\ old # Acc!NoInv
  BY RowIsNotNone DEF AccInv, AccShape, InvRow, AccountConstants, Acc!Roles
<1>3. inv' \in [Invs -> InvRow \cup {Acc!NoInv}] /\ inv'[i] = entry
      /\ \A j \in Invs : j # i => inv'[j] = inv[j]
  BY <1>1 DEF AccInv, AccShape, entry
<1>4. default' \in [Emails -> Orgs \cup {"absent"}]
      /\ \A v \in Emails : default'[v] = IF v = u /\ u \notin Acc!Users THEN old.org ELSE default[v]
  BY <1>2 DEF AccInv, AccShape
<1>5. Acc!Users' = Acc!Users \cup {u}
  BY <1>2, <1>4 DEF Acc!Users, AccountConstants
<1>6. /\ Grows /\ member' \in [Emails -> [Orgs -> Acc!Roles \cup {"none"}]]
      /\ Joined(u, old.org)'
      /\ \A v \in Emails, p \in Orgs : v # u \/ p # old.org => member'[v][p] = member[v][p]
  <2>1. \A j \in Invs : inv[j] # Acc!NoInv =>
           inv'[j] # Acc!NoInv /\ inv'[j].org = inv[j].org /\ inv'[j].email = inv[j].email
    BY <1>1, <1>3
  <2> QED
    BY <1>2, <1>5, <2>1, JoinGrows, Zenon
<1>7. Counted'
  <2>1. u \in Guests(i)'
    BY <1>1, <1>3, <1>5, <1>6 DEF Guests, Joined
  <2>2. u \notin Guests(i)
    BY DEF Guests
  <2> QED
    BY <1>2, <1>3, <1>6, <2>1, <2>2, CountedUse, Zenon
<1>8. Landing'
  <2>1. ASSUME NEW v \in Acc!Users' PROVE default'[v] \in Orgs /\ Joined(v, default[v])'
    <3>1. CASE v \in Acc!Users
      <4>1. v \in Emails /\ default[v] \in Orgs /\ Joined(v, default[v])
        BY <3>1, LandingOfSeeded DEF Acc!Users
      <4>2. default'[v] = default[v]
        BY <1>4, <3>1, <4>1
      <4> QED
        BY <1>6, <4>1, <4>2 DEF Grows, Joined
    <3>2. CASE v \notin Acc!Users
      BY <1>2, <1>4, <1>5, <1>6, <3>2 DEF Joined
    <3> QED
      BY <3>1, <3>2
  <2> QED
    BY <2>1 DEF Landing
<1>9. \A v \in Emails : v \notin Acc!Users' => \A o \in Orgs : ~Joined(v, o)'
  BY <1>5, <1>6 DEF AccInv, Seeding, Joined
<1>10. Joined(Root, First)'
  BY <1>6, FirstIsOrg DEF Grows, AccountConstants
<1>11. \A d \in Calls : d # c /\ accCall[d].op = "create_invite" => inv'[accCall[d].inv] = Acc!NoInv
  BY <1>2, <1>3 DEF AccInv, InFlight, CallOK
<1>12. \A j \in Invs : inv'[j] # Acc!NoInv => inv'[j].org \in orgs'
  BY <1>1, <1>2, <1>3 DEF AccInv, AccShape
<1>13. used' \in [Invs -> Nat]
  BY DEF AccInv, AccShape
<1> QED
  BY <1>3, <1>4, <1>6, <1>7, <1>8, <1>9, <1>10, <1>11, <1>12, <1>13, FinishKeeps,
       Zenon DEF AccInv, AccShape

(* Registration takes an invitation up for an account that did not exist.  *)
LEMMA CommitRegistrationKeeps ==
  ASSUME AccountConstants, AccInv, NEW c \in Calls, Acc!CommitRegistration(c) PROVE AccInv'
<1>0. PICK i, old : i = accCall[c].inv /\ old = inv[i]
  OBVIOUS
<1>1. i \in Invs /\ old # Acc!NoInv
  BY <1>0, Zenon DEF Acc!CommitRegistration, AccInv, InFlight, CallOK, Exists
<1>2. old \in InvRow
  BY <1>0, <1>1 DEF AccInv, AccShape
<1>3. old.email \in Emails /\ Acc!Lower(old.email) = old.email
  BY <1>2, LowerCase DEF InvRow
<1>4. Joined(Root, First)
  BY SeededBy, Zenon DEF Acc!CommitRegistration
<1>5. CASE Acc!Refused(c)
  BY <1>5, RefusedKeeps
<1>6. CASE /\ old.email \notin Acc!Users /\ Acc!RowRemains(i)
           /\ default' = [default EXCEPT ![old.email] = old.org]
           /\ member' = [member EXCEPT ![old.email][old.org] = old.role]
           /\ Acc!Accepted(i)
           /\ Acc!Finish(c) /\ UNCHANGED <<orgs, role>>
  <2>1. /\ inv' = [inv EXCEPT ![i] = [old EXCEPT !.st = "accepted"]]
        /\ used' = [used EXCEPT ![i] = @ + 1]
    BY <1>0, <1>1, <1>2, <1>6 DEF Acc!Accepted, Acc!RowRemains, AccInv, AccShape, InvRow
  <2>2. default' = [default EXCEPT ![old.email] = IF old.email \in Acc!Users THEN @ ELSE old.org]
    BY <1>6
  <2> QED
    <3>1. PICK u \in Emails : u = old.email
      BY <1>3
    <3>2. /\ Acc!Lower(u) = old.email /\ u \notin Acc!Users
          /\ member' = [member EXCEPT ![u][old.org] = old.role]
          /\ default' = [default EXCEPT ![u] = IF u \in Acc!Users THEN @ ELSE old.org]
      BY <1>3, <1>6, <2>2, <3>1
    <3>3. Acc!Finish(c) /\ UNCHANGED <<orgs, role>>
      BY <1>6
    <3> QED
      BY <1>0, <1>1, <1>2, <1>4, <2>1, <3>2, <3>3, UseKeeps, Zenon
<1> QED
  BY <1>0, <1>5, <1>6, Zenon DEF Acc!CommitRegistration

(* Acceptance takes an invitation up for a user who was not a member.      *)
LEMMA CommitAcceptanceKeeps ==
  ASSUME AccountConstants, AccInv, NEW c \in Calls, Acc!CommitAcceptance(c) PROVE AccInv'
<1>0. PICK k, old : k = accCall[c] /\ old = inv[k.inv]
  OBVIOUS
<1>1. /\ k.inv \in Invs /\ old # Acc!NoInv /\ k.by \in Acc!Users /\ k.by \in Emails
      /\ Acc!Lower(k.by) = old.email
  BY <1>0, Zenon DEF Acc!CommitAcceptance, AccInv, InFlight, CallOK, Exists, Acc!Users
<1>2. old \in InvRow /\ old.org \in orgs
  BY <1>0, <1>1 DEF AccInv, AccShape
<1>3. Joined(Root, First)
  BY SeededBy, Zenon DEF Acc!CommitAcceptance
<1>4. CASE Acc!Refused(c)
  BY <1>4, RefusedKeeps
<1>5. CASE /\ ~Joined(k.by, old.org) /\ Acc!RowRemains(k.inv)
           /\ member' = [member EXCEPT ![k.by][old.org] = old.role]
           /\ Acc!Accepted(k.inv)
           /\ Acc!Finish(c) /\ UNCHANGED <<orgs, default, role>>
  <2>1. /\ inv' = [inv EXCEPT ![k.inv] = [old EXCEPT !.st = "accepted"]]
        /\ used' = [used EXCEPT ![k.inv] = @ + 1]
    BY <1>0, <1>1, <1>2, <1>5 DEF Acc!Accepted, Acc!RowRemains, AccInv, AccShape, InvRow
  <2>2. default' = [default EXCEPT ![k.by] = IF k.by \in Acc!Users THEN @ ELSE old.org]
    BY <1>1, <1>5 DEF AccInv, AccShape
  <2> QED
    BY <1>0, <1>1, <1>2, <1>3, <1>5, <2>1, <2>2, UseKeeps, Zenon
<1>6. CASE /\ inv' = [inv EXCEPT ![k.inv].st = "accepted"]
           /\ Acc!Finish(c) /\ UNCHANGED <<orgs, default, member, role, used>>
  <2> DEFINE entry == [old EXCEPT !.st = "accepted"]
  <2>1. entry \in InvRow /\ entry.org = old.org /\ entry.email = old.email
    BY <1>2 DEF InvRow
  <2>2. inv' = [inv EXCEPT ![k.inv] = entry]
    BY <1>0, <1>6
  <2>3. \A d \in Calls : d # c /\ accCall[d].op = "create_invite" => accCall[d].inv # k.inv
    BY <1>0, <1>1, Zenon DEF AccInv, InFlight, CallOK
  <2> HIDE DEF entry
  <2>4. entry.org \in orgs /\ entry.org = inv[k.inv].org /\ entry.email = inv[k.inv].email
    BY <1>0, <1>2, <2>1, Zenon
  <2> QED
    BY <1>1, <1>3, <1>6, <2>1, <2>2, <2>3, <2>4, InvitationKeeps, Zenon
<1> QED
  BY <1>0, <1>4, <1>5, <1>6, Zenon DEF Acc!CommitAcceptance, Joined

(* A user switches to an organisation the user was read to be a member of. *)
LEMMA CommitSwitchKeeps ==
  ASSUME AccountConstants, AccInv, NEW c \in Calls, Acc!CommitSwitch(c) PROVE AccInv'
<1>0. PICK k : k = accCall[c]
  OBVIOUS
<1>1. /\ default' = [default EXCEPT ![k.by] = k.org]
      /\ Acc!Finish(c) /\ UNCHANGED <<orgs, member, role, inv, used>>
  BY <1>0, Zenon DEF Acc!CommitSwitch
<1>2. /\ k.by \in Acc!Users /\ k.by \in Emails /\ k.org \in Orgs /\ k.org # "absent"
      /\ Joined(k.by, k.org)
  BY <1>0 DEF Acc!CommitSwitch, AccInv, InFlight, CallOK, Acc!Users, AccShape,
       AccountConstants
<1>3. Joined(Root, First)
  BY <1>0, SeededBy, Zenon DEF Acc!CommitSwitch
<1>4. /\ default' \in [Emails -> Orgs \cup {"absent"}]
      /\ \A u \in Emails : default'[u] = IF u = k.by THEN k.org ELSE default[u]
  BY <1>1, <1>2 DEF AccInv, AccShape
<1>5. Acc!Users' = Acc!Users
  BY <1>2, <1>4 DEF Acc!Users
<1>6. Grows
  BY <1>1, <1>5 DEF Grows, Joined
<1>7. Counted'
  BY <1>1, <1>6, CountedStays
<1>8. Landing'
  BY <1>1, <1>2, <1>4, <1>5 DEF AccInv, Landing, Joined, Acc!Users
<1>9. /\ Joined(Root, First)'
      /\ \A u \in Emails : u \notin Acc!Users' => \A o \in Orgs : ~Joined(u, o)'
  BY <1>1, <1>3, <1>5 DEF AccInv, Seeding, Joined
<1>10. \A d \in Calls : d # c /\ accCall[d].op = "create_invite" => inv'[accCall[d].inv] = Acc!NoInv
  BY <1>1, Zenon DEF AccInv, InFlight, CallOK
<1>11. \A i \in Invs : inv'[i] # Acc!NoInv => inv'[i].org \in orgs'
  BY <1>1 DEF AccInv, AccShape
<1> QED
  BY <1>1, <1>4, <1>6, <1>7, <1>8, <1>9, <1>10, <1>11, FinishKeeps DEF AccInv, AccShape

(* A membership for a user who is there.                                   *)
LEMMA MemberKeeps ==
  ASSUME AccountConstants, AccInv, NEW c \in Calls, Acc!Finish(c),
         NEW u \in Acc!Users, NEW o \in orgs, NEW r \in Acc!Roles,
         member' = [member EXCEPT ![u][o] = r],
         UNCHANGED <<orgs, default, role, inv, used>>,
         Joined(Root, First) \/ (u = Root /\ o = First)
  PROVE  AccInv'
<1>1. u \in Emails /\ o \in Orgs
  BY DEF AccInv, AccShape, Acc!Users
<1>2. Acc!Users' = Acc!Users
  BY DEF Acc!Users
<1>3. /\ Grows /\ member' \in [Emails -> [Orgs -> Acc!Roles \cup {"none"}]]
      /\ Joined(u, o)'
      /\ \A v \in Emails, p \in Orgs : v # u \/ p # o => member'[v][p] = member[v][p]
  BY <1>1, <1>2, JoinGrows, Zenon
<1>4. Counted'
  BY <1>3, CountedStays
<1>5. Joined(Root, First)'
  BY <1>3, FirstIsOrg DEF Grows, AccountConstants
<1>6. Landing'
  <2>1. CASE Joined(Root, First)
    BY <1>2, <1>3, <2>1, LandingOfSeeded DEF Landing, Grows, Joined, Acc!Users
  <2>2. CASE ~Joined(Root, First)
    <3>1. u = Root /\ o = First /\ Acc!Users = {Root} /\ default[Root] = First
      BY <2>2 DEF AccInv, Seeding, Acc!Users
    <3> QED
      BY <1>1, <1>2, <1>5, <3>1 DEF Landing, Joined
  <2> QED
    BY <2>1, <2>2
<1>7. \A v \in Emails : v \notin Acc!Users' => \A p \in Orgs : ~Joined(v, p)'
  BY <1>2, <1>3 DEF AccInv, Seeding, Joined
<1>8. \A d \in Calls : d # c /\ accCall[d].op = "create_invite" => inv'[accCall[d].inv] = Acc!NoInv
  BY DEF AccInv, InFlight, CallOK
<1>9. \A i \in Invs : inv'[i] # Acc!NoInv => inv'[i].org \in orgs'
  BY DEF AccInv, AccShape
<1> QED
  BY <1>3, <1>4, <1>5, <1>6, <1>7, <1>8, <1>9, FinishKeeps DEF AccInv, AccShape

(* Every commit of a handler keeps the invariant.                          *)
LEMMA CommitKeeps ==
  ASSUME AccountConstants, AccInv, NEW c \in Calls, Acc!Commit(c) PROVE AccInv'
<1>0. PICK k : k = accCall[c]
  OBVIOUS
<1>1. CASE Acc!CommitLogin(c)
  <2>1. CASE Acc!Refused(c)
    BY <2>1, RefusedKeeps
  <2>2. CASE /\ member' = [member EXCEPT ![k.by][k.org] = "member"]
             /\ Acc!Finish(c) /\ UNCHANGED <<orgs, default, role, inv, used>>
    <3>1. k.by = Root /\ k.by \in Acc!Users /\ k.org \in orgs /\ k.org = First
      BY <1>0, <1>1 DEF Acc!CommitLogin, AccInv, InFlight, CallOK, Seeding
    <3> QED
      BY <2>2, <3>1, MemberKeeps, Zenon DEF Acc!Roles
  <2> QED
    BY <1>0, <1>1, <2>1, <2>2 DEF Acc!CommitLogin
<1>2. CASE Acc!CommitUserRole(c)
  <2>1. /\ member' = [member EXCEPT ![k.by][k.org] = k.role]
        /\ Acc!Finish(c) /\ UNCHANGED <<orgs, default, role, inv, used>>
    BY <1>0, <1>2 DEF Acc!CommitUserRole
  <2>2. k.by \in Acc!Users /\ k.org \in orgs /\ k.role \in Acc!Roles /\ Joined(Root, First)
    BY <1>0, <1>2, SeededBy DEF Acc!CommitUserRole, AccInv, InFlight, CallOK
  <2> QED
    BY <2>1, <2>2, MemberKeeps, Zenon
<1>3. CASE Acc!CommitRole(c)
  <2>1. k.perms \in {"plain", "manage"} /\ Joined(Root, First) /\ "custom" \in Acc!Roles
    BY <1>0, <1>3, SeededBy, Zenon DEF Acc!CommitRole, AccInv, InFlight, CallOK,
         Acc!Roles
  <2> QED
    BY <1>0, <1>3, <2>1, RefusedKeeps, RoleKeeps, Zenon DEF Acc!CommitRole
<1>4. CASE Acc!CommitRoleUpdate(c)
  <2>1. k.role \in Acc!Roles /\ k.perms \in {"plain", "manage"} /\ Joined(Root, First)
    BY <1>0, <1>4, SeededBy, Zenon DEF Acc!CommitRoleUpdate, AccInv, InFlight, CallOK
  <2> QED
    BY <1>0, <1>4, <2>1, RefusedKeeps, RoleKeeps, Zenon DEF Acc!CommitRoleUpdate
<1>5. CASE Acc!CommitRoleDelete(c)
  <2>1. Joined(Root, First) /\ "custom" \in Acc!Roles
    BY <1>5, SeededBy, Zenon DEF Acc!CommitRoleDelete, Acc!Roles
  <2> QED
    BY <1>5, <2>1, RoleKeeps, Zenon DEF Acc!CommitRoleDelete
<1> QED
  BY <1>1, <1>2, <1>3, <1>4, <1>5, CommitUserKeeps, CommitOrganizationKeeps,
     CommitInvitationKeeps, CommitRevocationKeeps, CommitRegistrationKeeps,
     CommitAcceptanceKeeps, CommitSwitchKeeps
  DEF Acc!Commit

-----------------------------------------------------------------------------
(* A stage of the seeding: what it wrote, and where it left the gateway.   *)
Unseeded ==
  /\ \A u \in Emails : u # Root => u \notin Acc!Users
  /\ \A o \in Orgs : ~Joined(Root, o)
  /\ orgs \subseteq {First} /\ default[Root] \in {"absent", First}
  /\ \A c \in Calls : accCall[c].op \in {"idle", "login"}
  /\ \A i \in Invs : inv[i] = Acc!NoInv

(* A step of the bootstrap that writes no row of a user keeps the          *)
(* invariant.                                                              *)
LEMMA SeedKeeps ==
  ASSUME AccountConstants, AccInv, Grows, NEW g \in Gateways, NEW b, BootOK(b)',
         accBoot' = [accBoot EXCEPT ![g] = b],
         UNCHANGED <<inv, used, accCall, accBegun>>,
         crashes' \in 0 .. MaxCrashes,
         orgs' \subseteq Orgs,
         default' \in [Emails -> Orgs \cup {"absent"}],
         member' \in [Emails -> [Orgs -> Acc!Roles \cup {"none"}]],
         role' \in [Acc!Roles -> {"absent", "plain", "manage"}],
         Joined(Root, First)' \/ Unseeded',
         \A u \in Emails : u \notin Acc!Users' => \A o \in Orgs : ~Joined(u, o)',
         Landing'
  PROVE  AccInv'
<1>1. Counted'
  BY CountedStays
<1>2. \A i \in Invs : inv'[i] # Acc!NoInv => inv'[i].org \in orgs'
  BY DEF AccInv, AccShape, Grows
<1>3. AccShape'
  BY <1>2 DEF AccInv, AccShape
<1>4. InFlight'
  <2>1. ASSUME NEW d \in Calls PROVE CallOK(accCall[d])'
    <3>1. PICK k : k = accCall[d]
      OBVIOUS
    <3>2. CallOK(k) /\ (k.op = "create_invite" => inv'[k.inv] = Acc!NoInv)
      BY <3>1, Zenon DEF AccInv, InFlight, CallOK
    <3>3. CallOK(k)'
      BY <3>2, CallStays DEF AccInv
    <3> QED
      BY <3>1, <3>3
  <2> QED
    BY <2>1 DEF AccInv, InFlight
<1>5. Seeding'
  <2>1. accBoot = [h \in Gateways |-> accBoot[h]]
    BY DEF AccInv, Seeding
  <2>2. accBoot' = [h \in Gateways |-> accBoot'[h]] /\ accBoot'[g] = b
        /\ \A h \in Gateways : h # g => accBoot'[h] = accBoot[h]
    BY <2>1, Zenon
  <2>3. ASSUME NEW h \in Gateways PROVE BootOK(accBoot[h])'
    <3>1. CASE h = g
      BY <2>2, <3>1 DEF BootOK
    <3>2. CASE h # g
      BY <2>2, <3>2 DEF AccInv, Seeding, BootOK, Grows
    <3> QED
      BY <3>1, <3>2
  <2>4. \A c \in Calls : accCall'[c].op = "login" => accCall'[c].org = First
    BY DEF AccInv, Seeding
  <2> QED
    BY <2>2, <2>3, <2>4 DEF Seeding, Unseeded
<1> QED
  BY <1>1, <1>3, <1>4, <1>5 DEF AccInv

(* Every step of a bootstrap keeps the invariant, whatever other gateways  *)
(* do.                                                                     *)
LEMMA BootKeeps ==
  ASSUME AccountConstants, AccInv, NEW g \in Gateways, Acc!Boot(g) PROVE AccInv'
<1>0. PICK b : b = accBoot[g]
  OBVIOUS
<1>1. BootOK(b) /\ First \in Orgs
  BY <1>0, FirstIsOrg DEF AccInv, Seeding
<1> DEFINE failed == [b EXCEPT !.at = "failed"]
<1>2. ASSUME accBoot' = [accBoot EXCEPT ![g] = failed],
             UNCHANGED <<inv, used, accCall, accBegun, crashes, orgs, default, member, role>>
      PROVE  AccInv'
  <2>1. BootOK(failed)'
    BY <1>1 DEF BootOK, BootRow
  <2>2. Grows
    BY <1>2 DEF Grows, Acc!Users, Joined
  <2>3. Joined(Root, First)' \/ Unseeded'
    BY <1>2 DEF AccInv, Seeding, Unseeded, Acc!Users, Joined
  <2>4. /\ Landing' /\ \A u \in Emails : u \notin Acc!Users' => \A o \in Orgs : ~Joined(u, o)'
    BY <1>2 DEF AccInv, Landing, Seeding, Acc!Users, Joined
  <2> HIDE DEF failed
  <2> QED
    BY <1>2, <2>1, <2>2, <2>3, <2>4, SeedKeeps, Zenon DEF AccInv, AccShape
<1>3. CASE Acc!BootRoles(g)
  <2>1. CASE b.fresh /\ role["admin"] # "absent"
    BY <1>0, <1>2, <1>3, <2>1 DEF Acc!BootRoles, Acc!Seed
  <2>2. CASE ~(b.fresh /\ role["admin"] # "absent")
    <3>1. PICK o \in IF orgs = {} THEN {"none"} ELSE orgs :
             accBoot' = [accBoot EXCEPT ![g] = [at |-> "org", fresh |-> o = "none", org |-> o]]
      BY <1>0, <1>3, <2>2, Zenon DEF Acc!BootRoles, Acc!Seed
    <3>2. /\ role' = [role EXCEPT !["admin"] = "manage", !["member"] = "plain"]
          /\ UNCHANGED <<inv, used, accCall, accBegun, crashes, orgs, default, member>>
      BY <1>0, <1>3, <2>2 DEF Acc!BootRoles, Acc!Seed
    <3> DEFINE new == [at |-> "org", fresh |-> o = "none", org |-> o]
    <3>3. new \in BootRow /\ new.at = "org" /\ (~new.fresh => new.org \in orgs)
      <4>1. (o = "none") \in BOOLEAN
        BY Zenon
      <4>2. o \in Orgs \cup {"none"} /\ (o # "none" => o \in orgs)
        BY <3>1 DEF AccInv, AccShape
      <4> QED
        BY <4>1, <4>2, Zenon DEF BootRow
    <3> HIDE DEF new
    <3>4. BootOK(new)'
      BY <3>2, <3>3 DEF BootOK
    <3>5. Grows
      BY <3>2 DEF Grows, Acc!Users, Joined
    <3>6. Joined(Root, First)' \/ Unseeded'
      BY <3>2 DEF AccInv, Seeding, Unseeded, Acc!Users, Joined
    <3>7. /\ Landing' /\ \A u \in Emails : u \notin Acc!Users' => \A p \in Orgs : ~Joined(u, p)'
      BY <3>2 DEF AccInv, Landing, Seeding, Acc!Users, Joined
    <3>8. role' \in [Acc!Roles -> {"absent", "plain", "manage"}]
      BY <3>2 DEF AccInv, AccShape, Acc!Roles
    <3> HIDE DEF new
    <3>9. accBoot' = [accBoot EXCEPT ![g] = new]
      BY <3>1 DEF new
    <3> QED
      BY <3>2, <3>4, <3>5, <3>6, <3>7, <3>8, <3>9, SeedKeeps, Zenon DEF AccInv, AccShape
  <2> QED
    BY <2>1, <2>2
<1>4. CASE Acc!BootOrg(g)
  <2>1. CASE b.fresh /\ orgs # {}
    BY <1>0, <1>2, <1>4, <2>1 DEF Acc!BootOrg, Acc!Seed
  <2>2. CASE ~(b.fresh /\ orgs # {})
    <3>1. PICK o, r : o = (IF b.fresh THEN First ELSE b.org) /\ r = (Root \notin Acc!Users)
      OBVIOUS
    <3>2. /\ orgs' = orgs \cup {o}
          /\ accBoot' = [accBoot EXCEPT ![g] = [at |-> "user", fresh |-> r, org |-> o]]
          /\ UNCHANGED <<inv, used, accCall, accBegun, crashes, default, member, role>>
      <4>1. o = (IF accBoot[g].fresh THEN CHOOSE x \in Orgs : TRUE ELSE accBoot[g].org)
        BY <1>0, <3>1 DEF First
      <4>2. Acc!Seed(g, FALSE, [at |-> "user", fresh |-> Root \notin Acc!Users, org |-> o])
            /\ orgs' = orgs \cup {o} /\ UNCHANGED <<default, member, role>>
        BY <1>0, <1>4, <2>2, <4>1, Zenon DEF Acc!BootOrg, Acc!Seed
      <4> QED
        BY <3>1, <4>2 DEF Acc!Seed
    <3>3. b.fresh \in BOOLEAN /\ (~b.fresh => b.org \in orgs) /\ (b.fresh => orgs = {})
      BY <1>0, <1>1, <1>4, <2>2 DEF BootOK, Acc!BootOrg, BootRow
    <3>4. o \in Orgs /\ (orgs \subseteq {First} => o = First)
      BY <1>1, <3>1, <3>3 DEF AccInv, AccShape
    <3>5. r \in BOOLEAN
      BY <3>1, Zenon
    <3> DEFINE new == [at |-> "user", fresh |-> r, org |-> o]
    <3>6. BootOK(new)'
      BY <3>2, <3>4, <3>5 DEF BootOK, BootRow
    <3>7. Grows
      BY <3>2 DEF Grows, Acc!Users, Joined
    <3>8. Joined(Root, First)' \/ Unseeded'
      BY <3>2, <3>4 DEF AccInv, Seeding, Unseeded, Acc!Users, Joined
    <3>9. /\ Landing' /\ \A u \in Emails : u \notin Acc!Users' => \A p \in Orgs : ~Joined(u, p)'
      BY <3>2 DEF AccInv, Landing, Seeding, Acc!Users, Joined
    <3>10. orgs' \subseteq Orgs
      BY <3>2, <3>4 DEF AccInv, AccShape
    <3> HIDE DEF new
    <3>11. accBoot' = [accBoot EXCEPT ![g] = new]
      BY <3>2 DEF new
    <3> QED
      BY <3>2, <3>6, <3>7, <3>8, <3>9, <3>10, <3>11, SeedKeeps, Zenon DEF AccInv,
           AccShape
  <2> QED
    BY <2>1, <2>2
<1>5. CASE Acc!BootUser(g)
  <2>1. b.org \in orgs /\ b.org \in Orgs /\ b.at = "user"
    BY <1>0, <1>1, <1>5 DEF Acc!BootUser, BootOK, AccInv, AccShape
  <2>2. CASE b.fresh /\ Root \in Acc!Users
    BY <1>0, <1>2, <1>5, <2>2 DEF Acc!BootUser, Acc!Seed
  <2>3. CASE ~(b.fresh /\ Root \in Acc!Users)
    <3>1. PICK f : f = (member[Root][b.org] = "none")
      OBVIOUS
    <3>2. f \in BOOLEAN
      BY <3>1, Zenon
    <3> DEFINE new == [b EXCEPT !.at = "member", !.fresh = f]
    <3>3. /\ default' = IF default[Root] \in Orgs THEN default
                        ELSE [default EXCEPT ![Root] = b.org]
          /\ accBoot' = [accBoot EXCEPT ![g] = new]
          /\ UNCHANGED <<inv, used, accCall, accBegun, crashes, orgs, member, role>>
      BY <1>0, <1>5, <2>3, <3>1, Zenon DEF Acc!BootUser, Acc!Seed
    <3>6. new \in BootRow /\ new.at = "member" /\ new.org = b.org
      BY <1>1, <3>2, Zenon DEF BootOK, BootRow
    <3>4. CASE default[Root] \in Orgs
      <4>1. default' = default /\ Root \in Acc!Users
        BY <3>3, <3>4 DEF Acc!Users, AccountConstants
      <4>2. BootOK(new)'
        BY <2>1, <3>2, <3>3, <3>6, <4>1 DEF BootOK, Acc!Users
      <4>3. Grows
        BY <3>3, <4>1 DEF Grows, Acc!Users, Joined
      <4>4. Joined(Root, First)' \/ Unseeded'
        BY <3>3, <4>1 DEF AccInv, Seeding, Unseeded, Acc!Users, Joined
      <4>5. /\ Landing' /\ \A u \in Emails : u \notin Acc!Users' => \A p \in Orgs : ~Joined(u, p)'
        BY <3>3, <4>1 DEF AccInv, Landing, Seeding, Acc!Users, Joined
      <4> HIDE DEF new
      <4> QED
        BY <3>3, <4>1, <4>2, <4>3, <4>4, <4>5, SeedKeeps, Zenon DEF AccInv, AccShape
    <3>5. CASE default[Root] \notin Orgs
      <4>1. default[Root] = "absent" /\ Root \in Emails
        BY <3>5 DEF AccInv, AccShape, AccountConstants
      <4>2. /\ default' \in [Emails -> Orgs \cup {"absent"}]
            /\ default'[Root] = b.org /\ \A u \in Emails : u # Root => default'[u] = default[u]
        BY <2>1, <3>3, <3>5, <4>1 DEF AccInv, AccShape
      <4>3. ~Joined(Root, First) /\ \A o \in Orgs : ~Joined(Root, o)
        BY <1>1, <4>1 DEF AccInv, Seeding, Acc!Users
      <4>4. Unseeded /\ b.org = First
        BY <2>1, <4>3 DEF AccInv, Seeding, Unseeded
      <4>5. Acc!Users' = {Root}
        BY <2>1, <4>1, <4>2, <4>4 DEF Unseeded, Acc!Users, AccountConstants
      <4>6. BootOK(new)'
        BY <2>1, <3>2, <3>3, <3>6, <4>5 DEF BootOK
      <4>7. Grows
        BY <3>3, <4>4, <4>5 DEF Grows, Unseeded, Joined, Acc!Users
      <4>8. Unseeded'
        BY <3>3, <4>2, <4>4, <4>5 DEF Unseeded, Joined
      <4>9. Landing' /\ \A u \in Emails : u \notin Acc!Users' => \A p \in Orgs : ~Joined(u, p)'
        BY <3>3, <4>3, <4>5 DEF AccInv, Landing, Seeding, Acc!Users, Joined
      <4> HIDE DEF new
      <4> QED
        BY <3>3, <4>2, <4>6, <4>7, <4>8, <4>9, SeedKeeps, Zenon DEF AccInv, AccShape
    <3> QED
      BY <3>4, <3>5
  <2> QED
    BY <2>2, <2>3
<1>6. CASE Acc!BootMember(g)
  <2>1. b.org \in orgs /\ b.org \in Orgs /\ b.at = "member" /\ Root \in Acc!Users
        /\ Root \in Emails
    BY <1>0, <1>1, <1>6 DEF Acc!BootMember, BootOK, AccInv, AccShape, AccountConstants
  <2>2. CASE b.fresh /\ member[Root][b.org] # "none"
    BY <1>0, <1>2, <1>6, <2>2 DEF Acc!BootMember, Acc!Seed
  <2>3. CASE ~(b.fresh /\ member[Root][b.org] # "none")
    <3> DEFINE new == [b EXCEPT !.at = "done"]
    <3>1. /\ member' = [member EXCEPT ![Root][b.org] = "admin"]
          /\ accBoot' = [accBoot EXCEPT ![g] = new]
          /\ UNCHANGED <<inv, used, accCall, accBegun, crashes, orgs, default, role>>
      BY <1>0, <1>6, <2>3, Zenon DEF Acc!BootMember, Acc!Seed
    <3>2. Acc!Users' = Acc!Users
      BY <3>1 DEF Acc!Users
    <3>3. /\ Grows /\ member' \in [Emails -> [Orgs -> Acc!Roles \cup {"none"}]]
          /\ Joined(Root, b.org)'
          /\ \A v \in Emails, p \in Orgs : v # Root \/ p # b.org => member'[v][p] = member[v][p]
      BY <2>1, <3>1, <3>2, JoinGrows, Zenon DEF Acc!Roles
    <3>4. BootOK(new)'
      BY <1>1, <2>1, <3>1, <3>2 DEF BootOK, BootRow
    <3>5. Joined(Root, First)' /\ Landing'
      <4>1. CASE Joined(Root, First)
        <5>1. Joined(Root, First)'
          BY <1>1, <2>1, <3>3, <4>1 DEF Grows
        <5>2. Landing'
          BY <3>1, <3>2, <3>3, <4>1, LandingOfSeeded DEF Landing, Grows, Joined,
               Acc!Users
        <5> QED
          BY <5>1, <5>2
      <4>2. CASE ~Joined(Root, First)
        <5>1. b.org = First /\ Acc!Users = {Root} /\ default[Root] = First
          BY <2>1, <4>2 DEF AccInv, Seeding, Acc!Users
        <5>2. Joined(Root, First)'
          BY <3>3, <5>1
        <5> QED
          BY <1>1, <3>1, <3>2, <5>1, <5>2 DEF Landing, Joined
      <4> QED
        BY <4>1, <4>2
    <3>7. \A u \in Emails : u \notin Acc!Users' => \A p \in Orgs : ~Joined(u, p)'
      BY <2>1, <3>2, <3>3 DEF AccInv, Seeding, Joined
    <3> HIDE DEF new
    <3> QED
      BY <3>1, <3>3, <3>4, <3>5, <3>7, SeedKeeps, Zenon DEF AccInv, AccShape
  <2> QED
    BY <2>2, <2>3
<1> QED
  BY <1>3, <1>4, <1>5, <1>6 DEF Acc!Boot

(* An invitation that runs out keeps its organisation and its address.     *)
LEMMA ExpiryKeeps ==
  ASSUME AccountConstants, AccInv, NEW i \in Invs, Acc!InviteExpires(i) PROVE AccInv'
<1>0. PICK old : old = inv[i]
  OBVIOUS
<1> DEFINE entry == [old EXCEPT !.live = FALSE]
<1>1. old \in InvRow /\ old.org \in orgs /\ old # Acc!NoInv
  BY <1>0 DEF Acc!InviteExpires, Acc!Pending, AccInv, AccShape, Acc!NoInv
<1>2. entry \in InvRow /\ entry.org = old.org /\ entry.email = old.email /\ entry # Acc!NoInv
  <2>1. entry \in InvRow /\ entry.org = old.org /\ entry.email = old.email
    BY <1>1, Zenon DEF InvRow
  <2> QED
    BY <2>1, RowIsNotNone, Zenon
<1>3. /\ inv' = [inv EXCEPT ![i] = entry]
      /\ UNCHANGED <<orgs, default, member, role, used, accCall, accBoot, accBegun, crashes>>
  BY <1>0 DEF Acc!InviteExpires
<1> HIDE DEF entry
<1>4. inv' \in [Invs -> InvRow \cup {Acc!NoInv}] /\ inv'[i] = entry
      /\ \A j \in Invs : j # i => inv'[j] = inv[j]
  BY <1>2, <1>3 DEF AccInv, AccShape
<1>5. Grows
  BY <1>0, <1>2, <1>3, <1>4 DEF Grows, Acc!Users, Joined
<1>6. Counted'
  BY <1>3, <1>5, CountedStays
<1>7. AccShape'
  BY <1>1, <1>2, <1>3, <1>4 DEF AccInv, AccShape
<1>8. InFlight'
  <2>1. ASSUME NEW d \in Calls PROVE CallOK(accCall[d])'
    <3>1. PICK k : k = accCall[d]
      OBVIOUS
    <3>2. CallOK(k) /\ (k.op = "create_invite" => inv'[k.inv] = Acc!NoInv)
      BY <1>0, <1>1, <1>4, <3>1, Zenon DEF AccInv, InFlight, CallOK
    <3>3. CallOK(k)'
      BY <1>5, <3>2, CallStays DEF AccInv
    <3> QED
      BY <1>3, <3>1, <3>3
  <2> QED
    BY <1>3, <2>1 DEF AccInv, InFlight
<1>9. Seeding' /\ Landing'
  BY <1>0, <1>1, <1>3 DEF AccInv, Seeding, Landing, BootOK, Acc!Users, Joined
<1> QED
  BY <1>6, <1>7, <1>8, <1>9 DEF AccInv

(* A gateway that starts again has read nothing.                           *)
LEMMA RestartKeeps ==
  ASSUME AccountConstants, AccInv, NEW g \in Gateways, Acc!Restart(g) PROVE AccInv'
<1>0. PICK r : r = (role["admin"] = "absent")
  OBVIOUS
<1> DEFINE new == [at |-> "roles", fresh |-> r, org |-> "none"]
<1>1. /\ accBoot' = [accBoot EXCEPT ![g] = new] /\ crashes' = crashes + 1 /\ crashes < MaxCrashes
      /\ UNCHANGED <<orgs, default, member, role, inv, used, accCall, accBegun>>
  BY <1>0, Zenon DEF Acc!Restart, Acc!ReadRoles
<1>2. r \in BOOLEAN
  BY <1>0, Zenon
<1>3. BootOK(new)'
  BY <1>2 DEF BootOK, BootRow
<1>4. Grows
  BY <1>1 DEF Grows, Acc!Users, Joined
<1>5. Joined(Root, First)' \/ Unseeded'
  BY <1>1 DEF AccInv, Seeding, Unseeded, Acc!Users, Joined
<1>6. Landing' /\ \A u \in Emails : u \notin Acc!Users' => \A o \in Orgs : ~Joined(u, o)'
  BY <1>1 DEF AccInv, Landing, Seeding, Acc!Users, Joined
<1>7. crashes' \in 0 .. MaxCrashes
  BY <1>1 DEF AccInv, AccShape, AccountConstants
<1> HIDE DEF new
<1> QED
  BY <1>1, <1>3, <1>4, <1>5, <1>6, <1>7, SeedKeeps, Zenon DEF AccInv, AccShape

(* The invariant is inductive.                                             *)
LEMMA AccountsStep ==
  ASSUME AccountConstants, AccInv, [Acc!Next]_(Acc!vars) PROVE AccInv'
<1>1. CASE UNCHANGED Acc!vars
  <2>1. AccShape' /\ Counted' /\ Landing'
    BY <1>1 DEF Acc!vars, AccInv, AccShape, Counted, Landing, Acc!Users, Joined, Guests
  <2>3. \A g \in Gateways : BootOK(accBoot[g])'
    BY <1>1, Zenon DEF Acc!vars, AccInv, Seeding, BootOK, Acc!Users
  <2>4. Seeding'
    BY <1>1, <2>3 DEF Acc!vars, AccInv, Seeding, Acc!Users, Joined
  <2>5. Grows
    BY <1>1 DEF Acc!vars, Grows, Acc!Users, Joined
  <2>6. ASSUME NEW c \in Calls PROVE CallOK(accCall[c])'
    <3>1. PICK k : k = accCall[c]
      OBVIOUS
    <3>2. CallOK(k) /\ (k.op = "create_invite" => inv[k.inv] = Acc!NoInv)
      BY <3>1 DEF AccInv, InFlight, CallOK
    <3>3. CallOK(k)'
      BY <1>1, <2>5, <3>2, CallStays DEF Acc!vars, AccInv
    <3> QED
      BY <1>1, <3>1, <3>3 DEF Acc!vars
  <2>2. InFlight'
    BY <1>1, <2>6 DEF Acc!vars, AccInv, InFlight
  <2> QED
    BY <2>1, <2>2, <2>4 DEF AccInv
<1> QED
  BY <1>1, BeginCallKeeps, CommitKeeps, ExpiryKeeps, BootKeeps,
       RestartKeeps DEF Acc!Next

(* The invariant gives the properties of accounts.                         *)
LEMMA AccountsSafe ==
  ASSUME AccountConstants, AccInv
  PROVE  Acc!TypeOK /\ Acc!InvitationOnce /\ Acc!DefaultIsMembership
<1>1. Acc!TypeOK
  <2>1. ASSUME NEW i \in Invs, inv[i] # Acc!NoInv
        PROVE  /\ inv[i].st \in {"pending", "accepted", "revoked"}
               /\ inv[i].org \in orgs /\ inv[i].email.case = "lower"
    BY <2>1, LowerCase DEF AccInv, AccShape, InvRow
  <2>3. \A g \in Gateways :
          /\ accBoot[g].at \in {"roles", "org", "user", "member", "done", "failed"}
          /\ accBoot[g].at \in {"user", "member", "done"} => accBoot[g].org \in orgs
    BY DEF AccInv, Seeding, BootOK, BootRow
  <2> QED
    BY <2>1, <2>3 DEF AccInv, AccShape, Acc!TypeOK
<1>2. Acc!InvitationOnce
  <2>1. SUFFICES ASSUME NEW i \in Invs, used[i] > 1 PROVE Acc!Namesakes(inv[i].email)
    BY DEF Acc!InvitationOnce, AccInv, AccShape
  <2> QED
    BY <2>1 DEF AccInv, Counted, Guests, Acc!Namesakes
<1>3. Acc!DefaultIsMembership
  BY DEF AccInv, Landing, Joined, Acc!DefaultIsMembership
<1> QED
  BY <1>1, <1>2, <1>3

-----------------------------------------------------------------------------
\* Enrolment of a second factor (TwoFactor)
VARIABLES
  row, totpCall, issued, proven, overlap, totpBegun
Totp == INSTANCE TwoFactor WITH
  call <- totpCall, begun <- totpBegun, MaxCalls <- MaxTotpCalls


TotpConstants == MaxSecrets \in Nat /\ MaxTotpCalls \in Nat

CallShape == [op : {"setup", "verify", "disable"}, old : Totp!Row, new : Totp!Row]

Begun(k, shown) ==
  /\ k \in CallShape
  /\ k.new.secret \in shown \cup {0, k.old.secret}
  /\ k.new.enabled /\ k.new.secret = 0 => k.old.enabled /\ k.old.secret = 0

Enrolled ==
  /\ issued \in 0 .. MaxSecrets /\ row \in Totp!Row /\ overlap \in BOOLEAN
  /\ proven \subseteq Totp!Secrets /\ totpBegun \in 0 .. MaxTotpCalls
  /\ totpCall = [c \in Calls |-> totpCall[c]]
  /\ \A c \in Calls : totpCall[c] = Totp!Idle \/ Begun(totpCall[c], proven)
  /\ Totp!SecretIsProven /\ Totp!LockoutHasCause

(* A handler that has loaded the row will only write a secret that was     *)
(* shown, and clears the secret only with the flag.                        *)
LEMMA LoadKeeps ==
  ASSUME TotpConstants, Enrolled, NEW c \in Calls, NEW op, NEW new, Totp!Load(c, op, new),
         op \in {"setup", "verify", "disable"}, new \in Totp!Row,
         issued' \in 0 .. MaxSecrets, proven \subseteq proven',
         proven' \subseteq Totp!Secrets,
         new.secret \in proven' \cup {0, row.secret},
         new.enabled /\ new.secret = 0 => row.enabled /\ row.secret = 0
  PROVE  Enrolled'
<1> DEFINE k == [op |-> op, old |-> row, new |-> new]
<1>1. k \in CallShape /\ k.old = row /\ k.new = new
  BY DEF Enrolled, CallShape
<1>2. /\ totpCall' = [totpCall EXCEPT ![c] = k] /\ UNCHANGED <<row, overlap>>
  BY DEF Totp!Load
<1> HIDE DEF k
<1>3. Begun(k, proven')
  BY <1>1 DEF Begun
<1>4. \A d \in Calls : totpCall[d] = Totp!Idle \/ Begun(totpCall[d], proven')
  BY DEF Begun, Enrolled
<1>5. /\ totpCall' = [d \in Calls |-> totpCall'[d]]
      /\ \A d \in Calls : totpCall'[d] = Totp!Idle \/ Begun(totpCall'[d], proven')
  BY <1>2, <1>3, <1>4 DEF Enrolled
<1>6. Totp!SecretIsProven' /\ Totp!LockoutHasCause'
  BY <1>2 DEF Enrolled, Totp!SecretIsProven, Totp!LockoutHasCause
<1>7. totpBegun' \in 0 .. MaxTotpCalls
  BY DEF Enrolled, Totp!Load, TotpConstants
<1> QED
  BY <1>2, <1>5, <1>6, <1>7 DEF Enrolled

(* Writing the columns that changed keeps the secret proven; it loses the  *)
(* secret of a factor that is on only on a row changed since its load.     *)
LEMMA WriteKeeps ==
  ASSUME Enrolled, NEW c \in Calls, Totp!Commit(c) PROVE Enrolled'
<1> DEFINE k == totpCall[c]
<1>1. /\ k # Totp!Idle
      /\ row' = [f \in DOMAIN row |-> IF k.new[f] # k.old[f] THEN k.new[f] ELSE row[f]]
      /\ overlap' = (overlap \/ row # k.old)
      /\ totpCall' = [totpCall EXCEPT ![c] = Totp!Idle]
      /\ UNCHANGED <<issued, proven, totpBegun>>
  BY DEF Totp!Commit
<1>2. Begun(k, proven)
  BY <1>1 DEF Enrolled
<1> HIDE DEF k
<1>3. k.old \in Totp!Row /\ k.new \in Totp!Row
  BY <1>2 DEF Begun, CallShape
<1>4. row' = [secret |-> IF k.new.secret # k.old.secret THEN k.new.secret ELSE row.secret,
              pending |-> IF k.new.pending # k.old.pending THEN k.new.pending ELSE row.pending,
              enabled |-> IF k.new.enabled # k.old.enabled THEN k.new.enabled ELSE row.enabled]
  BY <1>1, <1>3 DEF Enrolled, Totp!Row
<1>5. row' \in Totp!Row
  BY <1>3, <1>4 DEF Enrolled, Totp!Row
<1>6. Totp!SecretIsProven'
  BY <1>1, <1>2, <1>4 DEF Enrolled, Begun, Totp!SecretIsProven
<1>7. Totp!LockoutHasCause'
  <2>1. CASE overlap \/ row # k.old
    BY <1>1, <2>1, Zenon DEF Totp!LockoutHasCause
  <2>2. CASE ~overlap /\ row = k.old
    <3>1. row'.secret = k.new.secret /\ row'.enabled = k.new.enabled
      BY <1>4, <2>2
    <3> QED
      BY <1>2, <2>2, <3>1 DEF Enrolled, Begun, Totp!LockoutHasCause
  <2> QED
    BY <2>1, <2>2
<1>8. /\ totpCall' = [d \in Calls |-> totpCall'[d]]
      /\ \A d \in Calls : totpCall'[d] = Totp!Idle \/ Begun(totpCall'[d], proven')
  BY <1>1 DEF Enrolled
<1> QED
  BY <1>1, <1>5, <1>6, <1>7, <1>8 DEF Enrolled

(* The second factor, by the invariant Enrolled.                           *)
LEMMA SecondFactorIsSafe ==
  ASSUME TotpConstants
  PROVE  Totp!Spec => [](Totp!TypeOK /\ Totp!SecretIsProven /\ Totp!LockoutHasCause)
<1>1. ASSUME Totp!Init PROVE Enrolled
  <2>1. row \in Totp!Row /\ row.secret = 0 /\ row.enabled = FALSE
    BY <1>1 DEF Totp!Init, Totp!Row
  <2>2. totpCall = [c \in Calls |-> totpCall[c]] /\ \A c \in Calls : totpCall[c] = Totp!Idle
    BY <1>1 DEF Totp!Init
  <2>3. issued \in 0 .. MaxSecrets /\ proven \subseteq Totp!Secrets /\ totpBegun \in 0 .. MaxTotpCalls
    BY <1>1 DEF Totp!Init, TotpConstants
  <2>4. overlap \in BOOLEAN
    BY <1>1, Zenon DEF Totp!Init
  <2> QED
    BY <2>1, <2>2, <2>3, <2>4 DEF Enrolled, Totp!SecretIsProven, Totp!LockoutHasCause
<1>2. ASSUME Enrolled, [Totp!Next]_(Totp!vars) PROVE Enrolled'
  <2>1. CASE UNCHANGED Totp!vars
    BY <1>2, <2>1 DEF Totp!vars, Enrolled, Totp!SecretIsProven, Totp!LockoutHasCause
  <2>2. ASSUME NEW c \in Calls, Totp!TotpSetup(c) PROVE Enrolled'
    <3>1. issued + 1 \in Totp!Secrets
      BY <1>2, <2>2 DEF Totp!TotpSetup, Enrolled, Totp!Secrets, TotpConstants
    <3> DEFINE new == [row EXCEPT !.pending = issued + 1]
    <3>2. new \in Totp!Row /\ new.secret = row.secret /\ new.enabled = row.enabled
      BY <1>2, <3>1 DEF Enrolled, Totp!Row
    <3>3. Totp!Load(c, "setup", new) /\ issued' \in 0 .. MaxSecrets /\ proven' = proven
      BY <1>2, <2>2, <3>1 DEF Totp!TotpSetup, Totp!Secrets, TotpConstants
    <3> HIDE DEF new
    <3> QED
      BY <1>2, <3>2, <3>3, LoadKeeps DEF Enrolled
  <2>3. ASSUME NEW c \in Calls, Totp!TotpVerify(c) PROVE Enrolled'
    <3> DEFINE new == [secret |-> row.pending, pending |-> 0, enabled |-> TRUE]
    <3>1. new \in Totp!Row /\ new.secret = row.pending
      BY <1>2 DEF Enrolled, Totp!Row
    <3>2. /\ Totp!Load(c, "verify", new) /\ issued' = issued
          /\ proven' = proven \cup {row.pending} /\ row.pending # 0
      BY <2>3 DEF Totp!TotpVerify
    <3>3. row.pending \in Totp!Secrets
      BY <1>2, <3>2 DEF Enrolled, Totp!Row
    <3> HIDE DEF new
    <3> QED
      BY <1>2, <3>1, <3>2, <3>3, LoadKeeps DEF Enrolled
  <2>4. ASSUME NEW c \in Calls, Totp!TotpDisable(c) PROVE Enrolled'
    <3> DEFINE new == [row EXCEPT !.secret = 0, !.enabled = FALSE]
    <3>1. new \in Totp!Row /\ new.secret = 0 /\ new.enabled = FALSE
      BY <1>2, Zenon DEF Enrolled, Totp!Row
    <3>2. Totp!Load(c, "disable", new) /\ issued' = issued /\ proven' = proven
      BY <2>4 DEF Totp!TotpDisable
    <3> HIDE DEF new
    <3> QED
      BY <1>2, <3>1, <3>2, LoadKeeps DEF Enrolled
  <2> QED
    BY <1>2, <2>1, <2>2, <2>3, <2>4, WriteKeeps DEF Totp!Next
<1>3. Enrolled => Totp!TypeOK /\ Totp!SecretIsProven /\ Totp!LockoutHasCause
  <2>1. Enrolled => \A c \in Calls : \/ totpCall[c] = Totp!Idle
                                  \/ /\ totpCall[c].op \in {"setup", "verify", "disable"}
                                     /\ totpCall[c].old \in Totp!Row
    BY DEF Enrolled, Begun, CallShape
  <2> QED
    BY <2>1 DEF Enrolled, Totp!TypeOK
<1> QED
  BY <1>1, <1>2, <1>3, PTL DEF Totp!Spec

-----------------------------------------------------------------------------
\* Accounts and their second factor: an invitation gives at most one
\* membership, the organisation a user lands in is one the user belongs to; a
\* login is checked against a secret the user has shown a code of, and a
\* second factor that is on lacks its secret only after overlapping calls.
AccountsSound ==
  /\ Acc!TypeOK
  /\ Acc!InvitationOnce
  /\ Acc!DefaultIsMembership
  /\ Totp!TypeOK
  /\ Totp!SecretIsProven
  /\ Totp!LockoutHasCause

\* A revoked invitation gives no membership any more, not even to a handler
\* that read it while it was pending.
RevokedGivesNothing == [][Acc!RevokedGrantsNothing]_(Acc!vars)

-----------------------------------------------------------------------------

(* Constants of both components, as the code gives them.                   *)
ASSUME AccountsAssumption == AccountConstants /\ TotpConstants

(* Whatever calls overlap, gateways boot and crash: accounts and their     *)
(* second factor are sound.                                                *)
THEOREM AccountsAreSound == Acc!Spec /\ Totp!Spec => []AccountsSound
<1>1. Acc!Spec => [](Acc!TypeOK /\ Acc!InvitationOnce /\ Acc!DefaultIsMembership)
  BY AccountsAssumption, AccountsInit, AccountsStep, AccountsSafe, PTL DEF Acc!Spec
<1>2. Totp!Spec => [](Totp!TypeOK /\ Totp!SecretIsProven /\ Totp!LockoutHasCause)
  BY AccountsAssumption, SecondFactorIsSafe
<1>3. /\ Acc!TypeOK /\ Acc!InvitationOnce /\ Acc!DefaultIsMembership
      /\ Totp!TypeOK /\ Totp!SecretIsProven /\ Totp!LockoutHasCause
      => AccountsSound
  BY DEF AccountsSound
<1> QED
  BY <1>1, <1>2, <1>3, PTL

(* No handler, however early it read the invitation, takes a revoked one   *)
(* up.                                                                     *)
THEOREM RevocationHolds == Acc!Spec => RevokedGivesNothing
<1>1. AccInv /\ [Acc!Next]_(Acc!vars) => [Acc!RevokedGrantsNothing]_(Acc!vars)
  <2>1. SUFFICES ASSUME AccInv, Acc!Next, NEW i \in Invs, inv[i].st = "revoked"
                 PROVE  used'[i] = used[i]
    BY DEF Acc!RevokedGrantsNothing
  <2>2. used \in [Invs -> Nat] /\ \A j : Acc!RowRemains(j) => j # i
    BY <2>1 DEF AccInv, AccShape, Acc!RowRemains
  <2>3. CASE UNCHANGED used
    BY <2>3
  <2>4. ASSUME NEW c \in Calls, Acc!Commit(c) PROVE used'[i] = used[i]
    <3>1. CASE Acc!CommitRegistration(c)
      BY <2>2, <3>1, Zenon DEF Acc!CommitRegistration, Acc!Refused, Acc!Finish,
           Acc!Accepted
    <3>2. CASE Acc!CommitAcceptance(c)
      BY <2>2, <3>2, Zenon DEF Acc!CommitAcceptance, Acc!Refused, Acc!Finish,
           Acc!Accepted
    <3>3. CASE ~Acc!CommitRegistration(c) /\ ~Acc!CommitAcceptance(c)
      BY <2>4, <3>3 DEF Acc!Commit, Acc!CommitUser, Acc!CommitOrganization,
           Acc!CommitInvitation,
         Acc!CommitRevocation, Acc!CommitSwitch, Acc!CommitLogin, Acc!CommitUserRole,
           Acc!CommitRole,
         Acc!CommitRoleUpdate, Acc!CommitRoleDelete, Acc!Refused
    <3> QED
      BY <3>1, <3>2, <3>3
  <2>5. ASSUME NEW c \in Calls, Acc!BeginCall(c) PROVE UNCHANGED used
    BY <2>5, Zenon DEF Acc!BeginCall, Acc!CreateUser, Acc!CreateOrganization,
         Acc!CreateInvitation, Acc!RevokeInvitation,
       Acc!RegisterInvite, Acc!AcceptInvitation, Acc!SwitchOrganization, Acc!Login,
         Acc!UpdateUserRole, Acc!CreateRole,
       Acc!UpdateRole, Acc!DeleteRole, Acc!Begin
  <2>6. ASSUME NEW g \in Gateways, Acc!Boot(g) \/ Acc!Restart(g) PROVE UNCHANGED used
    BY <2>6 DEF Acc!Boot, Acc!BootRoles, Acc!BootOrg, Acc!BootUser, Acc!BootMember,
         Acc!Seed, Acc!Restart
  <2> QED
    BY <2>1, <2>3, <2>4, <2>5, <2>6 DEF Acc!Next, Acc!InviteExpires
<1> QED
  BY <1>1, AccountsAssumption, AccountsInit, AccountsStep, PTL DEF Acc!Spec,
       RevokedGivesNothing
=============================================================================
