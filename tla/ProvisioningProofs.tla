------------------------- MODULE ProvisioningProofs -------------------------
(***************************************************************************)
(* Enrolment of workers and the credentials of the providers, for any      *)
(* number of workers, pools, gateways and handlers in flight: a token is   *)
(* used once, deleting a credential strands a pool only for a known        *)
(* reason, and a save stores a mask, or changes what it was not asked      *)
(* about, only out of a stale copy.                                        *)
(***************************************************************************)
EXTENDS Naturals, TLAPS

CONSTANTS
  Workers, Stored, Names,                        \* Registration
  CloudPools, MaxPolls,                          \* CredentialCleanup
  MaxLost,                                       \* Registration, CredentialCleanup
  Keys, Tokens, Fields, Gateways, Calls, Ops, MaxCalls, MaxVal  \* Configuration

\* Workers enrolling in a pool (Registration)
VARIABLES
  regPool, ask, given, name, token, regRow, regAt, admitted, spoiled,
  regFaults
Reg == INSTANCE Registration WITH
  pool <- regPool, row <- regRow, at <- regAt, faults <- regFaults,
  MaxFaults <- MaxLost

\* Deleting a cloud credential (CredentialCleanup)
VARIABLES
  cred, cleanPool, deps, cleanAt, todo, now, polls, cause, cleanFaults
Clean == INSTANCE CredentialCleanup WITH
  pool <- cleanPool, at <- cleanAt, faults <- cleanFaults,
  Pools <- CloudPools, MaxFaults <- MaxLost

\* Provider configuration (Configuration)
VARIABLES
  confRow, db, mem, poll, form, call, confExcused, begun, next
Conf == INSTANCE Configuration WITH
  row <- confRow, excused <- confExcused

\* Registration: a stored token admits one registration, and every worker
\* holds the pool's inference token.
EnrolmentSound ==
  /\ Reg!TypeOK
  /\ Reg!SingleUse
  /\ Reg!TokensConverge

\* Credentials: deleting one leaves a pool running without it only for a
\* known reason, and a mask is stored in place of a secret only by a stale
\* form.
CredentialsKept ==
  /\ Clean!TypeOK
  /\ Clean!StrandedPoolHasCause
  /\ Conf!TypeOK
  /\ Conf!MaskHasCause

\* A save changes a credential it was not asked about only out of a copy or
\* a form that was stale.
SavesJustified == [][Conf!CollateralHasCause]_(Conf!vars)

-----------------------------------------------------------------------------
RegistrationConstants == Stored \subseteq Workers /\ MaxLost \in Nat

(* A stored token that is not used up has admitted nobody, and a worker    *)
(* that was handed an inference token was handed the pool's.               *)
Enrolment ==
  /\ Reg!TypeOK
  /\ \A w \in Workers : admitted[w] <= IF token[w] = "consumed" /\ w \in Stored THEN 1 ELSE 0
  /\ \A w \in Workers : ask[w] = "done" => regPool # 0 /\ given[w] = regPool

(* The invariant of enrolment is inductive.                                *)
LEMMA EnrolmentStep ==
  ASSUME RegistrationConstants, Enrolment, [Reg!Next]_(Reg!vars) PROVE Enrolment'
<1> USE DEF Enrolment, Reg!TypeOK, RegistrationConstants
<1>1. CASE UNCHANGED Reg!vars
  BY <1>1 DEF Reg!vars
<1>2. ASSUME NEW w \in Workers, Reg!SelectInferenceToken(w) PROVE Enrolment'
  BY <1>2 DEF Reg!SelectInferenceToken
<1>3. ASSUME NEW w \in Workers, Reg!StoreInferenceToken(w) PROVE Enrolment'
  BY <1>3 DEF Reg!StoreInferenceToken, Reg!Fresh
<1>4. ASSUME NEW w \in Workers, Reg!MintBootstrapToken(w) PROVE Enrolment'
  BY <1>4 DEF Reg!MintBootstrapToken
<1>5. ASSUME NEW w \in Workers, Reg!TokenExpires(w) PROVE Enrolment'
  BY <1>5 DEF Reg!TokenExpires, Reg!Fault
<1>6. ASSUME NEW w \in Workers, Reg!Authenticate(w) PROVE Enrolment'
  BY <1>6 DEF Reg!Authenticate, Reg!ConsumeBootstrapToken
<1>7. ASSUME NEW w \in Workers, Reg!WrongPool(w) PROVE Enrolment'
  BY <1>7 DEF Reg!WrongPool, Reg!ConsumeBootstrapToken, Reg!Fault
<1>8. ASSUME NEW w \in Workers, Reg!UpsertWorker(w) PROVE Enrolment'
  BY <1>8 DEF Reg!UpsertWorker, Reg!TokenKinds
<1>9. ASSUME NEW w \in Workers, Reg!AnswerLost(w) \/ Reg!MintWorkerToken(w) PROVE Enrolment'
  BY <1>9 DEF Reg!AnswerLost, Reg!MintWorkerToken, Reg!Fault
<1> QED
  BY <1>1, <1>2, <1>3, <1>4, <1>5, <1>6, <1>7, <1>8, <1>9 DEF Reg!Next, Reg!Step

(* Enrolment is sound, by the invariant Enrolment.                         *)
LEMMA EnrolmentIsSafe ==
  ASSUME RegistrationConstants
  PROVE  Reg!Spec => [](Reg!TypeOK /\ Reg!SingleUse /\ Reg!TokensConverge)
<1>1. Reg!Init => Enrolment
  BY DEF Reg!Init, Enrolment, Reg!TypeOK, Reg!TokenKinds, RegistrationConstants
<1>2. Enrolment /\ [Reg!Next]_(Reg!vars) => Enrolment'
  BY EnrolmentStep
<1>3. Enrolment => Reg!TypeOK /\ Reg!SingleUse /\ Reg!TokensConverge
  BY DEF Enrolment, Reg!TypeOK, Reg!SingleUse, Reg!TokensConverge, RegistrationConstants
<1> QED
  BY <1>1, <1>2, <1>3, PTL DEF Reg!Spec

-----------------------------------------------------------------------------
CleanupConstants == MaxPolls \in Nat /\ MaxLost \in Nat

(* Once the pools are listed, one that runs is still to be visited, is the *)
(* one at hand, or was blamed; the credential is dropped at the end.       *)
Visiting ==
  /\ Clean!TypeOK
  /\ cred = FALSE => cleanAt = "done"
  /\ cleanAt \notin {"idle", "list"} =>
       \A p \in CloudPools : cleanPool[p] \in Clean!Live =>
         \/ p \in todo
         \/ p = now /\ cleanAt \in {"deployments", "stop", "wait"}
         \/ cause[p] # {}
  /\ cleanAt = "delete" => cleanPool[now] = "terminated"
  /\ cleanAt = "done" => todo = {}

(* Blaming pools takes the blame from none.                                *)
LEMMA BlameAdds ==
  ASSUME Clean!TypeOK, NEW ps, NEW why \in {"fault", "timeout", "late"}, Clean!Blame(ps, why)
  PROVE  /\ cause' \in [CloudPools -> SUBSET {"fault", "timeout", "late"}]
         /\ \A p \in CloudPools : cause[p] # {} => cause'[p] # {}
         /\ \A p \in CloudPools : p \in ps => cause'[p] # {}
BY DEF Clean!TypeOK, Clean!Blame

(* The invariant of the clean-up is inductive, whatever pools are made and *)
(* stopped meanwhile.                                                      *)
LEMMA VisitingStep ==
  ASSUME CleanupConstants, Visiting, [Clean!Next]_(Clean!vars) PROVE Visiting'
<1> USE DEF Visiting, Clean!TypeOK, CleanupConstants, Clean!Live
<1>1. CASE UNCHANGED Clean!vars
  BY <1>1 DEF Clean!vars
<1>2. ASSUME NEW p \in CloudPools, Clean!CreatePool(p) PROVE Visiting'
  <2>1. /\ cred = TRUE /\ cleanPool' = [cleanPool EXCEPT ![p] = "running"]
        /\ UNCHANGED <<cred, deps, cleanAt, todo, now, polls, cleanFaults>> /\ cleanPool[p] = "none"
        /\ Clean!Blame(IF cleanAt \in {"idle", "list"} THEN {} ELSE {p}, "late")
    BY <1>2 DEF Clean!CreatePool
  <2>2. /\ cause' \in [CloudPools -> SUBSET {"fault", "timeout", "late"}]
        /\ \A q \in CloudPools : cause[q] # {} => cause'[q] # {}
        /\ cleanAt \notin {"idle", "list"} => cause'[p] # {}
    BY <2>1, BlameAdds
  <2> QED
    BY <2>1, <2>2
<1>3. ASSUME NEW p \in CloudPools, Clean!Deploy(p) PROVE Visiting'
  BY <1>3 DEF Clean!Deploy
<1>4. ASSUME NEW p \in CloudPools, Clean!StopPoolByUser(p) \/ Clean!PoolTerminated(p) PROVE Visiting'
  BY <1>4 DEF Clean!StopPoolByUser, Clean!PoolTerminated
<1>5. CASE Clean!DeleteCredential
  BY <1>5 DEF Clean!DeleteCredential
<1>6. CASE Clean!ListPools
  <2>1. /\ cleanAt' = "next" /\ UNCHANGED <<cred, cleanPool, deps, now, polls>>
        /\ \/ todo' = Clean!Targets /\ UNCHANGED <<cause, cleanFaults>>
           \/ Clean!Fault /\ todo' = {} /\ Clean!Blame(CloudPools, "fault")
    BY <1>6 DEF Clean!ListPools
  <2>2. CASE todo' = Clean!Targets /\ UNCHANGED <<cause, cleanFaults>>
    BY <1>6, <2>1, <2>2 DEF Clean!Targets, Clean!ListPools
  <2>3. CASE Clean!Fault /\ todo' = {} /\ Clean!Blame(CloudPools, "fault")
    BY <1>6, <2>1, <2>3, BlameAdds DEF Clean!Fault, Clean!ListPools
  <2> QED
    BY <2>1, <2>2, <2>3
<1>7. CASE Clean!NextPool
  BY <1>7 DEF Clean!NextPool
<1>8. CASE Clean!TerminateDeployments
  BY <1>8 DEF Clean!TerminateDeployments, Clean!Fault
<1>9. CASE Clean!StopPool
  <2>1. CASE UNCHANGED <<cause, cleanFaults>>
    <3>1. /\ cleanPool' = [cleanPool EXCEPT ![now] = IF @ = "running" THEN "terminating" ELSE @]
          /\ cleanAt' = "wait" /\ polls' = 0 /\ UNCHANGED <<cred, deps, todo, now>>
      BY <1>9, <2>1 DEF Clean!StopPool, Clean!Fault
    <3>2. /\ cleanPool' \in [CloudPools -> Clean!Live \cup {"none", "terminated", "deleted"}]
          /\ \A p \in CloudPools : cleanPool'[p] \in Clean!Live => cleanPool[p] \in Clean!Live
      BY <3>1
    <3> QED
      BY <1>9, <2>1, <3>1, <3>2 DEF Clean!StopPool
  <2>2. CASE Clean!Fault /\ cleanAt' = "next" /\ Clean!Blame({now}, "fault") /\ UNCHANGED <<cleanPool, polls>>
    <3>1. /\ cause' \in [CloudPools -> SUBSET {"fault", "timeout", "late"}]
          /\ \A p \in CloudPools : cause[p] # {} => cause'[p] # {}
          /\ cause'[now] # {}
      BY <2>2, BlameAdds
    <3>2. /\ cleanFaults' \in 0 .. MaxLost /\ cleanAt = "stop"
          /\ UNCHANGED <<cred, deps, todo, now, cleanPool, polls>>
      BY <1>9, <2>2 DEF Clean!StopPool, Clean!Fault
    <3> QED
      BY <2>2, <3>1, <3>2
  <2> QED
    BY <1>9, <2>1, <2>2 DEF Clean!StopPool
<1>10. CASE Clean!WaitTerminated
  <2>1. CASE /\ polls < MaxPolls
             /\ IF cleanPool[now] = "terminated" THEN cleanAt' = "delete" /\ UNCHANGED polls
                ELSE Clean!CountedPoll /\ UNCHANGED cleanAt
             /\ UNCHANGED <<cause, cleanFaults>>
    BY <1>10, <2>1 DEF Clean!WaitTerminated, Clean!CountedPoll
  <2>3. CASE polls < MaxPolls /\ Clean!Fault /\ Clean!CountedPoll /\ UNCHANGED <<cleanAt, cause>>
    BY <1>10, <2>3 DEF Clean!WaitTerminated, Clean!Fault, Clean!CountedPoll
  <2>2. CASE /\ polls = MaxPolls /\ cleanAt' = "next" /\ Clean!Blame({now}, "timeout")
             /\ UNCHANGED <<polls, cleanFaults>>
    BY <1>10, <2>2, BlameAdds DEF Clean!WaitTerminated
  <2> QED
    BY <1>10, <2>1, <2>2, <2>3 DEF Clean!WaitTerminated
<1>11. CASE Clean!DeletePool
  BY <1>11 DEF Clean!DeletePool, Clean!Fault
<1>12. CASE Clean!DropCredential
  BY <1>12 DEF Clean!DropCredential
<1> QED
  BY <1>1, <1>2, <1>3, <1>4, <1>5, <1>6, <1>7, <1>8, <1>9, <1>10, <1>11, <1>12
  DEF Clean!Next, Clean!Cleanup

(* A pool that runs without its credential has a cause, by the invariant   *)
(* Visiting.                                                               *)
LEMMA CleanupIsSafe ==
  ASSUME CleanupConstants
  PROVE  Clean!Spec => [](Clean!TypeOK /\ Clean!StrandedPoolHasCause)
<1>1. Clean!Init => Visiting
  BY DEF Clean!Init, Visiting, Clean!TypeOK, CleanupConstants, Clean!Live
<1>2. Visiting /\ [Clean!Next]_(Clean!vars) => Visiting'
  BY VisitingStep
<1>3. Visiting => Clean!TypeOK /\ Clean!StrandedPoolHasCause
  BY DEF Visiting, Clean!TypeOK, Clean!StrandedPoolHasCause
<1> QED
  BY <1>1, <1>2, <1>3, PTL DEF Clean!Spec

-----------------------------------------------------------------------------
ConfConstants == MaxVal \in Nat \ {0} /\ MaxCalls \in Nat

Vals == Conf!Real \cup Conf!Masks \cup {Conf!None, Conf!Gone}

Stages == {"read", "commit", "apply"}

Edits == [op : {"add", "update", "delete", "legacy"}, gw : Gateways, cred : Conf!Creds,
          at : Stages, ins : BOOLEAN, new : Conf!Configs, stale : SUBSET Conf!Creds]

Posts == [op : {"form"}, gw : Gateways, at : Stages, ins : BOOLEAN, new : Conf!Configs,
          stale : SUBSET Conf!Creds]

Forms == [op : {"form"}, vals : Conf!Configs, stale : SUBSET Conf!Creds]

(* No mask is in a value but those that stale forms posted.                *)
Unmasked(cfg, ex) == \A c \in Conf!Creds : cfg[c] \in Conf!Masks => c \in ex

(* A form shows the mask of what is stored, a handler writes what is       *)
(* stored, but for what is stale and for the credential it is about.       *)
Shown(vals, stale, d) == \A c \in Conf!Creds : c \in stale \/ Conf!Same(vals[c], Conf!Mask(d[c]))
Agrees(new, but, d) == \A c \in Conf!Creds : c \in but \/ Conf!Same(new[c], d[c])

EditOK(k, d, ex) ==
  /\ k \in Edits /\ Unmasked(k.new, ex)
  /\ k.at # "apply" => Agrees(k.new, k.stale \cup {k.cred}, d)

PostOK(k, d, ex) ==
  /\ k \in Posts
  /\ k.at = "read" => Shown(k.new, k.stale, d)
  /\ k.at # "read" => Unmasked(k.new, ex)
  /\ k.at = "commit" => Agrees(k.new, k.stale, d)

Explained ==
  /\ confRow \in BOOLEAN /\ confExcused \subseteq Conf!Creds
  /\ begun \in 0 .. MaxCalls /\ next \in 2 .. MaxVal + 1
  /\ db \in Conf!Configs /\ Unmasked(db, confExcused)
  /\ mem \in [Gateways -> Conf!Configs] /\ \A g \in Gateways : Unmasked(mem[g], confExcused)
  /\ poll = [g \in Gateways |-> poll[g]]
  /\ \A g \in Gateways :
       poll[g] = Conf!Idle \/ (poll[g].saw \in Conf!Configs /\ Unmasked(poll[g].saw, confExcused))
  /\ form = Conf!Idle \/ (form \in Forms /\ Shown(form.vals, form.stale, db))
  /\ call = [k \in Calls |-> call[k]]
  /\ \A k \in Calls :
       call[k] = Conf!Idle \/ EditOK(call[k], db, confExcused) \/ PostOK(call[k], db, confExcused)

(* Masking a secret gives a mask, masking anything else leaves it.         *)
LEMMA ValueFacts ==
  /\ Conf!None \in Vals /\ Conf!Gone \in Vals /\ Conf!None \notin Conf!Masks /\ Conf!Gone \notin Conf!Masks
  /\ \A v \in Vals : /\ Conf!Mask(v) \in Vals
                     /\ Conf!Mask(v) = v \/ (v \notin Conf!Masks /\ Conf!Mask(v) \in Conf!Masks)
                     /\ Conf!Mask(Conf!Mask(v)) = Conf!Mask(v)
                     /\ v \in {Conf!None, Conf!Gone} => Conf!Mask(v) = v
                     /\ Conf!Mask(v) \in {Conf!None, Conf!Gone} => Conf!Mask(v) = v
BY DEF Vals, Conf!Real, Conf!Masks, Conf!None, Conf!Gone, Conf!Mask

(* Two values agree if they are equal, or one is unset and the other       *)
(* missing.                                                                *)
LEMMA SameIff ==
  ASSUME NEW v, NEW w
  PROVE  Conf!Same(v, w) <=> v = w \/ (v = Conf!None /\ w = Conf!Gone) \/ (v = Conf!Gone /\ w = Conf!None)
BY DEF Conf!Same

(* A configuration gives each credential a value; the defaults hold no     *)
(* mask.                                                                   *)
LEMMA ConfigsAre ==
  /\ Conf!Configs = [Conf!Creds -> Vals]
  /\ Conf!Defaults \in Conf!Configs
  /\ \A c \in Conf!Creds : Conf!Defaults[c] \notin Conf!Masks
BY ValueFacts, Zenon DEF Conf!Configs, Vals, Conf!Defaults

(* Merging gives a configuration.                                          *)
LEMMA MergeIs ==
  ASSUME NEW old \in Conf!Configs, NEW new \in Conf!Configs
  PROVE  /\ Conf!Merge(old, new) \in Conf!Configs
         /\ \A c \in Conf!Creds : \/ Conf!Merge(old, new)[c] = old[c]
                                  \/ /\ Conf!Merge(old, new)[c] = new[c]
                                     /\ new[c] \in Conf!Masks => new[c] # Conf!Mask(old[c])
BY ConfigsAre DEF Conf!Merge

(* So does setting a copy.                                                 *)
LEMMA UpdateIs ==
  ASSUME NEW m \in Conf!Configs, NEW cfg \in Conf!Configs
  PROVE  /\ Conf!UpdateLocal(m, cfg) \in Conf!Configs
         /\ \A c \in Conf!Creds : Conf!UpdateLocal(m, cfg)[c] \in {m[c], cfg[c]}
BY ConfigsAre DEF Conf!UpdateLocal

(* So does giving a form its secrets back.                                 *)
LEMMA PreservedIs ==
  ASSUME NEW cfg \in Conf!Configs, NEW stored \in Conf!Configs
  PROVE  /\ Conf!Preserved(cfg, stored) \in Conf!Configs
         /\ \A c \in Conf!Creds : Conf!Preserved(cfg, stored)[c] \in {stored[c], cfg[c]}
BY ConfigsAre DEF Conf!Preserved

(* A copy that is set to a value without unexplained masks has none.       *)
LEMMA UpdateUnmasked ==
  ASSUME NEW m \in Conf!Configs, NEW cfg \in Conf!Configs, NEW ex,
         Unmasked(m, ex), Unmasked(cfg, ex)
  PROVE  Unmasked(Conf!UpdateLocal(m, cfg), ex)
BY UpdateIs DEF Unmasked

(* A merge with what is stored adds no mask and keeps what the value       *)
(* agreed on with it.                                                      *)
LEMMA MergeKeeps ==
  ASSUME NEW d \in Conf!Configs, NEW new \in Conf!Configs, NEW but, NEW ex
  PROVE  /\ Unmasked(d, ex) /\ Unmasked(new, ex) => Unmasked(Conf!Merge(d, new), ex)
         /\ Agrees(new, but, d) => Agrees(Conf!Merge(d, new), but, d)
BY MergeIs, SameIff DEF Unmasked, Agrees

(* A form that comes back with masks is given the secrets it stands for.   *)
LEMMA PostRestored ==
  ASSUME NEW d \in Conf!Configs, NEW new \in Conf!Configs, NEW stale, NEW ex,
         Shown(new, stale, d), Unmasked(d, ex)
  PROVE  LET m == Conf!Merge(d, Conf!Preserved(new, d)) IN
         m \in Conf!Configs /\ Agrees(m, stale, d) /\ Unmasked(m, ex \cup stale)
<1> DEFINE p == Conf!Preserved(new, d)
           m == Conf!Merge(d, p)
<1>1. p \in Conf!Configs /\ \A c \in Conf!Creds : p[c] \in {d[c], new[c]}
  BY PreservedIs
<1> HIDE DEF p
<1>2. /\ m \in Conf!Configs
      /\ \A c \in Conf!Creds : m[c] = d[c] \/ (m[c] = p[c] /\ (p[c] \in Conf!Masks => p[c] # Conf!Mask(d[c])))
  BY <1>1, MergeIs
<1> HIDE DEF m
<1>3. ASSUME NEW c \in Conf!Creds
      PROVE  (c \in stale \/ Conf!Same(m[c], d[c])) /\ (m[c] \in Conf!Masks => c \in ex \cup stale)
  <2>1. d[c] \in Vals
    BY ConfigsAre
  <2>2. CASE m[c] = d[c]
    BY <2>2, SameIff DEF Unmasked
  <2>3. CASE m[c] = new[c] /\ (new[c] \in Conf!Masks => new[c] # Conf!Mask(d[c])) /\ c \notin stale
    <3>1. Conf!Same(new[c], Conf!Mask(d[c]))
      BY <2>3 DEF Shown
    <3>2. new[c] = Conf!Mask(d[c]) \/ (new[c] = Conf!None /\ Conf!Mask(d[c]) = Conf!Gone)
            \/ (new[c] = Conf!Gone /\ Conf!Mask(d[c]) = Conf!None)
      BY <3>1, SameIff
    <3>3. /\ Conf!Mask(d[c]) = d[c] \/ Conf!Mask(d[c]) \in Conf!Masks
          /\ Conf!Mask(d[c]) \in {Conf!None, Conf!Gone} => Conf!Mask(d[c]) = d[c]
          /\ Conf!None \notin Conf!Masks /\ Conf!Gone \notin Conf!Masks
      BY <2>1, ValueFacts
    <3> QED
      BY <2>3, <3>2, <3>3, SameIff
  <2> QED
    BY <1>1, <1>2, <2>2, <2>3
<1>4. m = Conf!Merge(d, Conf!Preserved(new, d))
  BY DEF m, p
<1> QED
  BY <1>2, <1>3, <1>4 DEF Agrees, Unmasked

(* A commit makes stale whatever it changes, so what others hold of the    *)
(* rest is still what is stored.                                           *)
LEMMA OthersGrowStale ==
  ASSUME NEW d \in Conf!Configs, NEW new \in Conf!Configs, NEW x \in Conf!Configs, NEW but,
         NEW more, more = {c \in Conf!Creds : ~Conf!Same(new[c], d[c])}
  PROVE  /\ Agrees(x, but, d) => Agrees(x, but \cup more, new)
         /\ Shown(x, but, d) => Shown(x, but \cup more, new)
<1>1. ASSUME NEW c \in Conf!Creds, c \notin more
      PROVE  /\ Conf!Same(x[c], d[c]) => Conf!Same(x[c], new[c])
             /\ Conf!Same(x[c], Conf!Mask(d[c])) => Conf!Same(x[c], Conf!Mask(new[c]))
  <2>1. Conf!Same(new[c], d[c])
    BY <1>1
  <2>2. d[c] \in Vals /\ new[c] \in Vals
    BY ConfigsAre
  <2>3. new[c] # d[c] => Conf!Mask(new[c]) = new[c] /\ Conf!Mask(d[c]) = d[c]
    BY <2>1, <2>2, SameIff, ValueFacts
  <2> QED
    BY <2>1, <2>3, SameIff
<1> QED
  BY <1>1 DEF Agrees, Shown

(* A dump of a copy with one credential changed agrees with the row but    *)
(* for what is stale and that credential.                                  *)
LEMMA DumpKeeps ==
  ASSUME ConfConstants, Explained, NEW k \in Calls, NEW g \in Gateways, NEW c \in Conf!Creds,
         NEW v \in Vals \ Conf!Masks, NEW op \in {"add", "update", "delete", "legacy"},
         Conf!Dump(k, op, g, c, v), next' \in 2 .. MaxVal + 1
  PROVE  Explained'
<1> DEFINE new == [mem[g] EXCEPT ![c] = v]
           stale == Conf!Stale(mem[g]) \ {c}
           b == [op |-> op, gw |-> g, cred |-> c, at |-> "read", ins |-> FALSE,
                 new |-> new, stale |-> stale]
<1>1. mem[g] \in Conf!Configs /\ Unmasked(mem[g], confExcused) /\ db \in Conf!Configs
  BY DEF Explained
<1>2. new \in Conf!Configs /\ Unmasked(new, confExcused)
  BY <1>1, ConfigsAre DEF Unmasked
<1>3. stale \subseteq Conf!Creds /\ Agrees(new, stale \cup {c}, db)
  BY <1>1, ConfigsAre DEF Conf!Stale, Agrees
<1>4. /\ call' = [call EXCEPT ![k] = b] /\ begun' \in 0 .. MaxCalls
      /\ UNCHANGED <<confRow, db, mem, poll, form, confExcused>>
  BY DEF Conf!Dump, Explained, ConfConstants
<1> HIDE DEF new, stale
<1>5. b \in Edits /\ b.new = new /\ b.stale = stale /\ b.cred = c
  BY <1>2, <1>3 DEF Edits, Stages
<1> HIDE DEF b
<1>6. EditOK(b, db, confExcused)
  BY <1>2, <1>3, <1>5 DEF EditOK
<1> QED
  BY <1>4, <1>6 DEF Explained

(* Each handler that changes one credential begins with such a dump.       *)
LEMMA BeginEditKeeps ==
  ASSUME ConfConstants, Explained, NEW k \in Calls,
         \/ Conf!AddProviderCredential(k) \/ Conf!UpdateProviderCredential(k)
         \/ Conf!DeleteProviderCredential(k) \/ Conf!DeleteNosanaApiKey(k)
  PROVE  Explained'
<1>1. next \in 2 .. MaxVal + 1
  BY DEF Explained
<1>2. /\ Conf!NewValue => /\ next' \in 2 .. MaxVal + 1
                          /\ <<"real", next>> \in Vals \ Conf!Masks
  BY <1>1 DEF Conf!NewValue, Vals, Conf!Real, Conf!Masks, ConfConstants
<1>3. Conf!Gone \in Vals \ Conf!Masks
  BY ValueFacts
<1>4. CASE Conf!AddProviderCredential(k)
  BY <1>2, <1>4, DumpKeeps DEF Conf!AddProviderCredential
<1>5. CASE Conf!UpdateProviderCredential(k)
  BY <1>2, <1>5, DumpKeeps DEF Conf!UpdateProviderCredential
<1>6. CASE Conf!DeleteProviderCredential(k)
  BY <1>1, <1>3, <1>6, DumpKeeps DEF Conf!DeleteProviderCredential
<1>7. CASE Conf!DeleteNosanaApiKey(k)
  BY <1>1, <1>3, <1>7, DumpKeeps DEF Conf!DeleteNosanaApiKey, Conf!Creds, Conf!Listed
<1> QED
  BY <1>4, <1>5, <1>6, <1>7

(* A form shows the masks of the row where its copy is not stale.          *)
LEMMA FormKeeps ==
  ASSUME Explained, Conf!GetProviderConfig PROVE Explained'
<1>1. PICK g \in Gateways :
        form' = [op |-> "form", vals |-> [c \in Conf!Creds |-> Conf!Mask(mem[g][c])],
                 stale |-> Conf!Stale(mem[g])]
  BY DEF Conf!GetProviderConfig
<1> DEFINE vals == [c \in Conf!Creds |-> Conf!Mask(mem[g][c])]
<1>2. mem[g] \in [Conf!Creds -> Vals] /\ db \in [Conf!Creds -> Vals]
  BY ConfigsAre DEF Explained
<1>3. vals \in Conf!Configs
  BY <1>2, ConfigsAre, ValueFacts
<1>4. ASSUME NEW c \in Conf!Creds, c \notin Conf!Stale(mem[g]) PROVE Conf!Same(vals[c], Conf!Mask(db[c]))
  <2>1. Conf!Same(mem[g][c], db[c])
    BY <1>4 DEF Conf!Stale
  <2>2. mem[g][c] \in Vals /\ db[c] \in Vals /\ vals[c] = Conf!Mask(mem[g][c])
    BY <1>2
  <2> QED
    BY <2>1, <2>2, SameIff, ValueFacts
<1>5. Shown(vals, Conf!Stale(mem[g]), db)
  BY <1>4 DEF Shown
<1> HIDE DEF vals
<1>6. form' = [op |-> "form", vals |-> vals, stale |-> Conf!Stale(mem[g])]
  BY <1>1 DEF vals
<1>7. form' \in Forms /\ form'.vals = vals /\ form'.stale = Conf!Stale(mem[g])
  BY <1>3, <1>6 DEF Forms, Conf!Stale
<1> QED
  BY <1>5, <1>7 DEF Conf!GetProviderConfig, Explained

(* A post takes the form as it was shown.                                  *)
LEMMA PostKeeps ==
  ASSUME ConfConstants, Explained, NEW k \in Calls, Conf!UpdateProviderConfig(k) PROVE Explained'
<1>1. PICK g \in Gateways : call' = [call EXCEPT ![k] =
         [op |-> "form", gw |-> g, at |-> "read", ins |-> FALSE,
          new |-> form.vals, stale |-> form.stale]]
  BY DEF Conf!UpdateProviderConfig
<1> DEFINE b == [op |-> "form", gw |-> g, at |-> "read", ins |-> FALSE,
                 new |-> form.vals, stale |-> form.stale]
<1>2. form \in Forms /\ Shown(form.vals, form.stale, db)
  BY DEF Conf!UpdateProviderConfig, Explained
<1>3. b \in Posts /\ b.new = form.vals /\ b.stale = form.stale /\ b.at = "read"
  <2>1. form.vals \in Conf!Configs /\ form.stale \in SUBSET Conf!Creds
    BY <1>2 DEF Forms
  <2> QED
    BY <2>1 DEF Posts, Stages
<1>4. call' = [call EXCEPT ![k] = b]
  BY <1>1
<1> HIDE DEF b
<1>5. begun < MaxCalls /\ begun' = begun + 1 /\ begun \in 0 .. MaxCalls
  BY DEF Conf!UpdateProviderConfig, Explained
<1>6. begun' \in 0 .. MaxCalls
  BY <1>5 DEF ConfConstants
<1>7. form' = Conf!Idle /\ UNCHANGED <<confRow, db, mem, poll, confExcused, next>>
  BY DEF Conf!UpdateProviderConfig
<1>8. PostOK(b, db, confExcused)
  BY <1>2, <1>3 DEF PostOK
<1> QED
  BY <1>4, <1>6, <1>7, <1>8 DEF Explained

(* What a handler is about to write agrees with the row it read, but for   *)
(* what is stale and what it was asked to change.                          *)
LEMMA ReadKeeps ==
  ASSUME Explained, NEW k \in Calls, Conf!ReadRow(k) PROVE Explained'
<1>0. PICK b : b = call[k]
  OBVIOUS
<1> DEFINE x == CASE b.op = "delete" -> b.new
                  [] b.op = "form" -> Conf!Merge(db, Conf!Preserved(b.new, db))
                  [] OTHER -> Conf!Merge(db, b.new)
           n == [b EXCEPT !.at = "commit", !.ins = ~confRow, !.new = x]
<1>1. /\ b # Conf!Idle /\ b.at = "read" /\ call' = [call EXCEPT ![k] = n]
      /\ confExcused' = IF b.op = "form" THEN confExcused \cup b.stale ELSE confExcused
      /\ UNCHANGED <<confRow, db, mem, poll, form, begun, next>>
  BY <1>0 DEF Conf!ReadRow
<1>2. EditOK(b, db, confExcused) \/ PostOK(b, db, confExcused)
  BY <1>0, <1>1 DEF Explained
<1>3. db \in Conf!Configs /\ Unmasked(db, confExcused)
  BY DEF Explained
<1>4. (~confRow) \in BOOLEAN
  BY Zenon
<1>5. CASE EditOK(b, db, confExcused)
  <2>1. /\ b \in Edits /\ b.new \in Conf!Configs /\ Unmasked(b.new, confExcused)
        /\ Agrees(b.new, b.stale \cup {b.cred}, db) /\ b.op # "form"
    BY <1>1, <1>5 DEF EditOK, Edits
  <2>2. x = b.new \/ x = Conf!Merge(db, b.new)
    BY <2>1
  <2>3. x \in Conf!Configs /\ Unmasked(x, confExcused) /\ Agrees(x, b.stale \cup {b.cred}, db)
    BY <1>3, <2>1, <2>2, MergeIs, MergeKeeps
  <2> HIDE DEF x
  <2>4. n \in Edits /\ n.new = x /\ n.stale = b.stale /\ n.cred = b.cred
    BY <1>4, <2>1, <2>3 DEF Edits, Stages
  <2> HIDE DEF n
  <2>5. EditOK(n, db, confExcused)
    BY <2>3, <2>4 DEF EditOK
  <2>6. UNCHANGED confExcused
    BY <1>1, <2>1
  <2> QED
    BY <1>1, <2>5, <2>6 DEF Explained
<1>6. CASE PostOK(b, db, confExcused)
  <2>1. /\ b \in Posts /\ b.new \in Conf!Configs /\ Shown(b.new, b.stale, db)
        /\ b.op = "form" /\ b.stale \subseteq Conf!Creds
    BY <1>1, <1>6 DEF PostOK, Posts
  <2>2. x = Conf!Merge(db, Conf!Preserved(b.new, db)) /\ confExcused' = confExcused \cup b.stale
    BY <1>1, <2>1
  <2>3. x \in Conf!Configs /\ Agrees(x, b.stale, db) /\ Unmasked(x, confExcused')
    BY <1>3, <2>1, <2>2, PostRestored
  <2> HIDE DEF x
  <2>4. n \in Posts /\ n.new = x /\ n.stale = b.stale /\ n.at = "commit"
    BY <1>4, <2>1, <2>3 DEF Posts, Stages
  <2> HIDE DEF n
  <2>5. PostOK(n, db, confExcused')
    BY <2>3, <2>4 DEF PostOK
  <2>6. \A cfg : Unmasked(cfg, confExcused) => Unmasked(cfg, confExcused')
    BY <2>2 DEF Unmasked
  <2>7. \A j \in Calls : call[j] = Conf!Idle \/ EditOK(call[j], db, confExcused')
                           \/ PostOK(call[j], db, confExcused')
    BY <2>6 DEF Explained, EditOK, PostOK
  <2>8. /\ call' = [j \in Calls |-> call'[j]]
        /\ \A j \in Calls : call'[j] = Conf!Idle \/ EditOK(call'[j], db, confExcused')
                              \/ PostOK(call'[j], db, confExcused')
    BY <1>1, <2>5, <2>7 DEF Explained
  <2>9. confExcused' \subseteq Conf!Creds
    BY <2>1, <2>2 DEF Explained
  <2> QED
    BY <1>1, <2>6, <2>8, <2>9 DEF Explained
<1> QED
  BY <1>2, <1>5, <1>6

(* A write makes the others stale on what it changed, and no more.         *)
LEMMA CommitKeeps ==
  ASSUME Explained, NEW k \in Calls, Conf!CommitRow(k) PROVE Explained'
<1>0. PICK b : b = call[k]
  OBVIOUS
<1>1. /\ b # Conf!Idle /\ b.at = "commit" /\ UNCHANGED <<mem, poll, confExcused, begun, next>>
      /\ EditOK(b, db, confExcused) \/ PostOK(b, db, confExcused)
  BY <1>0 DEF Conf!CommitRow, Explained
<1>2. CASE b.ins /\ confRow
  <2>1. call' = [call EXCEPT ![k] = Conf!Idle] /\ UNCHANGED <<confRow, db, form>>
    BY <1>0, <1>2 DEF Conf!CommitRow
  <2> QED
    BY <1>1, <2>1 DEF Explained
<1>3. CASE ~(b.ins /\ confRow)
  <2> DEFINE more == Conf!Stale(b.new)
  <2>1. /\ confRow' = TRUE /\ db' = b.new
        /\ call' = [j \in Calls |-> IF j = k THEN [b EXCEPT !.at = "apply"]
                                    ELSE IF call[j] = Conf!Idle THEN Conf!Idle
                                    ELSE [call[j] EXCEPT !.stale = @ \cup more]]
        /\ form' = IF form = Conf!Idle THEN Conf!Idle ELSE [form EXCEPT !.stale = @ \cup more]
    BY <1>0, <1>3 DEF Conf!CommitRow
  <2>2. /\ db \in Conf!Configs /\ b.new \in Conf!Configs /\ more = {c \in Conf!Creds : ~Conf!Same(b.new[c], db[c])}
        /\ Unmasked(b.new, confExcused)
    BY <1>1 DEF Explained, EditOK, PostOK, Edits, Posts, Conf!Stale
  <2> HIDE DEF more
  <2>3. more \subseteq Conf!Creds
    BY <2>2
  <2>9. ASSUME NEW y \in Conf!Configs, NEW but
        PROVE  /\ Agrees(y, but, db) => Agrees(y, but \cup more, db')
               /\ Shown(y, but, db) => Shown(y, but \cup more, db')
    <3>1. more = {c \in Conf!Creds : ~Conf!Same(b.new[c], db[c])} /\ b.new \in Conf!Configs /\ db \in Conf!Configs
      BY <2>2
    <3>2. /\ Agrees(y, but, db) => Agrees(y, but \cup more, b.new)
          /\ Shown(y, but, db) => Shown(y, but \cup more, b.new)
      BY <3>1, OthersGrowStale
    <3> QED
      BY <2>1, <3>2
  <2>4. \/ EditOK([b EXCEPT !.at = "apply"], db', confExcused)
        \/ PostOK([b EXCEPT !.at = "apply"], db', confExcused)
    <3>1. CASE EditOK(b, db, confExcused)
      <4>1. b \in Edits
        BY <3>1 DEF EditOK
      <4>2. /\ [b EXCEPT !.at = "apply"] \in Edits /\ [b EXCEPT !.at = "apply"].at = "apply"
            /\ [b EXCEPT !.at = "apply"].new = b.new
        BY <4>1 DEF Edits, Stages
      <4> QED
        BY <2>2, <4>2 DEF EditOK
    <3>2. CASE PostOK(b, db, confExcused)
      <4>1. b \in Posts
        BY <3>2 DEF PostOK
      <4>2. /\ [b EXCEPT !.at = "apply"] \in Posts /\ [b EXCEPT !.at = "apply"].at = "apply"
            /\ [b EXCEPT !.at = "apply"].new = b.new
        BY <4>1 DEF Posts, Stages
      <4> QED
        BY <2>2, <4>2 DEF PostOK
    <3> QED
      BY <1>1, <3>1, <3>2
  <2>5. ASSUME NEW o, EditOK(o, db, confExcused) \/ PostOK(o, db, confExcused)
        PROVE  \/ EditOK([o EXCEPT !.stale = @ \cup more], db', confExcused)
               \/ PostOK([o EXCEPT !.stale = @ \cup more], db', confExcused)
    <3> DEFINE n == [o EXCEPT !.stale = @ \cup more]
    <3>1. CASE EditOK(o, db, confExcused)
      <4>1. o \in Edits
        BY <3>1 DEF EditOK
      <4>2. /\ n \in Edits /\ n.at = o.at /\ n.new = o.new /\ n.cred = o.cred
            /\ n.stale = o.stale \cup more /\ o.new \in Conf!Configs
        BY <2>3, <4>1 DEF Edits
      <4> HIDE DEF n
      <4>3. n.stale \cup {n.cred} = (o.stale \cup {o.cred}) \cup more
        BY <4>2
      <4>4. Agrees(o.new, o.stale \cup {o.cred}, db) => Agrees(n.new, n.stale \cup {n.cred}, db')
        BY <2>9, <4>2, <4>3, Zenon
      <4>5. EditOK(n, db', confExcused)
        BY <3>1, <4>2, <4>4 DEF EditOK
      <4> QED
        BY <4>5 DEF n
    <3>2. CASE PostOK(o, db, confExcused)
      <4>1. o \in Posts
        BY <3>2 DEF PostOK
      <4>2. /\ n \in Posts /\ n.at = o.at /\ n.new = o.new
            /\ n.stale = o.stale \cup more /\ o.new \in Conf!Configs
        BY <2>3, <4>1 DEF Posts
      <4> HIDE DEF n
      <4>3. /\ Agrees(o.new, o.stale, db) => Agrees(n.new, n.stale, db')
            /\ Shown(o.new, o.stale, db) => Shown(n.new, n.stale, db')
        BY <2>9, <4>2, Zenon
      <4>4. PostOK(n, db', confExcused)
        BY <3>2, <4>2, <4>3 DEF PostOK
      <4> QED
        BY <4>4 DEF n
    <3> QED
      BY <2>5, <3>1, <3>2
  <2>6. /\ call' = [j \in Calls |-> call'[j]]
        /\ \A j \in Calls : call'[j] = Conf!Idle \/ EditOK(call'[j], db', confExcused)
                              \/ PostOK(call'[j], db', confExcused)
    <3>1. \A j \in Calls : call[j] = Conf!Idle \/ EditOK(call[j], db, confExcused)
                              \/ PostOK(call[j], db, confExcused)
      BY DEF Explained
    <3> QED
      BY <2>1, <2>4, <2>5, <3>1, Zenon
  <2>7. form' = Conf!Idle \/ (form' \in Forms /\ Shown(form'.vals, form'.stale, db'))
    <3>1. CASE form = Conf!Idle
      BY <2>1, <3>1
    <3>2. CASE form \in Forms /\ Shown(form.vals, form.stale, db) /\ form # Conf!Idle
      <4>1. form' = [form EXCEPT !.stale = @ \cup more]
        BY <2>1, <3>2
      <4>2. /\ form' \in Forms /\ form'.vals = form.vals /\ form.vals \in Conf!Configs
            /\ form'.stale = form.stale \cup more
        BY <2>3, <3>2, <4>1 DEF Forms
      <4> QED
        BY <2>9, <3>2, <4>2, Zenon
    <3> QED
      BY <3>1, <3>2 DEF Explained
  <2> QED
    BY <1>1, <2>1, <2>2, <2>6, <2>7 DEF Explained
<1> QED
  BY <1>2, <1>3

(* A handler sets its copy to what it wrote.                               *)
LEMMA ApplyKeeps ==
  ASSUME Explained, NEW k \in Calls, Conf!UpdateLocalSettings(k) PROVE Explained'
<1>0. PICK b : b = call[k]
  OBVIOUS
<1>1. /\ b # Conf!Idle /\ b.at = "apply" /\ mem' = [mem EXCEPT ![b.gw] = Conf!UpdateLocal(@, b.new)]
      /\ call' = [call EXCEPT ![k] = Conf!Idle]
      /\ UNCHANGED <<confRow, db, poll, form, confExcused, begun, next>>
  BY <1>0 DEF Conf!UpdateLocalSettings
<1>2. b.gw \in Gateways /\ b.new \in Conf!Configs /\ Unmasked(b.new, confExcused)
  BY <1>0, <1>1 DEF Explained, EditOK, PostOK, Edits, Posts
<1>3. PICK g \in Gateways : g = b.gw
  BY <1>2
<1>4. mem[g] \in Conf!Configs /\ Unmasked(mem[g], confExcused)
  BY DEF Explained
<1>5. /\ Conf!UpdateLocal(mem[g], b.new) \in Conf!Configs
      /\ Unmasked(Conf!UpdateLocal(mem[g], b.new), confExcused)
  BY <1>2, <1>4, UpdateIs, UpdateUnmasked
<1> QED
  BY <1>1, <1>3, <1>5 DEF Explained

(* Polls and restarts set a copy to a value of the row.                    *)
LEMMA GatewayKeeps ==
  ASSUME Explained, NEW g \in Gateways, Conf!LoadConfig(g) \/ Conf!PollOnce(g) \/ Conf!Restart(g)
  PROVE  Explained'
<1>1. mem[g] \in Conf!Configs /\ Unmasked(mem[g], confExcused) /\ db \in Conf!Configs /\ Unmasked(db, confExcused)
  BY DEF Explained
<1>2. CASE Conf!LoadConfig(g)
  <2>1. [op |-> "poll", saw |-> db].saw = db
    OBVIOUS
  <2> QED
    BY <1>1, <1>2, <2>1 DEF Conf!LoadConfig, Explained
<1>3. CASE Conf!PollOnce(g)
  <2>1. poll[g].saw \in Conf!Configs /\ Unmasked(poll[g].saw, confExcused)
    BY <1>3 DEF Conf!PollOnce, Explained
  <2>2. /\ Conf!UpdateLocal(mem[g], poll[g].saw) \in Conf!Configs
        /\ Unmasked(Conf!UpdateLocal(mem[g], poll[g].saw), confExcused)
    BY <1>1, <2>1, UpdateIs, UpdateUnmasked
  <2> QED
    BY <1>3, <2>2 DEF Conf!PollOnce, Explained
<1>4. CASE Conf!Restart(g)
  <2> DEFINE m == IF confRow THEN Conf!UpdateLocal(Conf!Defaults, db) ELSE Conf!Defaults
  <2>1. Conf!Defaults \in Conf!Configs /\ Unmasked(Conf!Defaults, confExcused)
    BY ConfigsAre DEF Unmasked
  <2>2. m \in Conf!Configs /\ Unmasked(m, confExcused)
    BY <1>1, <2>1, UpdateIs, UpdateUnmasked
  <2>3. /\ mem' = [mem EXCEPT ![g] = m] /\ poll' = [poll EXCEPT ![g] = Conf!Idle]
        /\ call' = [k \in Calls |->
                      IF call[k] # Conf!Idle /\ call[k].gw = g THEN Conf!Idle ELSE call[k]]
        /\ UNCHANGED <<confRow, db, form, confExcused, begun, next>>
    BY <1>4 DEF Conf!Restart
  <2> HIDE DEF m
  <2> QED
    BY <2>2, <2>3 DEF Explained
<1> QED
  BY <1>2, <1>3, <1>4

(* The invariant holds of an empty configuration and of a stored one.      *)
LEMMA ConfInitHolds ==
  ASSUME ConfConstants, Conf!Init PROVE Explained
<1>1. PICK stored \in SUBSET Conf!Creds :
       /\ confRow = (stored # {})
       /\ db = [c \in Conf!Creds |-> IF c \in stored THEN <<"real", 1>> ELSE Conf!Gone]
       /\ mem = [g \in Gateways |->
                  [c \in Conf!Creds |-> IF c \in stored THEN <<"real", 1>> ELSE Conf!Defaults[c]]]
  BY DEF Conf!Init
<1>2. confRow \in BOOLEAN
  BY <1>1, Zenon
<1>3. <<"real", 1>> \in Vals \ Conf!Masks
  BY DEF ConfConstants, Vals, Conf!Real, Conf!Masks
<1>4. db \in Conf!Configs /\ Unmasked(db, {})
  BY <1>1, <1>3, ValueFacts, ConfigsAre DEF Unmasked
<1>5. \A g \in Gateways : mem[g] \in Conf!Configs /\ Unmasked(mem[g], {})
  BY <1>1, <1>3, ConfigsAre DEF Unmasked
<1>6. mem \in [Gateways -> Conf!Configs]
  BY <1>1, <1>5
<1>7. /\ poll = [g \in Gateways |-> poll[g]] /\ \A g \in Gateways : poll[g] = Conf!Idle
      /\ call = [k \in Calls |-> call[k]] /\ \A k \in Calls : call[k] = Conf!Idle
      /\ form = Conf!Idle /\ confExcused = {}
  BY DEF Conf!Init
<1>8. begun \in 0 .. MaxCalls /\ next \in 2 .. MaxVal + 1
  BY DEF Conf!Init, ConfConstants
<1> QED
  BY <1>2, <1>4, <1>5, <1>6, <1>7, <1>8 DEF Explained

(* The invariant is inductive.                                             *)
LEMMA ConfStep ==
  ASSUME ConfConstants, Explained, [Conf!Next]_(Conf!vars) PROVE Explained'
<1>1. CASE UNCHANGED Conf!vars
  BY <1>1 DEF Conf!vars, Explained
<1>2. ASSUME NEW k \in Calls, Conf!Handler(k) PROVE Explained'
  BY <1>2, ReadKeeps, CommitKeeps, ApplyKeeps DEF Conf!Handler
<1> QED
  BY <1>1, <1>2, BeginEditKeeps, PostKeeps, GatewayKeeps, FormKeeps DEF Conf!Next

(* With it a write changes only what the handler was asked to change, or   *)
(* what was stale.                                                         *)
LEMMA CollateralStep ==
  ASSUME Explained, [Conf!Next]_(Conf!vars) PROVE [Conf!CollateralHasCause]_(Conf!vars)
<1> SUFFICES ASSUME Conf!Next, NEW k \in Calls,
                    call[k] # Conf!Idle, call[k].at = "commit",
                    call'[k] # Conf!Idle, call'[k].at = "apply",
                    NEW c \in Conf!Creds, c \notin call[k].stale,
                    ~(call[k].op # "form" /\ c = call[k].cred)
             PROVE  Conf!Same(db'[c], db[c])
  BY Zenon DEF Conf!CollateralHasCause
<1>1. call = [j \in Calls |-> call[j]]
  BY DEF Explained
<1>2. CASE UNCHANGED call
  BY <1>2
<1>3. ASSUME NEW j \in Calls, NEW x, call' = [call EXCEPT ![j] = x], x = Conf!Idle \/ x.at # "apply"
      PROVE  FALSE
  BY <1>1, <1>3
<1>4. ASSUME NEW j \in Calls, NEW op, NEW g, NEW e, NEW v, Conf!Dump(j, op, g, e, v) PROVE FALSE
  <2> DEFINE x == [op |-> op, gw |-> g, cred |-> e, at |-> "read", ins |-> FALSE,
                   new |-> [mem[g] EXCEPT ![e] = v], stale |-> Conf!Stale(mem[g]) \ {e}]
  <2>1. call' = [call EXCEPT ![j] = x] /\ x.at = "read"
    BY <1>4 DEF Conf!Dump
  <2> HIDE DEF x
  <2> QED
    BY <1>3, <2>1
<1>5. ASSUME NEW j \in Calls, Conf!UpdateProviderConfig(j) PROVE FALSE
  <2>1. PICK g \in Gateways : call' = [call EXCEPT ![j] =
           [op |-> "form", gw |-> g, at |-> "read", ins |-> FALSE,
            new |-> form.vals, stale |-> form.stale]]
    BY <1>5 DEF Conf!UpdateProviderConfig
  <2> QED
    BY <1>3, <2>1
<1>6. ASSUME NEW j \in Calls, Conf!ReadRow(j) PROVE FALSE
  BY <1>1, <1>6 DEF Conf!ReadRow
<1>7. ASSUME NEW j \in Calls, Conf!UpdateLocalSettings(j) PROVE FALSE
  BY <1>1, <1>7 DEF Conf!UpdateLocalSettings
<1>8. ASSUME NEW j \in Calls, Conf!CommitRow(j) PROVE Conf!Same(db'[c], db[c])
  <2>1. CASE call[j].ins /\ confRow
    BY <1>1, <1>8, <2>1 DEF Conf!CommitRow
  <2>2. CASE ~(call[j].ins /\ confRow)
    <3>1. /\ db' = call[j].new
          /\ call' = [i \in Calls |->
               IF i = j THEN [call[j] EXCEPT !.at = "apply"]
               ELSE IF call[i] = Conf!Idle THEN Conf!Idle
               ELSE [call[i] EXCEPT !.stale = @ \cup Conf!Stale(call[j].new)]]
      BY <1>8, <2>2 DEF Conf!CommitRow
    <3>2. PICK b : b = call[k]
      OBVIOUS
    <3>3. \/ EditOK(b, db, confExcused) \/ PostOK(b, db, confExcused)
      BY <3>2 DEF Explained
    <3>4. b \in Edits \/ b \in Posts
      BY <3>3 DEF EditOK, PostOK
    <3>5. j = k
      <4>1. SUFFICES ASSUME j # k PROVE [b EXCEPT !.stale = @ \cup Conf!Stale(call[j].new)].at = b.at
        BY <3>1, <3>2
      <4> QED
        BY <3>4 DEF Edits, Posts
    <3>6. Conf!Same(b.new[c], db[c])
      BY <3>2, <3>3 DEF EditOK, PostOK, Agrees, Edits, Posts
    <3> QED
      BY <3>1, <3>2, <3>5, <3>6
  <2> QED
    BY <2>1, <2>2
<1>9. ASSUME NEW g \in Gateways, Conf!LoadConfig(g) \/ Conf!PollOnce(g) \/ Conf!Restart(g) PROVE FALSE
  BY <1>9 DEF Conf!LoadConfig, Conf!PollOnce, Conf!Restart
<1>10. ASSUME Conf!GetProviderConfig PROVE FALSE
  BY <1>10 DEF Conf!GetProviderConfig
<1>11. ASSUME NEW j \in Calls,
              \/ Conf!AddProviderCredential(j) \/ Conf!UpdateProviderCredential(j)
              \/ Conf!DeleteProviderCredential(j) \/ Conf!DeleteNosanaApiKey(j)
       PROVE  FALSE
  BY <1>4, <1>11 DEF Conf!AddProviderCredential, Conf!UpdateProviderCredential,
                     Conf!DeleteProviderCredential, Conf!DeleteNosanaApiKey
<1> QED
  BY <1>5, <1>6, <1>7, <1>8, <1>9, <1>10, <1>11 DEF Conf!Next, Conf!Handler

(* Masks and unasked changes have their cause, by the invariant Explained. *)
LEMMA ConfigIsSafe ==
  ASSUME ConfConstants
  PROVE  Conf!Spec => [](Conf!TypeOK /\ Conf!MaskHasCause) /\ [][Conf!CollateralHasCause]_(Conf!vars)
<1>1. Explained => Conf!TypeOK /\ Conf!MaskHasCause
  <2> SUFFICES ASSUME Explained PROVE Conf!TypeOK /\ Conf!MaskHasCause
    OBVIOUS
  <2>1. form = Conf!Idle \/ (form.vals \in Conf!Configs /\ form.stale \subseteq Conf!Creds)
    BY DEF Explained, Forms
  <2>2. \A k \in Calls : \/ call[k] = Conf!Idle
                         \/ /\ call[k].gw \in Gateways
                            /\ call[k].at \in {"read", "commit", "apply"}
                            /\ call[k].new \in Conf!Configs
                            /\ call[k].stale \subseteq Conf!Creds
    BY DEF Explained, EditOK, PostOK, Edits, Posts, Stages
  <2> QED
    BY <2>1, <2>2 DEF Explained, Conf!TypeOK, Conf!MaskHasCause, Unmasked
<1>2. Conf!Init => Explained
  BY ConfInitHolds
<1>3. Explained /\ [Conf!Next]_(Conf!vars) => Explained'
  BY ConfStep
<1>4. Explained /\ [Conf!Next]_(Conf!vars) => [Conf!CollateralHasCause]_(Conf!vars)
  BY CollateralStep
<1> QED
  BY <1>1, <1>2, <1>3, <1>4, PTL DEF Conf!Spec

(* Constants of the three components, as the code gives them.              *)
ASSUME ProvisioningAssumption == RegistrationConstants /\ CleanupConstants /\ ConfConstants

-----------------------------------------------------------------------------
(* A stored token admits one registration and every worker that is         *)
(* answered holds the token of its pool, for any number of workers.        *)
THEOREM EnrolmentIsSound == Reg!Spec => []EnrolmentSound
<1>1. Reg!TypeOK /\ Reg!SingleUse /\ Reg!TokensConverge => EnrolmentSound
  BY DEF EnrolmentSound
<1> QED
  BY <1>1, ProvisioningAssumption, EnrolmentIsSafe, PTL

(* Deleting a credential and saving the configuration, for any number of   *)
(* pools, gateways and overlapping handlers.                               *)
THEOREM CredentialsAreKept == Clean!Spec /\ Conf!Spec => []CredentialsKept
<1>1. /\ Clean!TypeOK /\ Clean!StrandedPoolHasCause
      /\ Conf!TypeOK /\ Conf!MaskHasCause
      => CredentialsKept
  BY DEF CredentialsKept
<1>2. Clean!Spec => [](Clean!TypeOK /\ Clean!StrandedPoolHasCause)
  BY ProvisioningAssumption, CleanupIsSafe
<1>3. Conf!Spec => [](Conf!TypeOK /\ Conf!MaskHasCause)
  BY ProvisioningAssumption, ConfigIsSafe
<1> QED
  BY <1>1, <1>2, <1>3, PTL

(* No save changes what it was not asked about, but out of a stale copy.   *)
THEOREM SavesAreJustified == Conf!Spec => SavesJustified
  BY ProvisioningAssumption, ConfigIsSafe DEF SavesJustified
=============================================================================
