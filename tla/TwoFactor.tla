------------------------------ MODULE TwoFactor -----------------------------
(***************************************************************************)
(* Enrolment of a second factor (the totp handlers of                      *)
(* api_gateway/rbac/router.py): one user, whose browser tabs call setup,   *)
(* verify and disable at once.                                             *)
(*                                                                         *)
(* A handler loads the user's row and later commits.  SQLAlchemy writes    *)
(* the columns whose value differs from the loaded one, and no others: a   *)
(* handler that loaded a row since changed writes part of what it meant.   *)
(***************************************************************************)
EXTENDS Naturals

CONSTANTS
  Calls,        \* handlers in flight at a time
  MaxSecrets,   \* bound: secrets generated
  MaxCalls      \* bound: handlers begun

VARIABLES
  row,          \* totp_secret, totp_pending_secret, totp_enabled; 0 is NULL
  call,         \* handlers between their load and their commit
  issued,       \* secrets generated so far
  proven,       \* secrets whose code the user has shown (history)
  overlap,      \* some commit met a row changed since it was loaded (history)
  begun

vars == <<row, call, issued, proven, overlap, begun>>

Secrets == 1 .. MaxSecrets

Row == [secret : Secrets \cup {0}, pending : Secrets \cup {0}, enabled : BOOLEAN]

Idle == [op |-> "idle"]

TypeOK ==
  /\ row \in Row
  /\ \A c \in Calls : \/ call[c] = Idle
                      \/ call[c].op \in {"setup", "verify", "disable"} /\ call[c].old \in Row
  /\ issued \in 0 .. MaxSecrets
  /\ proven \subseteq Secrets
  /\ overlap \in BOOLEAN
  /\ begun \in 0 .. MaxCalls

Init ==
  /\ row = [secret |-> 0, pending |-> 0, enabled |-> FALSE]
  /\ call = [c \in Calls |-> Idle]
  /\ issued = 0
  /\ proven = {}
  /\ overlap = FALSE
  /\ begun = 0

-----------------------------------------------------------------------------
Load(c, op, new) ==
  /\ call[c] = Idle
  /\ begun < MaxCalls
  /\ begun' = begun + 1
  /\ call' = [call EXCEPT ![c] = [op |-> op, old |-> row, new |-> new]]
  /\ UNCHANGED <<row, overlap>>

TotpSetup(c) ==
  /\ issued < MaxSecrets
  /\ issued' = issued + 1
  /\ Load(c, "setup", [row EXCEPT !.pending = issued + 1])
  /\ UNCHANGED proven

(* A mutant: any code will do, also for a secret never set up.             *)
TotpVerifyAny(c) ==
  /\ Load(c, "verify", [secret |-> row.pending, pending |-> 0, enabled |-> TRUE])
  /\ UNCHANGED <<issued, proven>>

(* The code is checked against the pending secret of the loaded row.       *)
TotpVerify(c) ==
  /\ row.pending # 0
  /\ Load(c, "verify", [secret |-> row.pending, pending |-> 0, enabled |-> TRUE])
  /\ proven' = proven \cup {row.pending}
  /\ UNCHANGED issued

(* A mutant: the secret is dropped and the flag is left.                   *)
TotpDisableHalf(c) ==
  /\ Load(c, "disable", [row EXCEPT !.secret = 0])
  /\ UNCHANGED <<issued, proven>>

TotpDisable(c) ==
  /\ Load(c, "disable", [row EXCEPT !.secret = 0, !.enabled = FALSE])
  /\ UNCHANGED <<issued, proven>>

(* UPDATE users SET <the columns that changed>.                            *)
Commit(c) ==
  LET k == call[c] IN
  /\ k # Idle
  /\ row' = [f \in DOMAIN row |-> IF k.new[f] # k.old[f] THEN k.new[f] ELSE row[f]]
  /\ overlap' = (overlap \/ row # k.old)
  /\ call' = [call EXCEPT ![c] = Idle]
  /\ UNCHANGED <<issued, proven, begun>>

-----------------------------------------------------------------------------
Next ==
  \E c \in Calls : TotpSetup(c) \/ TotpVerify(c) \/ TotpDisable(c) \/ Commit(c)

Spec == Init /\ [][Next]_vars

-----------------------------------------------------------------------------
(* The secret that a login is checked against is one whose code the user   *)
(* has shown, so that no half-done or repeated enrolment asks for codes of *)
(* a secret the user never scanned.                                        *)
SecretIsProven == row.secret # 0 => row.secret \in proven

(* A second factor that is on has its secret: without one every login of   *)
(* the user fails.  It takes calls that overlapped to lose it: a disable   *)
(* that loaded the row beside a verify writes only half of its change.     *)
LockoutHasCause == row.enabled /\ row.secret = 0 => overlap

=============================================================================
