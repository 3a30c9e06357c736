---------------------------- MODULE Configuration ----------------------------
(***************************************************************************)
(* Provider credentials in the API gateway (management/configuration.py,   *)
(* management/config_manager.py, common/config_manager.py).  They are one  *)
(* JSON value of system_settings and, in every gateway process, the copy   *)
(* settings.providers that is polled from it.  A handler dumps the copy,   *)
(* changes one credential in the dump, reads the row, writes it and then   *)
(* sets its copy: steps that other handlers, polls and restarts interleave.*)
(*                                                                         *)
(* A value is <<"real", n>>, the mask of one <<"mask", n>>, None, or Gone  *)
(* when the list entry or the field is not there at all.                   *)
(***************************************************************************)
EXTENDS Naturals

CONSTANTS
  Keys,        \* names in depin.nosana.api_keys, a list that is merged
  Tokens,      \* names in huggingface.tokens, a list that is replaced
  Fields,      \* scalar fields of cloud.aws, cloud.gcp, ...
  Gateways,    \* gateway processes
  Calls,       \* handlers in flight at a time
  Ops,         \* kinds of handler that occur
  MaxCalls,    \* bound: handlers begun
  MaxVal       \* bound: values ever given to a credential

VARIABLES
  row,         \* system_settings has a providers_config row
  db,          \* its value
  mem,         \* settings.providers of each gateway
  poll,        \* per gateway, the value its poll has read, or Idle
  form,        \* a dashboard form, loaded and not yet posted
  call,        \* handlers in flight
  excused,     \* credentials posted by a form that showed another value
  begun, next

vars == <<row, db, mem, poll, form, call, excused, begun, next>>

Listed == Keys \cup Tokens
Creds == Listed \cup Fields

None == <<"none", 0>>
Gone == <<"gone", 0>>
Real == {"real"} \X (1 .. MaxVal)
Masks == {"mask"} \X (1 .. MaxVal)
Configs == [Creds -> Real \cup Masks \cup {None, Gone}]

(* _mask_secret, of a secret long enough to be masked.                     *)
Mask(v) == IF v[1] = "real" THEN <<"mask", v[2]>> ELSE v

Same(v, w) == v = w \/ {v, w} = {None, Gone}

Stale(cfg) == {c \in Creds : ~Same(cfg[c], db[c])}

Idle == [op |-> "idle"]

(* A field nobody has set is None in a copy, a list is empty.              *)
Defaults == [c \in Creds |-> IF c \in Listed THEN Gone ELSE None]

(* No row yet, or a row some credentials were stored in and copies of it.  *)
Init ==
  /\ \E stored \in SUBSET Creds :
       /\ row = (stored # {})
       /\ db = [c \in Creds |-> IF c \in stored THEN <<"real", 1>> ELSE Gone]
       /\ mem = [g \in Gateways |->
                  [c \in Creds |-> IF c \in stored THEN <<"real", 1>> ELSE Defaults[c]]]
  /\ poll = [g \in Gateways |-> Idle]
  /\ form = Idle
  /\ call = [k \in Calls |-> Idle]
  /\ excused = {}
  /\ begun = 0 /\ next = 2

-----------------------------------------------------------------------------

(* _merge_configs, _merge_credential_lists: entries missing from the new   *)
(* api_keys and fields missing from the new value stay, and so does a      *)
(* value whose own mask comes back; all else is taken, None included.      *)
Merge(old, new) ==
  [c \in Creds |-> IF \/ new[c] = Gone /\ c \notin Tokens
                      \/ new[c] \in Masks /\ new[c] = Mask(old[c])
                   THEN old[c] ELSE new[c]]

(* A mutant: lists are merged into the copy too.                           *)
UpdateLocalMerges(m, cfg) ==
  [c \in Creds |-> IF cfg[c] = Gone THEN m[c] ELSE cfg[c]]

(* update_pydantic_model: a list is set whole, a field the value does not  *)
(* hold is left as it is.                                                  *)
UpdateLocal(m, cfg) ==
  [c \in Creds |-> IF cfg[c] = Gone /\ c \in Fields THEN m[c] ELSE cfg[c]]

(* _preserve_masked_secrets: a masked or empty field, and a masked token,  *)
(* gets the stored value back; api_keys are left to the merge.             *)
Preserved(cfg, stored) ==
  [c \in Creds |-> IF c \in Fields \/ (c \in Tokens /\ cfg[c] \in Masks)
                   THEN stored[c] ELSE cfg[c]]

-----------------------------------------------------------------------------
(* Handlers in flight are interchangeable: the first free slot is taken.   *)
Free(k) == call[k] = Idle /\ k = CHOOSE j \in Calls : call[j] = Idle

(* A mutant: the dump holds the changed credential only.                   *)
DumpOnly(k, op, g, c, v) ==
  /\ Free(k) /\ op \in Ops
  /\ begun < MaxCalls /\ begun' = begun + 1
  /\ call' = [call EXCEPT ![k] =
       [op |-> op, gw |-> g, cred |-> c, at |-> "read", ins |-> FALSE,
        new |-> [Defaults EXCEPT ![c] = v],
        stale |-> Stale(mem[g]) \ {c}]]
  /\ UNCHANGED <<row, db, mem, poll, form, excused>>

(* The copy is dumped and one credential changed in the dump.  `stale` are *)
(* the others on which the dump does not agree with the row.               *)
Dump(k, op, g, c, v) ==
  /\ Free(k) /\ op \in Ops
  /\ begun < MaxCalls /\ begun' = begun + 1
  /\ call' = [call EXCEPT ![k] =
       [op |-> op, gw |-> g, cred |-> c, at |-> "read", ins |-> FALSE,
        new |-> [mem[g] EXCEPT ![c] = v],
        stale |-> Stale(mem[g]) \ {c}]]
  /\ UNCHANGED <<row, db, mem, poll, form, excused>>

NewValue == next <= MaxVal /\ next' = next + 1

AddProviderCredential(k) ==
  \E g \in Gateways, c \in Creds :
    /\ c \in Listed => mem[g][c] = Gone
    /\ NewValue
    /\ Dump(k, "add", g, c, <<"real", next>>)

UpdateProviderCredential(k) ==
  \E g \in Gateways, c \in Creds :
    /\ mem[g][c] # Gone
    /\ NewValue
    /\ Dump(k, "update", g, c, <<"real", next>>)

DeleteProviderCredential(k) ==
  \E g \in Gateways, c \in Creds :
    /\ mem[g][c] # Gone
    /\ Dump(k, "delete", g, c, Gone)
    /\ UNCHANGED next

DeleteNosanaApiKey(k) ==
  \E g \in Gateways, c \in Keys :
    /\ mem[g][c] # Gone
    /\ Dump(k, "legacy", g, c, Gone)
    /\ UNCHANGED next

(* GET /config/providers shows the copy, masked.                           *)
GetProviderConfig ==
  /\ "form" \in Ops /\ form = Idle
  /\ \E g \in Gateways :
       form' = [op |-> "form", vals |-> [c \in Creds |-> Mask(mem[g][c])],
                stale |-> Stale(mem[g])]
  /\ UNCHANGED <<row, db, mem, poll, call, excused, begun, next>>

(* POST /config/providers with the form as it was loaded.                  *)
UpdateProviderConfig(k) ==
  /\ Free(k) /\ form # Idle
  /\ begun < MaxCalls /\ begun' = begun + 1
  /\ \E g \in Gateways :
       call' = [call EXCEPT ![k] =
         [op |-> "form", gw |-> g, at |-> "read", ins |-> FALSE,
          new |-> form.vals, stale |-> form.stale]]
  /\ form' = Idle
  /\ UNCHANGED <<row, db, mem, poll, excused, next>>

(* save_config, _force_replace_config: the row is read.  A form is given   *)
(* its secrets from the same read.                                         *)
ReadRow(k) ==
  /\ call[k] # Idle /\ call[k].at = "read"
  /\ call' = [call EXCEPT ![k].at = "commit", ![k].ins = ~row,
       ![k].new = CASE call[k].op = "delete" -> @
                    [] call[k].op = "form" -> Merge(db, Preserved(@, db))
                    [] OTHER -> Merge(db, @)]
  /\ excused' = IF call[k].op = "form" THEN excused \cup call[k].stale ELSE excused
  /\ UNCHANGED <<row, db, mem, poll, form, begun, next>>

(* The value is written whole.  A second insert of the row is refused.     *)
CommitRow(k) ==
  /\ call[k] # Idle /\ call[k].at = "commit"
  /\ IF call[k].ins /\ row
     THEN call' = [call EXCEPT ![k] = Idle] /\ UNCHANGED <<row, db, form>>
     ELSE /\ row' = TRUE
          /\ db' = call[k].new
          /\ call' = [j \in Calls |->
               IF j = k THEN [call[k] EXCEPT !.at = "apply"]
               ELSE IF call[j] = Idle THEN Idle
               ELSE [call[j] EXCEPT !.stale = @ \cup Stale(call[k].new)]]
          /\ form' = IF form = Idle THEN Idle
                     ELSE [form EXCEPT !.stale = @ \cup Stale(call[k].new)]
  /\ UNCHANGED <<mem, poll, excused, begun, next>>

UpdateLocalSettings(k) ==
  /\ call[k] # Idle /\ call[k].at = "apply"
  /\ mem' = [mem EXCEPT ![call[k].gw] = UpdateLocal(@, call[k].new)]
  /\ call' = [call EXCEPT ![k] = Idle]
  /\ UNCHANGED <<row, db, poll, form, excused, begun, next>>

(* poll_once: the value is read, and applied when the answer is there.     *)
LoadConfig(g) ==
  /\ poll[g] = Idle /\ row
  /\ poll' = [poll EXCEPT ![g] = [op |-> "poll", saw |-> db]]
  /\ UNCHANGED <<row, db, mem, form, call, excused, begun, next>>

PollOnce(g) ==
  /\ poll[g] # Idle
  /\ mem' = [mem EXCEPT ![g] = UpdateLocal(@, poll[g].saw)]
  /\ poll' = [poll EXCEPT ![g] = Idle]
  /\ UNCHANGED <<row, db, form, call, excused, begun, next>>

(* initialize, after the process went down with what it was doing.         *)
Restart(g) ==
  /\ mem' = [mem EXCEPT ![g] = IF row THEN UpdateLocal(Defaults, db) ELSE Defaults]
  /\ poll' = [poll EXCEPT ![g] = Idle]
  /\ call' = [k \in Calls |-> IF call[k] # Idle /\ call[k].gw = g THEN Idle ELSE call[k]]
  /\ UNCHANGED <<row, db, form, excused, begun, next>>

-----------------------------------------------------------------------------
Handler(k) == ReadRow(k) \/ CommitRow(k) \/ UpdateLocalSettings(k)

Next ==
  \/ \E k \in Calls : \/ AddProviderCredential(k) \/ UpdateProviderCredential(k)
                      \/ DeleteProviderCredential(k) \/ DeleteNosanaApiKey(k)
                      \/ UpdateProviderConfig(k) \/ Handler(k)
  \/ \E g \in Gateways : LoadConfig(g) \/ PollOnce(g) \/ Restart(g)
  \/ GetProviderConfig

Spec == Init /\ [][Next]_vars

(* Handlers run on, and _poll_loop polls for as long as its process lives. *)
(* Restarts do not starve a poll that keeps being begun.                   *)
Fairness ==
  /\ \A k \in Calls : WF_vars(Handler(k))
  /\ \A g \in Gateways : WF_vars(LoadConfig(g)) /\ SF_vars(PollOnce(g))

FairSpec == Spec /\ Fairness

-----------------------------------------------------------------------------
TypeOK ==
  /\ row \in BOOLEAN
  /\ db \in Configs
  /\ mem \in [Gateways -> Configs]
  /\ \A g \in Gateways : poll[g] = Idle \/ poll[g].saw \in Configs
  /\ form = Idle \/ (form.vals \in Configs /\ form.stale \subseteq Creds)
  /\ \A k \in Calls : \/ call[k] = Idle
                      \/ /\ call[k].gw \in Gateways
                         /\ call[k].at \in {"read", "commit", "apply"}
                         /\ call[k].new \in Configs
                         /\ call[k].stale \subseteq Creds
  /\ excused \subseteq Creds
  /\ begun \in 0 .. MaxCalls /\ next \in 2 .. MaxVal + 1

(* A handler changes a credential it was not asked about (brings a deleted *)
(* one back, puts the old value over a rotated one, drops an added one)    *)
(* only if the copy or form it started from disagreed with the row on that *)
(* credential, or another handler changed it meanwhile.                    *)
CollateralHasCause ==
  \A k \in Calls :
    (/\ call[k] # Idle /\ call[k].at = "commit"
     /\ call'[k] # Idle /\ call'[k].at = "apply")
    => \A c \in Creds :
         \/ Same(db'[c], db[c])
         \/ c \in call[k].stale
         \/ (call[k].op # "form" /\ c = call[k].cred)

(* A mask is stored in place of a secret only by a form that showed the    *)
(* mask of a value that was no longer the stored one.                      *)
MaskHasCause == \A c \in Creds : db[c] \in Masks => c \in excused

(* Once changes cease, every gateway's copy agrees with the row; not on a  *)
(* field that was deleted from the row, which no poll ever unsets.         *)
CopiesConverge ==
  <>[](\A g \in Gateways, c \in Creds :
         Same(mem[g][c], db[c]) \/ (c \in Fields /\ db[c] = Gone))

=============================================================================
