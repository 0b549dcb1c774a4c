------------------------------ MODULE ControlApi ------------------------------
(***************************************************************************)
(* Concurrent requests of the control API (control_routes.py, auth.py,     *)
(* deps.py): @serialized edits that read the overlay, merge and write it   *)
(* back under config_lock, and @idempotent actions that claim their key,   *)
(* look for a remembered response, act and remember theirs.  Statements    *)
(* fail, the process is killed, clients send a request again.              *)
(***************************************************************************)
EXTENDS Overlay, Integers

CONSTANTS
  Threads,     \* request threads
  Keys,        \* Idempotency-Key headers, each sent with one request
  GlobalKeys,  \* GLOBAL_KEYS
  MaxSpawns,   \* runners one key can start; bounds the model
  Faults,      \* which of "store", "crash" may happen
  None

ASSUME ControlAssumption == None \notin Threads \cup Keys /\ MaxSpawns \in Nat \ {0}

VARIABLES
  globals,     \* the keys of global_overrides
  lock,        \* config_lock: the thread in an edit, or None
  at,          \* thread -> where its request is
  req,         \* thread -> the edit it carries out
  plan,        \* thread -> the row and the flags it is about to write
  keys,        \* thread -> the keys of its globals edit still to be set
  key,         \* thread -> the key of its idempotent request
  inFlight,    \* in_flight: the keys claimed
  remembered,  \* keys with a row in the idempotency table
  spawned,     \* key -> runners started for it since its row was last pruned
  lost         \* history: key -> how many of those nobody could remember

editVars == <<overlay, globals, lock, req, plan, keys>>
keyVars == <<key, inFlight, remembered, spawned, lost>>
vars == <<editVars, at, keyVars>>

NoReq == [op |-> "none"]
NoPlan == [row |-> NoRow, flags |-> {}]
Claimed == {"lookup", "spawn", "record"}
Editing == {"write", "globals", "audit"}

\* Also: config_lock is held by the one request inside an edit.
TypeOK ==
  /\ overrides \in [Pools -> Rows]
  /\ states \in [Pools -> SUBSET Flags]
  /\ globals \in SUBSET GlobalKeys
  /\ lock \in Threads \cup {None}
  /\ at \in [Threads -> {"idle", "waiting"} \cup Editing \cup Claimed]
  /\ req \in [Threads -> Requests \cup {NoReq}]
  /\ plan \in [Threads -> [row : Rows, flags : SUBSET Flags]]
  /\ keys \in [Threads -> SUBSET GlobalKeys]
  /\ key \in [Threads -> Keys \cup {None}]
  /\ inFlight \in SUBSET Keys
  /\ remembered \in SUBSET Keys
  /\ spawned \in [Keys -> 0..MaxSpawns]
  /\ lost \in [Keys -> Nat]
  /\ \A t \in Threads :
       /\ at[t] \in Editing <=> lock = t
       /\ at[t] = "write" => req[t] \in Requests
       /\ at[t] \in Claimed => key[t] \in Keys

Init ==
  /\ OverlayInit
  /\ globals = {}
  /\ lock = None
  /\ at = [t \in Threads |-> "idle"]
  /\ req = [t \in Threads |-> NoReq]
  /\ plan = [t \in Threads |-> NoPlan]
  /\ keys = [t \in Threads |-> {}]
  /\ key = [t \in Threads |-> None]
  /\ inFlight = {}
  /\ remembered = {}
  /\ spawned = [k \in Keys |-> 0]
  /\ lost = [k \in Keys |-> 0]

Goes(t, from, to) == at[t] = from /\ at' = [at EXCEPT ![t] = to]

-----------------------------------------------------------------------------
(* @serialized edits.  What a request asks for matters once it is inside.  *)
Arrive(t) == Goes(t, "idle", "waiting") /\ UNCHANGED <<editVars, keyVars>>

\* Mutant: edits are not serialized.
Enter_anyway(t) == lock' = t

Enter(t) == lock = None /\ lock' = t

\* Leaving the view, by an answer or by an exception.
Leave(t) ==
  /\ at' = [at EXCEPT ![t] = "idle"]
  /\ lock' = IF lock = t THEN None ELSE lock
  /\ req' = [req EXCEPT ![t] = NoReq]
  /\ plan' = [plan EXCEPT ![t] = NoPlan]
  /\ keys' = [keys EXCEPT ![t] = {}]

\* 404 or 409 on what it reads, 400 on what it is sent, 500 when a read fails.
Refuse(t) ==
  /\ Goes(t, "waiting", "idle")
  /\ lock = None
  /\ UNCHANGED <<editVars, keyVars>>

ReadRow(t, r) ==
  /\ Goes(t, "waiting", "write")
  /\ Enter(t)
  /\ Permitted(r)
  /\ req' = [req EXCEPT ![t] = r]
  /\ plan' = [plan EXCEPT ![t] =
       [row |-> NewRow(r, overrides[r.pool]), flags |-> NewFlags(r, states[r.pool])]]
  /\ UNCHANGED <<overlay, globals, keys, keyVars>>

\* set_pool_override, delete_pool_override or set_pool_state.
WriteRow(t) ==
  /\ Goes(t, "write", "audit")
  /\ IF req[t].op = "state"
     THEN /\ states' = [states EXCEPT ![req[t].pool] = plan[t].flags]
          /\ UNCHANGED overrides
     ELSE /\ overrides' = [overrides EXCEPT ![req[t].pool] = plan[t].row]
          /\ UNCHANGED states
  /\ UNCHANGED <<globals, lock, req, plan, keys, keyVars>>

(* patch_globals saves its keys one by one and stops at a bad value; the   *)
(* keys before it stay saved.                                              *)
PatchGlobals(t) ==
  /\ at[t] = "waiting"
  /\ Enter(t)
  /\ \E ks \in SUBSET GlobalKeys :
       /\ keys' = [keys EXCEPT ![t] = ks]
       /\ at' = [at EXCEPT ![t] = IF ks = {} THEN "audit" ELSE "globals"]
  /\ UNCHANGED <<overlay, globals, req, plan, keyVars>>

SetGlobal(t) ==
  /\ at[t] = "globals"
  /\ \E k \in keys[t] :
       /\ keys' = [keys EXCEPT ![t] = @ \ {k}]
       /\ globals' = globals \cup {k}
       /\ at' = [at EXCEPT ![t] = IF keys[t] = {k} THEN "audit" ELSE "globals"]
  /\ UNCHANGED <<overlay, lock, req, plan, keyVars>>

RefuseGlobals(t) ==
  at[t] = "globals" /\ Leave(t) /\ UNCHANGED <<overlay, globals, keyVars>>

\* Mutant: an exception skips the release.
WriteFails_locked(t) ==
  /\ Goes(t, "write", "idle")
  /\ "store" \in Faults
  /\ req' = [req EXCEPT ![t] = NoReq] /\ plan' = [plan EXCEPT ![t] = NoPlan]
  /\ UNCHANGED <<overlay, globals, lock, keys, keyVars>>

WriteFails(t) ==
  /\ at[t] = "write" /\ "store" \in Faults
  /\ Leave(t)
  /\ UNCHANGED <<overlay, globals, keyVars>>

\* The audit row, saved or not, and the answer.
Audit(t) == at[t] = "audit" /\ Leave(t) /\ UNCHANGED <<overlay, globals, keyVars>>

\* global_pause: one upsert, not serialized.
GlobalPause ==
  /\ "paused" \in GlobalKeys
  /\ globals' = globals \cup {"paused"}
  /\ UNCHANGED <<overlay, lock, req, plan, keys, at, keyVars>>

-----------------------------------------------------------------------------
(* @idempotent: scale_pool with delta 1.  A client may send its request    *)
(* again at any time.                                                      *)

\* Mutant: two requests can hold one key.
Claim_shared(t, k) ==
  /\ Goes(t, "idle", "lookup")
  /\ key' = [key EXCEPT ![t] = k]
  /\ inFlight' = inFlight \cup {k}
  /\ UNCHANGED <<editVars, remembered, spawned, lost>>

\* A request that finds its key claimed is answered 409.
Claim(t, k) ==
  /\ Goes(t, "idle", "lookup")
  /\ k \notin inFlight
  /\ key' = [key EXCEPT ![t] = k]
  /\ inFlight' = inFlight \cup {k}
  /\ UNCHANGED <<editVars, remembered, spawned, lost>>

\* The finally of the wrapper.
Release(t) ==
  /\ at' = [at EXCEPT ![t] = "idle"]
  /\ inFlight' = inFlight \ {key[t]}
  /\ key' = [key EXCEPT ![t] = None]

Lookup(t) ==
  /\ at[t] = "lookup"
  /\ \/ /\ key[t] \notin remembered
        /\ at' = [at EXCEPT ![t] = "spawn"]
        /\ UNCHANGED <<key, inFlight>>
     \/ /\ key[t] \in remembered \/ "store" \in Faults
        /\ Release(t)
  /\ UNCHANGED <<editVars, remembered, spawned, lost>>

\* A docker run that fails, or a pool that is not there, is not remembered.
Spawn(t) ==
  /\ at[t] = "spawn"
  /\ \/ /\ Effective(overrides) # {}
        /\ spawned[key[t]] < MaxSpawns
        /\ spawned' = [spawned EXCEPT ![key[t]] = @ + 1]
        /\ at' = [at EXCEPT ![t] = "record"]
        /\ UNCHANGED <<key, inFlight>>
     \/ Release(t) /\ UNCHANGED spawned
  /\ UNCHANGED <<editVars, remembered, lost>>

\* Audit and remember_response.
Record(t) ==
  /\ at[t] = "record"
  /\ remembered' = remembered \cup {key[t]}
  /\ Release(t)
  /\ UNCHANGED <<editVars, spawned, lost>>

\* Mutant: an exception leaves the key claimed.
RecordFails_claimed(t) ==
  /\ Goes(t, "record", "idle")
  /\ "store" \in Faults
  /\ lost' = [lost EXCEPT ![key[t]] = @ + 1]
  /\ key' = [key EXCEPT ![t] = None]
  /\ UNCHANGED <<editVars, inFlight, remembered, spawned>>

RecordFails(t) ==
  /\ at[t] = "record" /\ "store" \in Faults
  /\ lost' = [lost EXCEPT ![key[t]] = @ + 1]
  /\ Release(t)
  /\ UNCHANGED <<editVars, remembered, spawned>>

\* prune_idempotency, a day later: the key may be used for another request.
PruneIdempotency(k) ==
  /\ k \in remembered \ inFlight
  /\ remembered' = remembered \ {k}
  /\ spawned' = [spawned EXCEPT ![k] = 0]
  /\ lost' = [lost EXCEPT ![k] = 0]
  /\ UNCHANGED <<editVars, at, key, inFlight>>

(* The process is killed and started again.  A docker run under way may    *)
(* still have started its container.                                       *)
Crash ==
  /\ "crash" \in Faults
  /\ \E started \in SUBSET {t \in Threads : at[t] = "spawn" /\ spawned[key[t]] < MaxSpawns} :
       /\ spawned' = [k \in Keys |->
            IF \E t \in started : key[t] = k THEN spawned[k] + 1 ELSE spawned[k]]
       /\ lost' = [k \in Keys |->
            IF \E t \in Threads : key[t] = k /\ (at[t] = "record" \/ t \in started)
            THEN lost[k] + 1 ELSE lost[k]]
  /\ at' = [t \in Threads |-> "idle"]
  /\ lock' = None
  /\ req' = [t \in Threads |-> NoReq]
  /\ plan' = [t \in Threads |-> NoPlan]
  /\ keys' = [t \in Threads |-> {}]
  /\ key' = [t \in Threads |-> None]
  /\ inFlight' = {}
  /\ UNCHANGED <<overlay, globals, remembered>>

-----------------------------------------------------------------------------
EditStep(t) ==
  \/ \E r \in Requests : ReadRow(t, r)
  \/ Refuse(t) \/ WriteRow(t) \/ WriteFails(t) \/ Audit(t)
  \/ PatchGlobals(t) \/ SetGlobal(t) \/ RefuseGlobals(t)

KeyStep(t) == Lookup(t) \/ Spawn(t) \/ Record(t) \/ RecordFails(t)

Next ==
  \/ \E t \in Threads :
       Arrive(t) \/ EditStep(t) \/ KeyStep(t) \/ \E k \in Keys : Claim(t, k)
  \/ GlobalPause \/ Crash \/ \E k \in Keys : PruneIdempotency(k)

Spec == Init /\ [][Next]_vars

\* Every statement and docker call returns, and a lock that is free again and
\* again is one day had.
LiveSpec ==
  Spec /\ \A t \in Threads : SF_vars(EditStep(t)) /\ WF_vars(KeyStep(t))

-----------------------------------------------------------------------------
(* Properties.                                                             *)

\* A key starts one runner, however often and in whatever order its request
\* is sent, except for those whose answer a crash or the store lost.
SpawnedOnce == \A k \in Keys : spawned[k] <= lost[k] + 1

\* A key is claimed by exactly one request, and by no request that is over.
ClaimsOwned ==
  /\ \A t, u \in Threads :
       at[t] \in Claimed /\ at[u] \in Claimed /\ key[t] = key[u] => t = u
  /\ inFlight = {key[t] : t \in {u \in Threads : at[u] \in Claimed}}

\* deps.py: without the lock "one change would silently disappear".  Every
\* edit is the edit of the rows as they are when it is written.
EditsAtomic == OverlaySpec

\* No request waits for ever, for the lock or for anything else.
RequestsEnd == \A t \in Threads : at[t] # "idle" ~> at[t] = "idle"

\* control_routes.py: a config.yml pool is "only switched off; removing the
\* row would just resurrect it".  What remove_pool wrote ends the pool.
RemoveEnds ==
  [][\A t \in Threads :
       at[t] = "write" /\ at'[t] = "audit" /\ req[t].op = "remove"
         => req[t].pool \notin Effective(overrides')]_vars
=============================================================================
