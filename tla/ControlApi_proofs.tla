------------------------- MODULE ControlApi_proofs -------------------------
(***************************************************************************)
(* What ControlApi.tla promises, for any threads, pools, fields, keys and  *)
(* faults: the lock makes every edit one step of Overlay.tla, and a key    *)
(* starts one runner per answer that can be remembered.                    *)
(***************************************************************************)
EXTENDS ControlApi, TLAPS

\* What a request in an edit is about to write is what its edit makes of the
\* rows as they are now.
PlanCurrent ==
  \A t \in Threads : at[t] = "write" =>
    /\ Permitted(req[t])
    /\ plan[t].row = NewRow(req[t], overrides[req[t].pool])
    /\ plan[t].flags = NewFlags(req[t], states[req[t].pool])

\* Every runner started for a key is remembered, about to be, or lost.
Accounted ==
  /\ \A t \in Threads : at[t] \in {"spawn", "record"} => key[t] \notin remembered
  /\ \A k \in Keys :
       spawned[k] = lost[k] +
         (IF k \in remembered \/ \E t \in Threads : at[t] = "record" /\ key[t] = k
          THEN 1 ELSE 0)

-----------------------------------------------------------------------------
(* Types.                                                                  *)

(* An edit makes of a pool's overrides a row again.                        *)
LEMMA NewRowType == ASSUME NEW r \in Requests, NEW row \in Rows PROVE NewRow(r, row) \in Rows
  BY DEF Requests, Rows, NewRow, NoRow

(* An edit makes of a pool's flags flags again.                            *)
LEMMA NewFlagsType ==
  ASSUME NEW r \in Requests, NEW f \in SUBSET Flags PROVE NewFlags(r, f) \in SUBSET Flags
  BY DEF Requests, NewFlags

(* Every request names a pool.                                             *)
LEMMA RequestPool == ASSUME NEW r \in Requests PROVE r.pool \in Pools
  BY DEF Requests

(* The API starts idle.                                                    *)
LEMMA InitTyped == Init => TypeOK
  BY ControlAssumption DEF Init, OverlayInit, TypeOK, NoRow, Rows, NoPlan, Editing, Claimed

(* No handler's step leaves the types.                                     *)
LEMMA StepTyped == ASSUME TypeOK, [Next]_vars PROVE TypeOK'
<1>1. ASSUME NEW t \in Threads, Arrive(t) PROVE TypeOK'
  BY <1>1, ControlAssumption, TypeOK DEF Arrive, Goes, TypeOK, Editing, Claimed, NoPlan, NoRow, Rows, editVars, keyVars, overlay
<1>2. ASSUME NEW t \in Threads, Refuse(t) PROVE TypeOK'
  BY <1>2, ControlAssumption, TypeOK DEF Refuse, Goes, TypeOK, Editing, Claimed, NoPlan, NoRow, Rows, editVars, keyVars, overlay
<1>3. ASSUME NEW t \in Threads, NEW r \in Requests, ReadRow(t, r) PROVE TypeOK'
  BY <1>3, ControlAssumption, TypeOK, NewRowType, NewFlagsType, RequestPool DEF ReadRow, Goes, Enter, TypeOK, Editing, Claimed, NoPlan, NoRow, Rows, editVars, keyVars, overlay
<1>4. ASSUME NEW t \in Threads, WriteRow(t) PROVE TypeOK'
  <2>1. req[t].pool \in Pools /\ plan[t] \in [row : Rows, flags : SUBSET Flags]
    BY <1>4, TypeOK, RequestPool DEF WriteRow, Goes, TypeOK
  <2>2. overrides' \in [Pools -> Rows]
    BY <1>4, <2>1, TypeOK DEF WriteRow, TypeOK
  <2>3. states' \in [Pools -> SUBSET Flags]
    BY <1>4, <2>1, TypeOK DEF WriteRow, TypeOK
  <2>4. /\ at' \in [Threads -> {"idle", "waiting"} \cup Editing \cup Claimed]
        /\ \A u \in Threads : /\ at'[u] \in Editing <=> at[u] \in Editing
                              /\ at'[u] = "write" => at[u] = "write"
                              /\ at'[u] \in Claimed => at[u] \in Claimed
    BY <1>4, TypeOK DEF WriteRow, Goes, TypeOK, Editing, Claimed
  <2>q. QED
    BY <1>4, <2>2, <2>3, <2>4, TypeOK DEF WriteRow, TypeOK, keyVars
<1>5. ASSUME NEW t \in Threads, WriteFails(t) PROVE TypeOK'
  BY <1>5, ControlAssumption, TypeOK DEF WriteFails, Leave, TypeOK, Editing, Claimed, NoPlan, NoRow, Rows, editVars, keyVars, overlay
<1>6. ASSUME NEW t \in Threads, Audit(t) PROVE TypeOK'
  BY <1>6, ControlAssumption, TypeOK DEF Audit, Leave, TypeOK, Editing, Claimed, NoPlan, NoRow, Rows, editVars, keyVars, overlay
<1>7. ASSUME NEW t \in Threads, PatchGlobals(t) PROVE TypeOK'
  BY <1>7, ControlAssumption, TypeOK DEF PatchGlobals, Enter, TypeOK, Editing, Claimed, NoPlan, NoRow, Rows, editVars, keyVars, overlay
<1>8. ASSUME NEW t \in Threads, SetGlobal(t) PROVE TypeOK'
  BY <1>8, ControlAssumption, TypeOK DEF SetGlobal, TypeOK, Editing, Claimed, NoPlan, NoRow, Rows, editVars, keyVars, overlay
<1>9. ASSUME NEW t \in Threads, RefuseGlobals(t) PROVE TypeOK'
  BY <1>9, ControlAssumption, TypeOK DEF RefuseGlobals, Leave, TypeOK, Editing, Claimed, NoPlan, NoRow, Rows, editVars, keyVars, overlay
<1>10. ASSUME NEW t \in Threads, Lookup(t) PROVE TypeOK'
  BY <1>10, ControlAssumption, TypeOK DEF Lookup, Release, TypeOK, Editing, Claimed, NoPlan, NoRow, Rows, editVars, keyVars, overlay
<1>11. ASSUME NEW t \in Threads, Spawn(t) PROVE TypeOK'
  <2>1. CASE Release(t) /\ UNCHANGED spawned
    BY <1>11, <2>1, ControlAssumption, TypeOK DEF Spawn, Release, TypeOK, Editing, Claimed,
       editVars, overlay
  <2>2. CASE ~(Release(t) /\ UNCHANGED spawned)
    <3>1. /\ at[t] = "spawn" /\ at' = [at EXCEPT ![t] = "record"]
          /\ UNCHANGED <<editVars, remembered, lost, key, inFlight>>
          /\ spawned[key[t]] < MaxSpawns
          /\ spawned' = [spawned EXCEPT ![key[t]] = @ + 1]
      BY <1>11, <2>2 DEF Spawn
    <3>2. key[t] \in Keys
      BY <3>1, TypeOK DEF TypeOK, Claimed
    <3>3. spawned[key[t]] + 1 \in 0..MaxSpawns
      BY <3>1, <3>2, ControlAssumption, TypeOK DEF TypeOK
    <3>4. spawned' \in [Keys -> 0..MaxSpawns]
      BY <3>1, <3>3, TypeOK DEF TypeOK
    <3>q. QED
      BY <3>1, <3>4, TypeOK DEF TypeOK, Editing, Claimed, editVars, overlay
  <2>q. QED
    BY <2>1, <2>2
<1>12. ASSUME NEW t \in Threads, Record(t) PROVE TypeOK'
  BY <1>12, ControlAssumption, TypeOK DEF Record, Release, TypeOK, Editing, Claimed, NoPlan, NoRow, Rows, editVars, keyVars, overlay
<1>13. ASSUME NEW t \in Threads, RecordFails(t) PROVE TypeOK'
  BY <1>13, ControlAssumption, TypeOK DEF RecordFails, Release, TypeOK, Editing, Claimed, NoPlan, NoRow, Rows, editVars, keyVars, overlay
<1>14. ASSUME NEW t \in Threads, NEW k \in Keys, Claim(t, k) PROVE TypeOK'
  BY <1>14, ControlAssumption, TypeOK DEF Claim, Goes, TypeOK, Editing, Claimed, NoPlan, NoRow, Rows, editVars, keyVars, overlay
<1>15. ASSUME GlobalPause PROVE TypeOK'
  BY <1>15, ControlAssumption, TypeOK DEF GlobalPause, TypeOK, Editing, Claimed, NoPlan, NoRow, Rows, editVars, keyVars, overlay
<1>16. ASSUME Crash PROVE TypeOK'
  BY <1>16, ControlAssumption, TypeOK DEF Crash, TypeOK, Editing, Claimed, NoPlan, NoRow, Rows, editVars, keyVars, overlay
<1>17. ASSUME NEW k \in Keys, PruneIdempotency(k) PROVE TypeOK'
  BY <1>17, ControlAssumption, TypeOK DEF PruneIdempotency, TypeOK, Editing, Claimed, NoPlan, NoRow, Rows, editVars, keyVars, overlay
<1>18. CASE UNCHANGED vars
  BY <1>18, ControlAssumption, TypeOK DEF vars, TypeOK, Editing, Claimed, NoPlan, NoRow, Rows, editVars, keyVars, overlay
<1>q. QED
  BY <1>1, <1>2, <1>3, <1>4, <1>5, <1>6, <1>7, <1>8, <1>9, <1>10, <1>11, <1>12, <1>13, <1>14, <1>15, <1>16, <1>17, <1>18 DEF Next, EditStep, KeyStep

(* The variables keep their types, and config_lock is held by the one      *)
(* request that is inside an edit, whatever fails.                         *)
THEOREM Typing == Spec => []TypeOK
<1>1. TypeOK /\ [Next]_vars => TypeOK'
  BY StepTyped
<1>q. QED
  BY <1>1, InitTyped, PTL DEF Spec

-----------------------------------------------------------------------------
(* Edits.                                                                  *)

(* What a handler under config_lock is about to write stays what its       *)
(* request makes of the rows as they are.                                  *)
LEMMA StepPlan == ASSUME TypeOK, PlanCurrent, [Next]_vars PROVE PlanCurrent'
<1>1. ASSUME NEW t \in Threads, Arrive(t) PROVE PlanCurrent'
  BY <1>1, ControlAssumption, TypeOK, PlanCurrent DEF Arrive, Goes, PlanCurrent, TypeOK, Editing, Permitted, editVars, keyVars, overlay
<1>2. ASSUME NEW t \in Threads, Refuse(t) PROVE PlanCurrent'
  BY <1>2, ControlAssumption, TypeOK, PlanCurrent DEF Refuse, Goes, PlanCurrent, TypeOK, Editing, Permitted, editVars, keyVars, overlay
<1>3. ASSUME NEW t \in Threads, NEW r \in Requests, ReadRow(t, r) PROVE PlanCurrent'
  BY <1>3, ControlAssumption, TypeOK, PlanCurrent, NewRowType, NewFlagsType, RequestPool DEF ReadRow, Goes, Enter, PlanCurrent, TypeOK, Editing, Permitted, editVars, keyVars, overlay
<1>4. ASSUME NEW t \in Threads, WriteRow(t) PROVE PlanCurrent'
  BY <1>4, ControlAssumption, TypeOK, PlanCurrent DEF WriteRow, Goes, PlanCurrent, TypeOK, Editing, Permitted, editVars, keyVars, overlay
<1>5. ASSUME NEW t \in Threads, WriteFails(t) PROVE PlanCurrent'
  BY <1>5, ControlAssumption, TypeOK, PlanCurrent DEF WriteFails, Leave, PlanCurrent, TypeOK, Editing, Permitted, editVars, keyVars, overlay
<1>6. ASSUME NEW t \in Threads, Audit(t) PROVE PlanCurrent'
  BY <1>6, ControlAssumption, TypeOK, PlanCurrent DEF Audit, Leave, PlanCurrent, TypeOK, Editing, Permitted, editVars, keyVars, overlay
<1>7. ASSUME NEW t \in Threads, PatchGlobals(t) PROVE PlanCurrent'
  BY <1>7, ControlAssumption, TypeOK, PlanCurrent DEF PatchGlobals, Enter, PlanCurrent, TypeOK, Editing, Permitted, editVars, keyVars, overlay
<1>8. ASSUME NEW t \in Threads, SetGlobal(t) PROVE PlanCurrent'
  BY <1>8, ControlAssumption, TypeOK, PlanCurrent DEF SetGlobal, PlanCurrent, TypeOK, Editing, Permitted, editVars, keyVars, overlay
<1>9. ASSUME NEW t \in Threads, RefuseGlobals(t) PROVE PlanCurrent'
  BY <1>9, ControlAssumption, TypeOK, PlanCurrent DEF RefuseGlobals, Leave, PlanCurrent, TypeOK, Editing, Permitted, editVars, keyVars, overlay
<1>10. ASSUME NEW t \in Threads, Lookup(t) PROVE PlanCurrent'
  BY <1>10, ControlAssumption, TypeOK, PlanCurrent DEF Lookup, Release, PlanCurrent, TypeOK, Editing, Permitted, editVars, keyVars, overlay
<1>11. ASSUME NEW t \in Threads, Spawn(t) PROVE PlanCurrent'
  BY <1>11, ControlAssumption, TypeOK, PlanCurrent DEF Spawn, Release, PlanCurrent, TypeOK, Editing, Permitted, editVars, keyVars, overlay
<1>12. ASSUME NEW t \in Threads, Record(t) PROVE PlanCurrent'
  BY <1>12, ControlAssumption, TypeOK, PlanCurrent DEF Record, Release, PlanCurrent, TypeOK, Editing, Permitted, editVars, keyVars, overlay
<1>13. ASSUME NEW t \in Threads, RecordFails(t) PROVE PlanCurrent'
  BY <1>13, ControlAssumption, TypeOK, PlanCurrent DEF RecordFails, Release, PlanCurrent, TypeOK, Editing, Permitted, editVars, keyVars, overlay
<1>14. ASSUME NEW t \in Threads, NEW k \in Keys, Claim(t, k) PROVE PlanCurrent'
  BY <1>14, ControlAssumption, TypeOK, PlanCurrent DEF Claim, Goes, PlanCurrent, TypeOK, Editing, Permitted, editVars, keyVars, overlay
<1>15. ASSUME GlobalPause PROVE PlanCurrent'
  BY <1>15, ControlAssumption, TypeOK, PlanCurrent DEF GlobalPause, PlanCurrent, TypeOK, Editing, Permitted, editVars, keyVars, overlay
<1>16. ASSUME Crash PROVE PlanCurrent'
  BY <1>16, ControlAssumption, TypeOK, PlanCurrent DEF Crash, PlanCurrent, TypeOK, Editing, Permitted, editVars, keyVars, overlay
<1>17. ASSUME NEW k \in Keys, PruneIdempotency(k) PROVE PlanCurrent'
  BY <1>17, ControlAssumption, TypeOK, PlanCurrent DEF PruneIdempotency, PlanCurrent, TypeOK, Editing, Permitted, editVars, keyVars, overlay
<1>18. CASE UNCHANGED vars
  BY <1>18, ControlAssumption, TypeOK, PlanCurrent DEF vars, PlanCurrent, TypeOK, Editing, Permitted, editVars, keyVars, overlay
<1>q. QED
  BY <1>1, <1>2, <1>3, <1>4, <1>5, <1>6, <1>7, <1>8, <1>9, <1>10, <1>11, <1>12, <1>13, <1>14, <1>15, <1>16, <1>17, <1>18 DEF Next, EditStep, KeyStep

(* A step of the handlers is an edit of the overlay, or none.              *)
LEMMA StepOverlay == ASSUME TypeOK, PlanCurrent, [Next]_vars PROVE [OverlayNext]_overlay
<1>1. ASSUME NEW t \in Threads, WriteRow(t) PROVE \E r \in Requests : Edit(r)
  <2>1. /\ req[t] \in Requests /\ req[t].pool \in Pools
        /\ Permitted(req[t])
        /\ plan[t].row = NewRow(req[t], overrides[req[t].pool])
        /\ plan[t].flags = NewFlags(req[t], states[req[t].pool])
    BY <1>1, TypeOK, PlanCurrent, RequestPool DEF WriteRow, Goes, TypeOK, PlanCurrent
  <2>2. CASE req[t].op = "state"
    <3>1. NewRow(req[t], overrides[req[t].pool]) = overrides[req[t].pool]
      BY <2>2 DEF NewRow
    <3>2. overrides' = [overrides EXCEPT ![req[t].pool] = NewRow(req[t], @)]
      BY <1>1, <2>1, <2>2, <3>1, TypeOK DEF WriteRow, TypeOK
    <3>3. states' = [states EXCEPT ![req[t].pool] = NewFlags(req[t], @)]
      BY <1>1, <2>1, <2>2 DEF WriteRow
    <3>q. QED
      BY <2>1, <3>2, <3>3 DEF Edit
  <2>3. CASE req[t].op # "state"
    <3>1. NewFlags(req[t], states[req[t].pool]) = states[req[t].pool]
      BY <2>3 DEF NewFlags
    <3>2. states' = [states EXCEPT ![req[t].pool] = NewFlags(req[t], @)]
      BY <1>1, <2>1, <2>3, <3>1, TypeOK DEF WriteRow, TypeOK
    <3>3. overrides' = [overrides EXCEPT ![req[t].pool] = NewRow(req[t], @)]
      BY <1>1, <2>1, <2>3 DEF WriteRow
    <3>q. QED
      BY <2>1, <3>2, <3>3 DEF Edit
  <2>q. QED
    BY <2>2, <2>3
<1>2. CASE UNCHANGED vars
  BY <1>2 DEF vars, editVars, overlay
<1>3. CASE Next /\ ~\E t \in Threads : WriteRow(t)
  BY <1>3 DEF Next, EditStep, KeyStep, Arrive, Refuse, ReadRow, WriteFails, Audit, PatchGlobals,
     SetGlobal, RefuseGlobals, Lookup, Spawn, Record, RecordFails, Claim, GlobalPause, Crash,
     PruneIdempotency, editVars, overlay
<1>q. QED
  BY <1>1, <1>2, <1>3 DEF OverlayNext

(* The API implements the abstract overlay: whatever the threads, failures *)
(* and restarts, every saved edit is one edit of the rows as they are, so  *)
(* none disappears under another.                                          *)
THEOREM OverlayImplemented == Spec => EditsAtomic
<1>1. Init => OverlayInit /\ PlanCurrent
  BY DEF Init, PlanCurrent
<1>2. TypeOK /\ PlanCurrent /\ [Next]_vars => PlanCurrent' /\ [OverlayNext]_overlay
  BY StepPlan, StepOverlay
<1>q. QED
  BY <1>1, <1>2, Typing, PTL DEF Spec, EditsAtomic, OverlaySpec

-----------------------------------------------------------------------------
(* Keys.                                                                   *)

(* A request that goes on with its key keeps the claim to itself.          *)
LEMMA AdvanceClaims ==
  ASSUME TypeOK, ClaimsOwned, NEW t \in Threads, at[t] \in Claimed, NEW s \in Claimed,
         at' = [at EXCEPT ![t] = s], UNCHANGED <<key, inFlight>>
  PROVE  ClaimsOwned'
<1>1. {u \in Threads : at'[u] \in Claimed} = {u \in Threads : at[u] \in Claimed}
  BY DEF TypeOK
<1>q. QED
  BY <1>1 DEF ClaimsOwned, TypeOK

(* A request that gives its key back leaves the claims of others alone.    *)
LEMMA ReleaseClaims ==
  ASSUME TypeOK, ClaimsOwned, NEW t \in Threads, at[t] \in Claimed, Release(t)
  PROVE  ClaimsOwned'
  BY DEF ClaimsOwned, TypeOK, Claimed, Release

(* A key in flight stays with the one request that claimed it.             *)
LEMMA StepClaims == ASSUME TypeOK, ClaimsOwned, [Next]_vars PROVE ClaimsOwned'
<1>1. ASSUME NEW t \in Threads, Arrive(t) PROVE ClaimsOwned'
  BY <1>1, ControlAssumption, TypeOK, ClaimsOwned DEF Arrive, Goes, ClaimsOwned, TypeOK, Claimed, Editing, editVars, keyVars, overlay
<1>2. ASSUME NEW t \in Threads, Refuse(t) PROVE ClaimsOwned'
  BY <1>2, ControlAssumption, TypeOK, ClaimsOwned DEF Refuse, Goes, ClaimsOwned, TypeOK, Claimed, Editing, editVars, keyVars, overlay
<1>3. ASSUME NEW t \in Threads, NEW r \in Requests, ReadRow(t, r) PROVE ClaimsOwned'
  BY <1>3, ControlAssumption, TypeOK, ClaimsOwned DEF ReadRow, Goes, Enter, ClaimsOwned, TypeOK, Claimed, Editing, editVars, keyVars, overlay
<1>4. ASSUME NEW t \in Threads, WriteRow(t) PROVE ClaimsOwned'
  BY <1>4, ControlAssumption, TypeOK, ClaimsOwned DEF WriteRow, Goes, ClaimsOwned, TypeOK, Claimed, Editing, editVars, keyVars, overlay
<1>5. ASSUME NEW t \in Threads, WriteFails(t) PROVE ClaimsOwned'
  BY <1>5, ControlAssumption, TypeOK, ClaimsOwned DEF WriteFails, Leave, ClaimsOwned, TypeOK, Claimed, Editing, editVars, keyVars, overlay
<1>6. ASSUME NEW t \in Threads, Audit(t) PROVE ClaimsOwned'
  BY <1>6, ControlAssumption, TypeOK, ClaimsOwned DEF Audit, Leave, ClaimsOwned, TypeOK, Claimed, Editing, editVars, keyVars, overlay
<1>7. ASSUME NEW t \in Threads, PatchGlobals(t) PROVE ClaimsOwned'
  BY <1>7, ControlAssumption, TypeOK, ClaimsOwned DEF PatchGlobals, Enter, ClaimsOwned, TypeOK, Claimed, Editing, editVars, keyVars, overlay
<1>8. ASSUME NEW t \in Threads, SetGlobal(t) PROVE ClaimsOwned'
  BY <1>8, ControlAssumption, TypeOK, ClaimsOwned DEF SetGlobal, ClaimsOwned, TypeOK, Claimed, Editing, editVars, keyVars, overlay
<1>9. ASSUME NEW t \in Threads, RefuseGlobals(t) PROVE ClaimsOwned'
  BY <1>9, ControlAssumption, TypeOK, ClaimsOwned DEF RefuseGlobals, Leave, ClaimsOwned, TypeOK, Claimed, Editing, editVars, keyVars, overlay
<1>10. ASSUME NEW t \in Threads, Lookup(t) PROVE ClaimsOwned'
  <2>1. at[t] \in Claimed
    BY <1>10 DEF Lookup, Claimed
  <2>2. CASE at' = [at EXCEPT ![t] = "spawn"] /\ UNCHANGED <<key, inFlight>>
    BY <2>1, <2>2, TypeOK, ClaimsOwned, AdvanceClaims DEF Claimed
  <2>3. CASE Release(t)
    BY <2>1, <2>3, TypeOK, ClaimsOwned, ReleaseClaims
  <2>q. QED
    BY <1>10, <2>2, <2>3 DEF Lookup
<1>11. ASSUME NEW t \in Threads, Spawn(t) PROVE ClaimsOwned'
  <2>1. at[t] \in Claimed
    BY <1>11 DEF Spawn, Claimed
  <2>2. CASE at' = [at EXCEPT ![t] = "record"] /\ UNCHANGED <<key, inFlight>>
    BY <2>1, <2>2, TypeOK, ClaimsOwned, AdvanceClaims DEF Claimed
  <2>3. CASE Release(t)
    BY <2>1, <2>3, TypeOK, ClaimsOwned, ReleaseClaims
  <2>q. QED
    BY <1>11, <2>2, <2>3 DEF Spawn
<1>12. ASSUME NEW t \in Threads, Record(t) PROVE ClaimsOwned'
  BY <1>12, ControlAssumption, TypeOK, ClaimsOwned DEF Record, Release, ClaimsOwned, TypeOK, Claimed, Editing, editVars, keyVars, overlay
<1>13. ASSUME NEW t \in Threads, RecordFails(t) PROVE ClaimsOwned'
  BY <1>13, ControlAssumption, TypeOK, ClaimsOwned DEF RecordFails, Release, ClaimsOwned, TypeOK, Claimed, Editing, editVars, keyVars, overlay
<1>14. ASSUME NEW t \in Threads, NEW k \in Keys, Claim(t, k) PROVE ClaimsOwned'
  BY <1>14, ControlAssumption, TypeOK, ClaimsOwned DEF Claim, Goes, ClaimsOwned, TypeOK, Claimed, Editing, editVars, keyVars, overlay
<1>15. ASSUME GlobalPause PROVE ClaimsOwned'
  BY <1>15, ControlAssumption, TypeOK, ClaimsOwned DEF GlobalPause, ClaimsOwned, TypeOK, Claimed, Editing, editVars, keyVars, overlay
<1>16. ASSUME Crash PROVE ClaimsOwned'
  BY <1>16, ControlAssumption, TypeOK, ClaimsOwned DEF Crash, ClaimsOwned, TypeOK, Claimed, Editing, editVars, keyVars, overlay
<1>17. ASSUME NEW k \in Keys, PruneIdempotency(k) PROVE ClaimsOwned'
  BY <1>17, ControlAssumption, TypeOK, ClaimsOwned DEF PruneIdempotency, ClaimsOwned, TypeOK, Claimed, Editing, editVars, keyVars, overlay
<1>18. CASE UNCHANGED vars
  BY <1>18, ControlAssumption, TypeOK, ClaimsOwned DEF vars, ClaimsOwned, TypeOK, Claimed, Editing, editVars, keyVars, overlay
<1>q. QED
  BY <1>1, <1>2, <1>3, <1>4, <1>5, <1>6, <1>7, <1>8, <1>9, <1>10, <1>11, <1>12, <1>13, <1>14, <1>15, <1>16, <1>17, <1>18 DEF Next, EditStep, KeyStep

(* A key in in_flight belongs to one request that is not over, and every   *)
(* exception gives it back.                                                *)
THEOREM ClaimsKept == Spec => []ClaimsOwned
<1>1. Init => ClaimsOwned
  BY DEF Init, ClaimsOwned, Claimed
<1>2. TypeOK /\ ClaimsOwned /\ [Next]_vars => ClaimsOwned'
  BY StepClaims
<1>q. QED
  BY <1>1, <1>2, Typing, PTL DEF Spec

(* Every runner of a key stays remembered, lost, or with the request that  *)
(* holds the key.                                                          *)
LEMMA StepAccounted ==
  ASSUME TypeOK, ClaimsOwned, Accounted, [Next]_vars PROVE Accounted'
<1>1. ASSUME NEW t \in Threads, Arrive(t) PROVE Accounted'
  BY <1>1, ControlAssumption, TypeOK, ClaimsOwned, Accounted DEF Arrive, Goes, Accounted, ClaimsOwned, TypeOK, Claimed, Editing, editVars, keyVars, overlay
<1>2. ASSUME NEW t \in Threads, Refuse(t) PROVE Accounted'
  BY <1>2, ControlAssumption, TypeOK, ClaimsOwned, Accounted DEF Refuse, Goes, Accounted, ClaimsOwned, TypeOK, Claimed, Editing, editVars, keyVars, overlay
<1>3. ASSUME NEW t \in Threads, NEW r \in Requests, ReadRow(t, r) PROVE Accounted'
  BY <1>3, ControlAssumption, TypeOK, ClaimsOwned, Accounted DEF ReadRow, Goes, Enter, Accounted, ClaimsOwned, TypeOK, Claimed, Editing, editVars, keyVars, overlay
<1>4. ASSUME NEW t \in Threads, WriteRow(t) PROVE Accounted'
  BY <1>4, ControlAssumption, TypeOK, ClaimsOwned, Accounted DEF WriteRow, Goes, Accounted, ClaimsOwned, TypeOK, Claimed, Editing, editVars, keyVars, overlay
<1>5. ASSUME NEW t \in Threads, WriteFails(t) PROVE Accounted'
  BY <1>5, ControlAssumption, TypeOK, ClaimsOwned, Accounted DEF WriteFails, Leave, Accounted, ClaimsOwned, TypeOK, Claimed, Editing, editVars, keyVars, overlay
<1>6. ASSUME NEW t \in Threads, Audit(t) PROVE Accounted'
  BY <1>6, ControlAssumption, TypeOK, ClaimsOwned, Accounted DEF Audit, Leave, Accounted, ClaimsOwned, TypeOK, Claimed, Editing, editVars, keyVars, overlay
<1>7. ASSUME NEW t \in Threads, PatchGlobals(t) PROVE Accounted'
  BY <1>7, ControlAssumption, TypeOK, ClaimsOwned, Accounted DEF PatchGlobals, Enter, Accounted, ClaimsOwned, TypeOK, Claimed, Editing, editVars, keyVars, overlay
<1>8. ASSUME NEW t \in Threads, SetGlobal(t) PROVE Accounted'
  BY <1>8, ControlAssumption, TypeOK, ClaimsOwned, Accounted DEF SetGlobal, Accounted, ClaimsOwned, TypeOK, Claimed, Editing, editVars, keyVars, overlay
<1>9. ASSUME NEW t \in Threads, RefuseGlobals(t) PROVE Accounted'
  BY <1>9, ControlAssumption, TypeOK, ClaimsOwned, Accounted DEF RefuseGlobals, Leave, Accounted, ClaimsOwned, TypeOK, Claimed, Editing, editVars, keyVars, overlay
<1>10. ASSUME NEW t \in Threads, Lookup(t) PROVE Accounted'
  <2>1. CASE Release(t)
    BY <1>10, <2>1, ControlAssumption, TypeOK, Accounted DEF Lookup, Release, Accounted, TypeOK
  <2>2. CASE /\ key[t] \notin remembered
             /\ at' = [at EXCEPT ![t] = "spawn"] /\ UNCHANGED <<key, inFlight>>
    BY <1>10, <2>2, TypeOK, Accounted DEF Lookup, Accounted, TypeOK
  <2>q. QED
    BY <1>10, <2>1, <2>2 DEF Lookup
<1>11. ASSUME NEW t \in Threads, Spawn(t) PROVE Accounted'
  <2>1. at[t] = "spawn" /\ key[t] \in Keys /\ key[t] \notin remembered
    BY <1>11, TypeOK, Accounted DEF Spawn, TypeOK, Claimed, Accounted
  <2>2. CASE Release(t) /\ UNCHANGED spawned
    BY <1>11, <2>1, <2>2, ControlAssumption, TypeOK, Accounted DEF Spawn, Release, Accounted, TypeOK
  <2>3. CASE ~(Release(t) /\ UNCHANGED spawned)
    <3>1. /\ at' = [at EXCEPT ![t] = "record"]
          /\ spawned' = [spawned EXCEPT ![key[t]] = @ + 1]
          /\ UNCHANGED <<key, remembered, lost>>
      BY <1>11, <2>3 DEF Spawn
    <3>2. \A u \in Threads : at[u] = "record" => key[u] # key[t]
      BY <2>1, ClaimsOwned DEF ClaimsOwned, Claimed
    <3>3. spawned[key[t]] = lost[key[t]]
      BY <2>1, <3>2, TypeOK, Accounted DEF Accounted, TypeOK
    <3>4. ASSUME NEW k \in Keys, k # key[t]
          PROVE  (\E u \in Threads : at'[u] = "record" /\ key'[u] = k)
                   <=> (\E u \in Threads : at[u] = "record" /\ key[u] = k)
      BY <2>1, <3>1, <3>4, TypeOK DEF TypeOK
    <3>5. at'[t] = "record" /\ key'[t] = key[t]
      BY <3>1, TypeOK DEF TypeOK
    <3>6. ASSUME NEW k \in Keys
          PROVE  spawned'[k] = lost'[k] +
                   (IF k \in remembered' \/ \E u \in Threads : at'[u] = "record" /\ key'[u] = k
                    THEN 1 ELSE 0)
      <4>1. CASE k = key[t]
        BY <2>1, <3>1, <3>3, <3>5, <4>1, TypeOK DEF TypeOK
      <4>2. CASE k # key[t]
        BY <2>1, <3>1, <3>4, <4>2, TypeOK, Accounted DEF TypeOK, Accounted
      <4>q. QED
        BY <4>1, <4>2
    <3>7. \A u \in Threads : at'[u] \in {"spawn", "record"} => key'[u] \notin remembered'
      BY <2>1, <3>1, TypeOK, Accounted DEF Accounted, TypeOK
    <3>q. QED
      BY <3>6, <3>7 DEF Accounted
  <2>q. QED
    BY <2>2, <2>3
<1>12. ASSUME NEW t \in Threads, Record(t) PROVE Accounted'
  BY <1>12, ControlAssumption, TypeOK, ClaimsOwned, Accounted DEF Record, Release, Accounted, ClaimsOwned, TypeOK, Claimed, Editing, editVars, keyVars, overlay
<1>13. ASSUME NEW t \in Threads, RecordFails(t) PROVE Accounted'
  BY <1>13, ControlAssumption, TypeOK, ClaimsOwned, Accounted DEF RecordFails, Release, Accounted, ClaimsOwned, TypeOK, Claimed, Editing, editVars, keyVars, overlay
<1>14. ASSUME NEW t \in Threads, NEW k \in Keys, Claim(t, k) PROVE Accounted'
  BY <1>14, ControlAssumption, TypeOK, ClaimsOwned, Accounted DEF Claim, Goes, Accounted, ClaimsOwned, TypeOK, Claimed, Editing, editVars, keyVars, overlay
<1>15. ASSUME GlobalPause PROVE Accounted'
  BY <1>15, ControlAssumption, TypeOK, ClaimsOwned, Accounted DEF GlobalPause, Accounted, ClaimsOwned, TypeOK, Claimed, Editing, editVars, keyVars, overlay
<1>16. ASSUME Crash PROVE Accounted'
  BY <1>16, ControlAssumption, TypeOK, ClaimsOwned, Accounted DEF Crash, Accounted, ClaimsOwned, TypeOK, Claimed, Editing, editVars, keyVars, overlay
<1>17. ASSUME NEW k \in Keys, PruneIdempotency(k) PROVE Accounted'
  BY <1>17, ControlAssumption, TypeOK, ClaimsOwned, Accounted DEF PruneIdempotency, Accounted, ClaimsOwned, TypeOK, Claimed, Editing, editVars, keyVars, overlay
<1>18. CASE UNCHANGED vars
  BY <1>18, ControlAssumption, TypeOK, ClaimsOwned, Accounted DEF vars, Accounted, ClaimsOwned, TypeOK, Claimed, Editing, editVars, keyVars, overlay
<1>q. QED
  BY <1>1, <1>2, <1>3, <1>4, <1>5, <1>6, <1>7, <1>8, <1>9, <1>10, <1>11, <1>12, <1>13, <1>14, <1>15, <1>16, <1>17, <1>18 DEF Next, EditStep, KeyStep

(* A key starts at most one runner more than a crash or the store kept it  *)
(* from remembering, in whatever order its request is sent again.          *)
THEOREM OneRunnerPerKey == Spec => []SpawnedOnce
<1>1. Init => Accounted
  BY DEF Init, Accounted
<1>2. TypeOK /\ ClaimsOwned /\ Accounted /\ [Next]_vars => Accounted'
  BY StepAccounted
<1>3. TypeOK /\ Accounted => SpawnedOnce
  BY DEF TypeOK, Accounted, SpawnedOnce
<1>q. QED
  BY <1>1, <1>2, <1>3, Typing, ClaimsKept, PTL DEF Spec
=============================================================================
