------------------------------- MODULE Overlay -------------------------------
(***************************************************************************)
(* The configuration overlay as its users should see it: config.yml below, *)
(* rows of pool_overrides and pool_state above, and each edit of the       *)
(* control API (control_routes.py) one step on the current rows.           *)
(***************************************************************************)
CONSTANTS
  Pools,   \* pool names
  Yaml,    \* those config.yml defines
  Fields,  \* tunable fields; a row's data is the set of those it overrides
  Flags    \* "paused" and "draining" of a PoolState

ASSUME OverlayAssumption == Yaml \subseteq Pools

VARIABLES
  overrides,   \* pool -> its row of pool_overrides
  states       \* pool -> the flags of its row of pool_state

overlay == <<overrides, states>>

Rows == [origin : {"none", "yaml", "ui"}, disabled : BOOLEAN, data : SUBSET Fields]
NoRow == [origin |-> "none", disabled |-> FALSE, data |-> {}]

\* The pools of resolve(): a disabled row hides the pool, a row of an API
\* pool is one, and a row under a config.yml name tunes that definition.
Effective(rows) ==
  {n \in Pools : ~rows[n].disabled /\ (n \in Yaml \/ rows[n].origin = "ui")}

Requests ==
  [op : {"patch", "create"}, pool : Pools, fields : SUBSET Fields]
    \cup [op : {"reset", "remove"}, pool : Pools]
    \cup [op : {"state"}, pool : Pools, flag : Flags, on : BOOLEAN]

\* Whom the handlers do not answer 404 or 409.
Permitted(r) ==
  \/ r.op = "patch" /\ (r.pool \in Yaml \/ overrides[r.pool].origin = "ui")
  \/ r.op = "create" /\ r.pool \notin Effective(overrides)
  \/ r.op = "reset" /\ r.pool \in Yaml
  \/ r.op = "remove" /\ (r.pool \in Yaml \/ overrides[r.pool].origin = "ui")
  \/ r.op = "state" /\ r.pool \in Effective(overrides)

\* The row a request leaves where there was `row`.  Saving a patch enables
\* the row again.
NewRow(r, row) ==
  CASE r.op = "patch" ->
         [origin |-> IF row = NoRow THEN "yaml" ELSE row.origin,
          disabled |-> FALSE, data |-> row.data \cup r.fields]
    [] r.op = "create" -> [origin |-> "ui", disabled |-> FALSE, data |-> r.fields]
    [] r.op = "reset" -> NoRow
    [] r.op = "remove" ->
         IF row.origin = "ui" THEN NoRow
         ELSE [origin |-> "yaml", disabled |-> TRUE, data |-> row.data]
    [] OTHER -> row

NewFlags(r, flags) ==
  IF r.op # "state" THEN flags
  ELSE IF r.on THEN flags \cup {r.flag} ELSE flags \ {r.flag}

-----------------------------------------------------------------------------
OverlayInit ==
  /\ overrides = [n \in Pools |-> NoRow]
  /\ states = [n \in Pools |-> {}]

Edit(r) ==
  /\ Permitted(r)
  /\ overrides' = [overrides EXCEPT ![r.pool] = NewRow(r, @)]
  /\ states' = [states EXCEPT ![r.pool] = NewFlags(r, @)]

OverlayNext == \E r \in Requests : Edit(r)

OverlaySpec == OverlayInit /\ [][OverlayNext]_overlay
=============================================================================
