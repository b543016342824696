-------------------------- MODULE ConnectorCatalog --------------------------
(***************************************************************************)
(* One row of the connector catalog (connectors/store.py) and the          *)
(* operations that change it: the seeding of every request that touches    *)
(* the catalog (connectors/seed.py) and the registration, validation,      *)
(* enabling and disabling of connectors (connectors/registry.py).  Every   *)
(* change reads the row in one transaction and writes all of it back in    *)
(* another, so tasks interleave between the two.                           *)
(***************************************************************************)
EXTENDS Naturals, Sequences

CONSTANTS Tasks, None

(* A call of a connector, or of an action of Kater's own that is listed under one. *)
Calling == {"call", "native"}

Operations == {"enable", "disable", "validate"} \cup Calling

Rows == [status : {"disabled", "validated", "enabled"}, permitted : BOOLEAN, managed : BOOLEAN]

ASSUME CatalogAssumption == None \notin Tasks \cup Rows

VARIABLES
    origin,     \* whether the row is seeded or was registered
    env,        \* whether the credentials of the connector are in the environment
    row,        \* the row, None while there is none
    task,       \* [op, pc, step, seen]: an operation between its reads and its writes
    sole,       \* the task with an open decision of an operator that nothing has overlapped
    settled     \* the status such an enable or disable has left

catalog == <<origin, env, row, task, sole, settled>>

Idle == [op |-> "call", pc |-> "idle", step |-> 1, seen |-> None]

CatalogInit ==
    /\ origin \in {"seed", "dynamic"}
    /\ env \in BOOLEAN
    /\ row = None
    /\ task = [t \in Tasks |-> Idle]
    /\ sole = None
    /\ settled = "no"

(* What the environment makes of a connector nobody has touched. *)
SeedRow == [status |-> IF env THEN "enabled" ELSE "disabled",
            permitted |-> env, managed |-> FALSE]

SeedUnmindful(seen) == SeedRow

(* _upsert_seed: what an operator has set and that a validation was passed is kept. *)
Seed(seen) ==
    CASE seen = None                -> SeedRow
      [] seen # None /\ seen.managed -> seen
      [] OTHER                      -> [SeedRow EXCEPT !.status =
                                            IF seen.status = "validated" THEN "validated" ELSE @]

(* The writes of an operation, in order, each with a read of its own. *)
Steps == [enable   |-> <<"seed", "permission", "enabled", "managed">>,
          disable  |-> <<"seed", "disabled", "managed">>,
          validate |-> <<"seed", "capabilities", "validated">>,
          call     |-> <<"seed">>,
          native   |-> <<"seed">>]

Changed(step, seen) ==
    CASE step = "seed"         -> Seed(seen)
      [] step = "permission"   -> [seen EXCEPT !.permitted = TRUE]
      [] step = "capabilities" -> seen
      [] step = "managed"      -> [seen EXCEPT !.managed = TRUE]
      [] OTHER                 -> [seen EXCEPT !.status = step]

-----------------------------------------------------------------------------
(* Nothing else is between a read and its write, and no other decision is open. *)
Alone(t) == \A u \in Tasks \ {t} : task[u].pc # "write" /\ (task[u].op \in Calling \/ task[u].pc = "idle")

(* A request or a command starts; an operator's decision is open from here. *)
StartTask(t, op) ==
    /\ task[t].pc = "idle"
    /\ task' = [task EXCEPT ![t] = [Idle EXCEPT !.op = op, !.pc = "read"]]
    /\ IF op \in Calling THEN UNCHANGED <<sole, settled>>
       ELSE settled' = "no" /\ sole' = IF Alone(t) THEN t ELSE None
    /\ UNCHANGED <<origin, env, row>>

(* POST /api/connectors: the row starts disabled, without permissions. *)
RegisterConnector ==
    /\ origin = "dynamic" /\ row = None
    /\ row' = [status |-> "disabled", permitted |-> FALSE, managed |-> FALSE]
    /\ UNCHANGED <<origin, env, task, sole, settled>>

(* get_connector; only the seeding goes on without a row. *)
ReadRow(t) ==
    /\ task[t].pc = "read"
    /\ task' = IF row = None /\ Steps[task[t].op][task[t].step] # "seed"
               THEN [task EXCEPT ![t] = Idle]
               ELSE [task EXCEPT ![t].pc = "write", ![t].seen = row]
    /\ sole' = IF sole = t /\ task'[t].pc = "write" THEN t ELSE None
    /\ UNCHANGED <<origin, env, row, settled>>

(* The tools of the server cannot be listed. *)
DiscoveryFails(t) ==
    /\ task[t].pc = "write" /\ Steps[task[t].op][task[t].step] = "capabilities"
    /\ task' = [task EXCEPT ![t] = Idle]
    /\ sole' = IF sole = t THEN None ELSE sole
    /\ UNCHANGED <<origin, env, row, settled>>

(* _persist: the whole row is written, as it was read but for one field; seeding leaves the *)
(* rows of registered connectors alone.                                                     *)
WriteRow(t) ==
    /\ task[t].pc = "write"
    /\ LET steps == Steps[task[t].op]
           last == task[t].step = Len(steps)
       IN  /\ row' = IF steps[task[t].step] = "seed" /\ origin = "dynamic" THEN row
                     ELSE Changed(steps[task[t].step], task[t].seen)
           /\ task' = [task EXCEPT ![t] =
                  IF ~last THEN [@ EXCEPT !.pc = "read", !.step = task[t].step + 1, !.seen = None]
                  ELSE IF @.op \in Calling THEN [@ EXCEPT !.pc = "authorize", !.seen = None]
                  ELSE Idle]
           /\ sole' = IF sole = t /\ ~last THEN t ELSE None
           /\ settled' = IF last /\ sole = t /\ task[t].op # "validate"
                         THEN steps[Len(steps) - 1] ELSE settled
    /\ UNCHANGED <<origin, env>>

CatalogStep(t) ==
    \/ \E op \in Operations : StartTask(t, op)
    \/ ReadRow(t)
    \/ DiscoveryFails(t)
    \/ WriteRow(t)
=============================================================================
