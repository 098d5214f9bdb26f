------------------------------ MODULE BringUp -------------------------------
(***************************************************************************)
(* Bringing the system up (docker-compose.yml, cli.py): workers start once *)
(* PostgreSQL is healthy, whether or not the schema is there; migrate is a *)
(* command somebody runs.  A worker that claims before the tables it needs *)
(* exist, or while PostgreSQL is away, dies of the exception, and Docker   *)
(* starts it again without asking for health.  PostgreSQL keeps what was   *)
(* committed when it goes away; nothing but a person brings it back.       *)
(***************************************************************************)
EXTENDS Migrations

CONSTANTS
    Services,       \* the containers of the worker service
    Needed          \* the scripts that create what a claim reads

ASSUME BringUpAssumption == Needed \subseteq Scripts

VARIABLES
    up,             \* does PostgreSQL accept connections?
    wstep           \* waiting (for health), starting, serving, down

bringUpVars == <<migrationVars, up, wstep>>

BringUpInit ==
    /\ MigrationsInit
    /\ up = FALSE
    /\ wstep = [w \in Services |-> "waiting"]

(* docker compose up: depends_on postgres, service_healthy.                *)
ContainerStarts(w) ==
    /\ wstep[w] = "waiting"
    /\ up
    /\ wstep' = [wstep EXCEPT ![w] = "starting"]
    /\ UNCHANGED <<migrationVars, up>>

(* _cmd_run opens the pool, loads the model and calls run, which claims    *)
(* and goes on claiming; an exception leaves it, and the pool is closed.   *)
WorkerClaims(w) ==
    /\ wstep[w] \in {"starting", "serving"}
    /\ wstep' = [wstep EXCEPT ![w] =
                    IF up /\ Needed \subseteq executed THEN "serving" ELSE "down"]
    /\ UNCHANGED <<migrationVars, up>>

(* Mutant: a container that exits is left alone. *)
ContainerStays(w) ==
    /\ wstep[w] = "down"
    /\ UNCHANGED bringUpVars

(* restart: unless-stopped                                                 *)
ContainerRestarts(w) ==
    /\ wstep[w] = "down"
    /\ wstep' = [wstep EXCEPT ![w] = "starting"]
    /\ UNCHANGED <<migrationVars, up>>

(* Every connection is lost, and with it the migrates under way.           *)
PostgresStops ==
    /\ up
    /\ up' = FALSE
    /\ KillMigrators(Migrators)
    /\ UNCHANGED wstep

PostgresStarts ==
    /\ ~up
    /\ up' = TRUE
    /\ UNCHANGED <<migrationVars, wstep>>

(* docker compose run --rm worker migrate                                  *)
MigrateRuns(m) ==
    /\ up
    /\ MigrateStep(m)
    /\ UNCHANGED <<up, wstep>>

MigrateStarts(m) ==
    /\ up
    /\ StartMigrate(m)
    /\ UNCHANGED <<up, wstep>>

MigrateDies(m) ==
    /\ mstep[m] \in Migrating
    /\ KillMigrators({m})
    /\ UNCHANGED <<up, wstep>>

ServiceRuns(w) ==
    ContainerStarts(w) \/ WorkerClaims(w) \/ ContainerRestarts(w)

BringUpNext ==
    \/ \E w \in Services : ServiceRuns(w)
    \/ \E m \in Migrators : MigrateStarts(m) \/ MigrateRuns(m) \/ MigrateDies(m)
    \/ PostgresStops
    \/ PostgresStarts

(* Containers and processes that are alive go on.  Nobody has to run       *)
(* migrate or to bring PostgreSQL back.                                    *)
BringUpSpec ==
    /\ BringUpInit
    /\ [][BringUpNext]_bringUpVars
    /\ \A w \in Services : WF_bringUpVars(ServiceRuns(w))
    /\ \A m \in Migrators : WF_bringUpVars(MigrateRuns(m))

(* The order in which somebody starts PostgreSQL, the workers and migrate  *)
(* does not matter: once the schema is there and PostgreSQL stays, every   *)
(* worker comes to serve and goes on serving.                              *)
MigratedIsServed ==
    <>[](up /\ Needed \subseteq executed)
        => <>[](\A w \in Services : wstep[w] = "serving")
=============================================================================
