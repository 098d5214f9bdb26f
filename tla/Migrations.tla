----------------------------- MODULE Migrations -----------------------------
(***************************************************************************)
(* apply_migrations (migrate.py): on an autocommit connection, create the  *)
(* tracking table unless it is there, read once which scripts are          *)
(* recorded, then execute and record each of the others in name order.     *)
(* Every statement is a transaction of its own, a whole script is one; so  *)
(* a process may die between executing a script and recording it, and two  *)
(* processes may do the same work at once.                                 *)
(*                                                                         *)
(* A statement waits for another that creates the same object and is still *)
(* under way; when that one commits, it may find the object or may raise   *)
(* (IF NOT EXISTS is no protection against a concurrent CREATE).           *)
(***************************************************************************)
EXTENDS Naturals

CONSTANTS
    Migrators,      \* processes that run apply_migrations, again if they fail
    NScripts,       \* how many scripts migrations/ has, numbered by name
    Repeatable,     \* the scripts that do not raise when executed again
    MaxKills        \* bound: how many times processes die

Scripts == 1 .. NScripts

ASSUME MigrationsAssumption ==
    /\ NScripts \in Nat
    /\ Repeatable \subseteq Scripts
    /\ MaxKills \in Nat

VARIABLES
    tracking,       \* does the table schema_migrations exist?
    executed,       \* the scripts whose effect is in the schema
    recorded,       \* schema_migrations
    mstep,          \* where each process is in apply_migrations
    overtaken,      \* has another committed what this statement is to do?
    already,        \* what the process read from schema_migrations
    at,             \* the script it is at
    kills           \* how many times processes have died

migrationVars ==
    <<tracking, executed, recorded, mstep, overtaken, already, at, kills>>

(* idle     not started              create    about to create the table   *)
(* read     about to read it         loop      at the next script          *)
(* execute  a script has begun       record    about to record it          *)
(* returned, failed (raised), killed                                       *)
Migrating == {"create", "read", "loop", "execute", "record"}
MigrateSteps == Migrating \cup {"idle", "returned", "failed", "killed"}

MigrationsTypeOK ==
    /\ tracking \in BOOLEAN
    /\ executed \in SUBSET Scripts
    /\ recorded \in SUBSET Scripts
    /\ mstep \in [Migrators -> MigrateSteps]
    /\ overtaken \in [Migrators -> BOOLEAN]
    /\ already \in [Migrators -> SUBSET Scripts]
    /\ at \in [Migrators -> 1 .. NScripts + 1]
    /\ kills \in Nat
    /\ \A m \in Migrators : mstep[m] \in {"execute", "record"} => at[m] \in Scripts

(* A new database, or one that an earlier release has migrated.            *)
MigrationsInit ==
    /\ \E n \in 0 .. NScripts :
        /\ executed = 1 .. n
        /\ recorded = 1 .. n
        /\ tracking \in IF n = 0 THEN BOOLEAN ELSE {TRUE}
    /\ mstep = [m \in Migrators |-> "idle"]
    /\ overtaken = [m \in Migrators |-> FALSE]
    /\ already = [m \in Migrators |-> {}]
    /\ at = [m \in Migrators |-> 1]
    /\ kills = 0

GotoStep(m, step) == mstep' = [mstep EXCEPT ![m] = step]

(* The statement of m has committed while others are at the same one.      *)
Overtake(m) ==
    overtaken' = [n \in Migrators |->
        overtaken[n] \/ (n # m /\ mstep[n] = mstep[m] /\ at[n] = at[m])]

StartMigrate(m) ==
    /\ mstep[m] \in {"idle", "failed", "killed"}
    /\ GotoStep(m, "create")
    /\ overtaken' = [overtaken EXCEPT ![m] = FALSE]
    /\ at' = [at EXCEPT ![m] = 1]
    /\ UNCHANGED <<tracking, executed, recorded, already, kills>>

CreateTracking(m) ==
    /\ mstep[m] = "create"
    /\ tracking' = TRUE
    /\ GotoStep(m, "read")
    /\ IF tracking THEN UNCHANGED overtaken ELSE Overtake(m)
    /\ UNCHANGED <<executed, recorded, already, at, kills>>

(* Mutant: every script is taken to be new. *)
ReadNothing(m) ==
    /\ mstep[m] = "read"
    /\ already' = [already EXCEPT ![m] = {}]
    /\ GotoStep(m, "loop")
    /\ UNCHANGED <<tracking, executed, recorded, overtaken, at, kills>>

ReadRecorded(m) ==
    /\ mstep[m] = "read"
    /\ already' = [already EXCEPT ![m] = recorded]
    /\ GotoStep(m, "loop")
    /\ UNCHANGED <<tracking, executed, recorded, overtaken, at, kills>>

SkipScript(m) ==
    /\ mstep[m] = "loop"
    /\ at[m] \in already[m]
    /\ at' = [at EXCEPT ![m] = @ + 1]
    /\ UNCHANGED <<tracking, executed, recorded, mstep, overtaken, already, kills>>

(* Mutant: a script is recorded and then executed. *)
RecordAndBegin(m) ==
    /\ mstep[m] = "loop"
    /\ at[m] \in Scripts \ already[m]
    /\ recorded' = recorded \cup {at[m]}
    /\ GotoStep(m, "execute")
    /\ overtaken' = [overtaken EXCEPT ![m] = FALSE]
    /\ UNCHANGED <<tracking, executed, already, at, kills>>

BeginScript(m) ==
    /\ mstep[m] = "loop"
    /\ at[m] \in Scripts \ already[m]
    /\ GotoStep(m, "execute")
    /\ overtaken' = [overtaken EXCEPT ![m] = FALSE]
    /\ UNCHANGED <<tracking, executed, recorded, already, at, kills>>

ExecuteScript(m) ==
    /\ mstep[m] = "execute"
    /\ at[m] \notin executed \/ at[m] \in Repeatable
    /\ executed' = executed \cup {at[m]}
    /\ GotoStep(m, "record")
    /\ Overtake(m)
    /\ UNCHANGED <<tracking, recorded, already, at, kills>>

(* The INSERT; filename is the primary key.                                *)
RecordScript(m) ==
    /\ mstep[m] = "record"
    /\ at[m] \notin recorded
    /\ recorded' = recorded \cup {at[m]}
    /\ GotoStep(m, "loop")
    /\ at' = [at EXCEPT ![m] = @ + 1]
    /\ UNCHANGED <<tracking, executed, overtaken, already, kills>>

Raises(m) ==
    \/ mstep[m] \in {"create", "execute"} /\ overtaken[m]
    \/ mstep[m] = "execute" /\ at[m] \in executed \ Repeatable
    \/ mstep[m] = "record" /\ at[m] \in recorded

(* Mutant: a script that raises is skipped. *)
FailedScriptIsSkipped(m) ==
    /\ Raises(m)
    /\ GotoStep(m, "loop")
    /\ at' = [at EXCEPT ![m] = @ + 1]
    /\ UNCHANGED <<tracking, executed, recorded, overtaken, already, kills>>

(* The exception ends the process.                                         *)
FailMigrate(m) ==
    /\ Raises(m)
    /\ GotoStep(m, "failed")
    /\ UNCHANGED <<tracking, executed, recorded, overtaken, already, at, kills>>

ReturnMigrate(m) ==
    /\ mstep[m] = "loop"
    /\ at[m] > NScripts
    /\ GotoStep(m, "returned")
    /\ UNCHANGED <<tracking, executed, recorded, overtaken, already, at, kills>>

MigrateStep(m) ==
    \/ CreateTracking(m)
    \/ ReadRecorded(m)
    \/ SkipScript(m)
    \/ BeginScript(m)
    \/ ExecuteScript(m)
    \/ RecordScript(m)
    \/ FailMigrate(m)
    \/ ReturnMigrate(m)

(* Processes die, one alone or all that are connected.                     *)
KillMigrators(S) ==
    /\ kills < MaxKills
    /\ kills' = kills + 1
    /\ mstep' = [m \in Migrators |->
                    IF m \in S /\ mstep[m] \in Migrating THEN "killed" ELSE mstep[m]]
    /\ UNCHANGED <<tracking, executed, recorded, overtaken, already, at>>

MigrationsNext ==
    \/ \E m \in Migrators : StartMigrate(m) \/ MigrateStep(m)
    \/ \E S \in SUBSET Migrators : KillMigrators(S)

MigrationsSpec == MigrationsInit /\ [][MigrationsNext]_migrationVars

(***************************************************************************)
(* Properties                                                              *)
(***************************************************************************)

(* schema_migrations tells the truth, and scripts build on one another: a  *)
(* recorded script has been executed, and a script is executed only when   *)
(* every earlier one is recorded, however processes overlap and die.       *)
ScriptsInOrder ==
    /\ recorded \subseteq executed
    /\ \A s \in executed : 1 .. s - 1 \subseteq recorded

(* A migrate that returns has left nothing to apply, whatever it found     *)
(* when it began and whatever others were doing.                           *)
ReturnedIsComplete ==
    \A m \in Migrators : mstep[m] = "returned" => recorded = Scripts

(* Several processes that migrate at once may get in each other's way, but *)
(* never so that all of them fail: unless a process died, when they have   *)
(* all ended one of them has returned.                                     *)
AllEnded ==
    /\ \A m \in Migrators : mstep[m] \notin Migrating
    /\ \E m \in Migrators : mstep[m] # "idle"

SomeoneGetsThrough ==
    kills = 0 /\ AllEnded => \E m \in Migrators : mstep[m] = "returned"

(* A migrate that is started again whenever it has failed or died gets     *)
(* everything applied in the end, wherever the deaths were.                *)
RetriedMigrateGetsThrough ==
    (\A m \in Migrators : []<>(mstep[m] \in Migrating \cup {"returned"}))
        => <>(recorded = Scripts)

(***************************************************************************)
(* What makes these invariants inductive                                   *)
(***************************************************************************)

(* A process has reached its script over recorded ones only, and has       *)
(* executed the one it is about to record.                                 *)
OnItsWay ==
    \A m \in Migrators :
        /\ mstep[m] \in {"create", "read"} => at[m] = 1
        /\ mstep[m] \in {"loop", "execute", "record", "returned"}
                => already[m] \cup 1 .. at[m] - 1 \subseteq recorded
        /\ mstep[m] \in {"execute", "record"} => at[m] \notin already[m]
        /\ mstep[m] = "record" => at[m] \in executed
        /\ mstep[m] = "returned" => at[m] > NScripts

(* Nothing that is recorded is in the way of m.                            *)
InFront(m) ==
    \/ mstep[m] = "read"
    \/ /\ mstep[m] \in {"loop", "execute", "record", "returned"}
       /\ recorded \subseteq already[m] \cup 1 .. at[m] - 1

PastCreate == {"read", "loop", "execute", "record", "returned", "failed"}

(* As long as nobody dies: what was executed and not recorded is about to  *)
(* be recorded, and somebody is in front.                                  *)
SomeoneInFront ==
    kills = 0 =>
        /\ \A m \in Migrators : mstep[m] # "killed"
        /\ \A s \in executed \ recorded :
                \E m \in Migrators : mstep[m] = "record" /\ at[m] = s
        /\ \A m \in Migrators :
                mstep[m] \in PastCreate \/ (mstep[m] = "create" /\ overtaken[m])
                    => \E n \in Migrators : InFront(n)
        /\ \A m \in Migrators :
                mstep[m] = "execute" /\ overtaken[m] => at[m] \in executed

MigrationsInv ==
    MigrationsTypeOK /\ ScriptsInOrder /\ OnItsWay /\ SomeoneInFront
=============================================================================
