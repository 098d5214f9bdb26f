--------------------------- MODULE BringUpProofs ----------------------------
(***************************************************************************)
(* apply_migrations is proved for any number of processes and scripts, any *)
(* set of repeatable scripts and any number of deaths; bringing the system *)
(* up takes no other steps on the schema.                                  *)
(***************************************************************************)
EXTENDS BringUp, TLAPS

(***************************************************************************)
(* MigrationsInv is inductive, one part at a time                          *)
(***************************************************************************)
LEMMA MigrationsInitInv == MigrationsInit => MigrationsInv
<1> SUFFICES ASSUME MigrationsInit PROVE MigrationsInv
  OBVIOUS
<1> USE MigrationsAssumption
<1>1. PICK n \in 0 .. NScripts :
        /\ executed = 1 .. n
        /\ recorded = 1 .. n
        /\ tracking \in IF n = 0 THEN BOOLEAN ELSE {TRUE}
  BY DEF MigrationsInit
<1>2. MigrationsTypeOK
  <2>1. 1 .. n \in SUBSET (1 .. NScripts) /\ 1 \in 1 .. NScripts + 1
    BY <1>1
  <2>2. tracking \in BOOLEAN
    BY <1>1
  <2> QED
    BY <1>1, <2>1, <2>2
    DEF MigrationsInit, MigrationsTypeOK, MigrateSteps, Migrating, Scripts
<1>3. ScriptsInOrder
  BY <1>1 DEF ScriptsInOrder
<1>4. OnItsWay /\ SomeoneInFront
  BY <1>1 DEF MigrationsInit, OnItsWay, SomeoneInFront, PastCreate
<1> QED
  BY <1>2, <1>3, <1>4 DEF MigrationsInv

(* The type of the state after every step.                                 *)
LEMMA MigrationsType ==
    MigrationsTypeOK /\ [MigrationsNext]_migrationVars => MigrationsTypeOK'
<1> SUFFICES ASSUME MigrationsTypeOK, [MigrationsNext]_migrationVars
             PROVE  MigrationsTypeOK'
  OBVIOUS
<1> USE MigrationsAssumption DEF MigrationsTypeOK, MigrateSteps, Migrating, Scripts
<1>1. ASSUME NEW m \in Migrators, StartMigrate(m) PROVE MigrationsTypeOK'
  BY <1>1 DEF StartMigrate, GotoStep
<1>2. ASSUME NEW m \in Migrators, CreateTracking(m) PROVE MigrationsTypeOK'
  BY <1>2 DEF CreateTracking, GotoStep, Overtake
<1>3. ASSUME NEW m \in Migrators, ReadRecorded(m) PROVE MigrationsTypeOK'
  BY <1>3 DEF ReadRecorded, GotoStep
<1>11. ASSUME NEW m \in Migrators, SkipScript(m) PROVE MigrationsTypeOK'
  <2>1. at[m] + 1 \in 1 .. NScripts + 1
    BY <1>11 DEF SkipScript
  <2> QED
    BY <1>11, <2>1 DEF SkipScript
<1>4. ASSUME NEW m \in Migrators, BeginScript(m) PROVE MigrationsTypeOK'
  BY <1>4 DEF BeginScript, GotoStep
<1>5. ASSUME NEW m \in Migrators, ExecuteScript(m) PROVE MigrationsTypeOK'
  BY <1>5 DEF ExecuteScript, GotoStep, Overtake
<1>6. ASSUME NEW m \in Migrators, RecordScript(m) PROVE MigrationsTypeOK'
  <2>1. at[m] \in 1 .. NScripts /\ at[m] + 1 \in 1 .. NScripts + 1
    BY <1>6 DEF RecordScript
  <2> QED
    BY <1>6, <2>1 DEF RecordScript, GotoStep
<1>7. ASSUME NEW m \in Migrators, FailMigrate(m) \/ ReturnMigrate(m) PROVE MigrationsTypeOK'
  BY <1>7 DEF FailMigrate, ReturnMigrate, GotoStep
<1>8. ASSUME NEW S \in SUBSET Migrators, KillMigrators(S) PROVE MigrationsTypeOK'
  BY <1>8 DEF KillMigrators
<1>9. CASE UNCHANGED migrationVars
  BY <1>9 DEF migrationVars
<1> QED
  BY <1>1, <1>2, <1>3, <1>4, <1>5, <1>6, <1>7, <1>8, <1>9, <1>11
  DEF MigrationsNext, MigrateStep

(* Scripts are recorded only after they are executed, and executed only    *)
(* after all earlier ones are recorded.                                    *)
LEMMA MigrationsOrder ==
    MigrationsTypeOK /\ ScriptsInOrder /\ OnItsWay /\ [MigrationsNext]_migrationVars
        => ScriptsInOrder' /\ OnItsWay'
<1> SUFFICES ASSUME MigrationsTypeOK, ScriptsInOrder, OnItsWay,
                    [MigrationsNext]_migrationVars
             PROVE  ScriptsInOrder' /\ OnItsWay'
  OBVIOUS
<1> USE MigrationsAssumption DEF MigrationsTypeOK, ScriptsInOrder, OnItsWay, Scripts
<1>1. ASSUME NEW m \in Migrators, StartMigrate(m) PROVE ScriptsInOrder' /\ OnItsWay'
  BY <1>1 DEF StartMigrate, GotoStep
<1>2. ASSUME NEW m \in Migrators, CreateTracking(m) PROVE ScriptsInOrder' /\ OnItsWay'
  BY <1>2 DEF CreateTracking, GotoStep, MigrateSteps, Migrating
<1>3. ASSUME NEW m \in Migrators, ReadRecorded(m) PROVE ScriptsInOrder' /\ OnItsWay'
  BY <1>3 DEF ReadRecorded, GotoStep
<1>4. ASSUME NEW m \in Migrators, SkipScript(m) PROVE ScriptsInOrder' /\ OnItsWay'
  BY <1>4 DEF SkipScript
<1>5. ASSUME NEW m \in Migrators, BeginScript(m) PROVE ScriptsInOrder' /\ OnItsWay'
  BY <1>5 DEF BeginScript, GotoStep
<1>6. ASSUME NEW m \in Migrators, ExecuteScript(m) PROVE ScriptsInOrder' /\ OnItsWay'
  BY <1>6 DEF ExecuteScript, GotoStep
<1>7. ASSUME NEW m \in Migrators, RecordScript(m) PROVE ScriptsInOrder' /\ OnItsWay'
  <2>1. at[m] \in 1 .. NScripts /\ 1 .. at[m] = (1 .. at[m] - 1) \cup {at[m]}
    BY <1>7 DEF RecordScript
  <2>2. ScriptsInOrder'
    BY <1>7 DEF RecordScript
  <2>3. at'[m] - 1 = at[m]
    BY <1>7, <2>1 DEF RecordScript
  <2>4. already'[m] \cup 1 .. at'[m] - 1 \subseteq recorded'
    BY <1>7, <2>1, <2>3 DEF RecordScript
  <2>5. OnItsWay'
    BY <1>7, <2>4 DEF RecordScript, GotoStep
  <2> QED
    BY <2>2, <2>5
<1>8. ASSUME NEW m \in Migrators, FailMigrate(m) \/ ReturnMigrate(m)
      PROVE  ScriptsInOrder' /\ OnItsWay'
  BY <1>8 DEF FailMigrate, ReturnMigrate, GotoStep
<1>9. ASSUME NEW S \in SUBSET Migrators, KillMigrators(S) PROVE ScriptsInOrder' /\ OnItsWay'
  BY <1>9 DEF KillMigrators
<1>10. CASE UNCHANGED migrationVars
  BY <1>10 DEF migrationVars
<1> QED
  BY <1>1, <1>2, <1>3, <1>4, <1>5, <1>6, <1>7, <1>8, <1>9, <1>10
  DEF MigrationsNext, MigrateStep

(* A script that is not recorded has no later one that is.                 *)
LEMMA RecordedAreEarlier ==
    ASSUME ScriptsInOrder, MigrationsTypeOK, NEW s \in Scripts \ recorded
    PROVE  recorded \subseteq 1 .. s - 1
<1> SUFFICES ASSUME NEW t \in recorded PROVE t \in 1 .. s - 1
  OBVIOUS
<1>1. t \in Scripts /\ 1 .. t - 1 \subseteq recorded
  BY DEF ScriptsInOrder, MigrationsTypeOK
<1> QED
  BY <1>1, MigrationsAssumption DEF Scripts

(* Somebody stays in front: whoever fails does so because of another that  *)
(* is at least as far.                                                     *)
LEMMA MigrationsFront ==
    MigrationsInv /\ [MigrationsNext]_migrationVars => SomeoneInFront'
<1> SUFFICES ASSUME MigrationsInv, [MigrationsNext]_migrationVars, kills' = 0
             PROVE  SomeoneInFront'
  BY DEF SomeoneInFront
<1> USE MigrationsAssumption DEF MigrationsInv, MigrationsTypeOK
<1>a. kills = 0 /\ ~ \E S \in SUBSET Migrators : KillMigrators(S)
  <2>1. ASSUME NEW S \in SUBSET Migrators, KillMigrators(S) PROVE FALSE
    BY <2>1 DEF KillMigrators
  <2>2. ASSUME NEW m \in Migrators, StartMigrate(m) \/ MigrateStep(m)
        PROVE  kills' = kills
    BY <2>2 DEF StartMigrate, MigrateStep, CreateTracking, ReadRecorded, SkipScript,
                BeginScript, ExecuteScript, RecordScript, FailMigrate, ReturnMigrate
  <2>3. CASE UNCHANGED migrationVars
    BY <2>3, <2>1 DEF migrationVars
  <2> QED
    BY <2>1, <2>2, <2>3 DEF MigrationsNext
<1> DEFINE Killed     == \A m \in Migrators : mstep[m] # "killed"
           ToRecord   == \A s \in executed \ recorded :
                            \E m \in Migrators : mstep[m] = "record" /\ at[m] = s
           Front      == \A m \in Migrators :
                            mstep[m] \in PastCreate \/ (mstep[m] = "create" /\ overtaken[m])
                                => \E n \in Migrators : InFront(n)
           Overtaken  == \A m \in Migrators :
                            mstep[m] = "execute" /\ overtaken[m] => at[m] \in executed
<1>b. Killed /\ ToRecord /\ Front /\ Overtaken
  BY <1>a DEF SomeoneInFront
<1> SUFFICES Killed' /\ ToRecord' /\ Front' /\ Overtaken'
  BY DEF SomeoneInFront
<1>1. ASSUME NEW m \in Migrators, StartMigrate(m)
      PROVE  Killed' /\ ToRecord' /\ Front' /\ Overtaken'
  <2> USE DEF StartMigrate, GotoStep
  <2>1. Killed' /\ ToRecord' /\ Overtaken'
    BY <1>1, <1>b
  <2>2. \A n \in Migrators : InFront(n) => InFront(n)'
    BY <1>1 DEF InFront
  <2> QED
    BY <1>1, <1>b, <2>1, <2>2 DEF PastCreate
<1>2. ASSUME NEW m \in Migrators, CreateTracking(m)
      PROVE  Killed' /\ ToRecord' /\ Front' /\ Overtaken'
  BY <1>2, <1>b DEF CreateTracking, GotoStep, Overtake, InFront
<1>3. ASSUME NEW m \in Migrators, ReadRecorded(m)
      PROVE  Killed' /\ ToRecord' /\ Front' /\ Overtaken'
  BY <1>3, <1>b DEF ReadRecorded, GotoStep, InFront
<1>4. ASSUME NEW m \in Migrators, SkipScript(m)
      PROVE  Killed' /\ ToRecord' /\ Front' /\ Overtaken'
  <2> USE DEF SkipScript
  <2>1. Killed' /\ ToRecord' /\ Overtaken'
    BY <1>4, <1>b
  <2>2. \A n \in Migrators : InFront(n) => InFront(n)'
    BY <1>4 DEF InFront, Scripts
  <2> QED
    BY <1>4, <1>b, <2>1, <2>2 DEF PastCreate
<1>5. ASSUME NEW m \in Migrators, BeginScript(m)
      PROVE  Killed' /\ ToRecord' /\ Front' /\ Overtaken'
  <2> USE DEF BeginScript, GotoStep
  <2>1. Killed' /\ ToRecord' /\ Overtaken'
    BY <1>5, <1>b
  <2>2. \A n \in Migrators : InFront(n) => InFront(n)'
    BY <1>5 DEF InFront
  <2> QED
    BY <1>5, <1>b, <2>1, <2>2 DEF PastCreate
<1>6. ASSUME NEW m \in Migrators, ExecuteScript(m)
      PROVE  Killed' /\ ToRecord' /\ Front' /\ Overtaken'
  <2> USE DEF ExecuteScript, GotoStep, Overtake
  <2>1. Killed' /\ ToRecord' /\ Overtaken'
    BY <1>6, <1>b
  <2>2. \A n \in Migrators : InFront(n) => InFront(n)'
    BY <1>6 DEF InFront
  <2> QED
    BY <1>6, <1>b, <2>1, <2>2 DEF PastCreate
<1>7. ASSUME NEW m \in Migrators, RecordScript(m)
      PROVE  Killed' /\ ToRecord' /\ Front' /\ Overtaken'
  <2> USE DEF RecordScript, GotoStep
  <2>1. Killed' /\ ToRecord' /\ Overtaken'
    BY <1>7, <1>b
  <2>2. at[m] \in Scripts \ recorded
    BY <1>7
  <2>3. recorded \subseteq 1 .. at[m] - 1
    BY <2>2, RecordedAreEarlier
  <2>4. recorded' \subseteq 1 .. at'[m] - 1
    <3>1. at[m] \in 1 .. NScripts /\ at'[m] = at[m] + 1
      BY <1>7, <2>2 DEF Scripts
    <3>2. 1 .. at'[m] - 1 = (1 .. at[m] - 1) \cup {at[m]}
      BY <3>1
    <3> QED
      BY <1>7, <2>3, <3>2
  <2>5. InFront(m)'
    BY <1>7, <2>4 DEF InFront
  <2> QED
    BY <2>1, <2>5
<1>8. ASSUME NEW m \in Migrators, FailMigrate(m)
      PROVE  Killed' /\ ToRecord' /\ Front' /\ Overtaken'
  <2> USE DEF FailMigrate, GotoStep
  <2>1. Killed' /\ ToRecord' /\ Overtaken'
    BY <1>8, <1>b DEF Raises
  <2>2. PICK k \in Migrators : InFront(k)
    BY <1>8, <1>b DEF Raises, PastCreate
  <2>3. \E n \in Migrators \ {m} : InFront(n)
    <3>1. CASE k # m
      BY <3>1, <2>2
    <3>2. CASE k = m
      <4>1. mstep[m] \in {"execute", "record"} /\ at[m] \in Scripts
        BY <1>8, <2>2, <3>2 DEF Raises, InFront
      <4>2. at[m] \notin recorded
        BY <2>2, <3>2, <4>1 DEF InFront, OnItsWay, Scripts
      <4>3. mstep[m] = "execute" /\ at[m] \in executed
        BY <1>8, <1>b, <4>1, <4>2 DEF Raises
      <4>4. PICK n \in Migrators : mstep[n] = "record" /\ at[n] = at[m]
        BY <1>b, <4>2, <4>3
      <4>5. recorded \subseteq 1 .. at[n] - 1
        BY <4>1, <4>2, <4>4, RecordedAreEarlier
      <4> QED
        BY <4>3, <4>4, <4>5 DEF InFront
    <3> QED
      BY <3>1, <3>2
  <2>4. \E n \in Migrators : InFront(n)'
    BY <1>8, <2>3 DEF InFront
  <2> QED
    BY <2>1, <2>4
<1>9. ASSUME NEW m \in Migrators, ReturnMigrate(m)
      PROVE  Killed' /\ ToRecord' /\ Front' /\ Overtaken'
  <2> USE DEF ReturnMigrate, GotoStep
  <2>1. Killed' /\ ToRecord' /\ Overtaken'
    BY <1>9, <1>b
  <2>2. \A n \in Migrators : InFront(n) => InFront(n)'
    BY <1>9 DEF InFront
  <2> QED
    BY <1>9, <1>b, <2>1, <2>2 DEF PastCreate
<1>10. CASE UNCHANGED migrationVars
  BY <1>10, <1>b DEF migrationVars, InFront
<1> QED
  BY <1>a, <1>1, <1>2, <1>3, <1>4, <1>5, <1>6, <1>7, <1>8, <1>9, <1>10
  DEF MigrationsNext, MigrateStep

LEMMA MigrationsNextInv ==
    MigrationsInv /\ [MigrationsNext]_migrationVars => MigrationsInv'
BY MigrationsType, MigrationsOrder, MigrationsFront DEF MigrationsInv

(***************************************************************************)
(* Bringing the system up migrates in no other way.                        *)
(***************************************************************************)
LEMMA BringUpMigrates ==
    [BringUpNext]_bringUpVars => [MigrationsNext]_migrationVars
<1>1. ASSUME NEW w \in Services, ServiceRuns(w) PROVE UNCHANGED migrationVars
  BY <1>1 DEF ServiceRuns, ContainerStarts, WorkerClaims, ContainerRestarts
<1>2. ASSUME NEW m \in Migrators, MigrateStarts(m) \/ MigrateRuns(m) \/ MigrateDies(m)
      PROVE  MigrationsNext
  BY <1>2 DEF MigrateStarts, MigrateRuns, MigrateDies, MigrationsNext
<1>3. ASSUME PostgresStops PROVE MigrationsNext
  BY <1>3 DEF PostgresStops, MigrationsNext
<1>4. ASSUME PostgresStarts PROVE UNCHANGED migrationVars
  BY <1>4 DEF PostgresStarts
<1>5. ASSUME UNCHANGED bringUpVars PROVE UNCHANGED migrationVars
  BY <1>5 DEF bringUpVars
<1> QED
  BY <1>1, <1>2, <1>3, <1>4, <1>5 DEF BringUpNext

LEMMA MigrationsAlways == BringUpSpec => []MigrationsInv
<1>1. BringUpInit => MigrationsInv
  BY MigrationsInitInv DEF BringUpInit
<1>2. MigrationsInv /\ [BringUpNext]_bringUpVars => MigrationsInv'
  BY MigrationsNextInv, BringUpMigrates
<1> QED
  BY <1>1, <1>2, PTL DEF BringUpSpec

(* The schema and its record: what is recorded has been executed, and a    *)
(* script is executed only when all earlier ones are recorded.             *)
THEOREM MigrationsKeepOrder == BringUpSpec => []ScriptsInOrder
<1>1. MigrationsInv => ScriptsInOrder
  BY DEF MigrationsInv
<1> QED
  BY <1>1, MigrationsAlways, PTL

(* A migrate that returns has left nothing to apply.                       *)
THEOREM ReturnedMigrateIsComplete == BringUpSpec => []ReturnedIsComplete
<1>1. MigrationsInv => ReturnedIsComplete
  <2> SUFFICES ASSUME MigrationsInv, NEW m \in Migrators, mstep[m] = "returned"
               PROVE  recorded = Scripts
    BY DEF ReturnedIsComplete
  <2>1. at[m] \in 1 .. NScripts + 1 /\ at[m] > NScripts /\ recorded \subseteq Scripts
    BY DEF MigrationsInv, MigrationsTypeOK, OnItsWay
  <2>2. 1 .. at[m] - 1 \subseteq recorded
    BY DEF MigrationsInv, OnItsWay
  <2>3. at[m] = NScripts + 1 /\ at[m] - 1 = NScripts
    BY <2>1, MigrationsAssumption
  <2> QED
    BY <2>1, <2>2, <2>3 DEF Scripts
<1> QED
  BY <1>1, MigrationsAlways, PTL

(* However many processes migrate at once, unless one dies they do not all *)
(* fail.                                                                   *)
THEOREM OneMigrateGetsThrough == BringUpSpec => []SomeoneGetsThrough
<1>1. MigrationsInv => SomeoneGetsThrough
  <2> SUFFICES ASSUME MigrationsInv, kills = 0, AllEnded
               PROVE  \E m \in Migrators : mstep[m] = "returned"
    BY DEF SomeoneGetsThrough
  <2>1. PICK m \in Migrators : mstep[m] # "idle"
    BY DEF AllEnded
  <2>2. mstep[m] \in {"returned", "failed"}
    BY <2>1 DEF MigrationsInv, MigrationsTypeOK, MigrateSteps, AllEnded, SomeoneInFront
  <2>3. PICK n \in Migrators : InFront(n)
    BY <2>2 DEF MigrationsInv, SomeoneInFront, PastCreate
  <2>4. mstep[n] = "returned"
    BY <2>3 DEF InFront, AllEnded, Migrating
  <2> QED
    BY <2>4
<1> QED
  BY <1>1, MigrationsAlways, PTL
=============================================================================
