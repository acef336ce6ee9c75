-------------------------- MODULE MigrationsProofs --------------------------
(***************************************************************************)
(* Proofs about Migrations, for any number of processes and crashes.       *)
(***************************************************************************)
EXTENDS Migrations, TLAPS

\* What a process has behind it is in the schema: the files up to the
\* user_version it read, and while it migrates all it has passed.
Passed(p) ==
  /\ \A s \in Statements : s[1] <= ver[p] => s \in applied
  /\ pc[p] \in {"files", "exec"} => \A s \in Statements : Before(s, at[p]) => s \in applied

MigrationInv ==
  /\ TypeOK /\ VersionHonest /\ OpenMeansMigrated /\ AppliedInOrder
  /\ \A p \in Processes : Passed(p)
  /\ \A p \in Processes : pc[p] = "files" => at[p][2] = 1

LEMMA Shape ==
  /\ Len(Files) = 3 /\ DOMAIN Files = 1..3
  /\ \A f \in 1..3 : Len(Files[f]) = 2
  /\ Statements = (1..3) \X (1..2)
<1>1. Len(Files) = 3 /\ DOMAIN Files = 1..3
  BY DEF Files
<1>2. Files[1] = InitFile /\ Files[2] = Tier1File /\ Files[3] = Tier2File
  BY DEF Files
<1>3. Len(InitFile) = 2 /\ Len(Tier1File) = 2 /\ Len(Tier2File) = 2
  BY DEF InitFile, Tier1File, Tier2File
<1>4. \A f \in 1..3 : Len(Files[f]) = 2
  BY <1>2, <1>3
<1>5. Statements = (1..3) \X (1..2)
  BY <1>1 DEF Statements
<1> QED
  BY <1>1, <1>4, <1>5

LEMMA NextStatement ==
  ASSUME NEW p \in Processes, at[p] \in (1..4) \X (1..3)
  PROVE  [at EXCEPT ![p][2] = @ + 1] = [at EXCEPT ![p] = <<at[p][1], at[p][2] + 1>>]
<1>1. at[p] = <<at[p][1], at[p][2]>>
  OBVIOUS
<1>2. [at[p] EXCEPT ![2] = @ + 1] = <<at[p][1], at[p][2] + 1>>
  BY <1>1
<1> QED
  BY <1>2

LEMMA InitInv == Init => MigrationInv
<1> SUFFICES ASSUME Init PROVE MigrationInv
  OBVIOUS
<1>1. TypeOK
  BY Shape DEF Init, TypeOK
<1>2. VersionHonest /\ AppliedInOrder /\ \A p \in Processes : Passed(p)
  BY Shape DEF Init, VersionHonest, AppliedInOrder, Passed
<1> QED
  BY <1>1, <1>2 DEF Init, MigrationInv, OpenMeansMigrated

LEMMA ExecutesStatement ==
  ASSUME TypeOK, NEW p \in Processes, Exec(p)
  PROVE  at[p] \in Statements
<1>1. at[p] \in (1..4) \X (1..3) /\ build[p] \in 1..3
  BY Shape DEF TypeOK
<1>2. at[p][1] \in 1..3
  BY <1>1 DEF Exec, TypeOK
<1>3. Len(Files[at[p][1]]) = 2
  BY <1>2, Shape
<1>4. at[p][2] \in 1..2
  BY <1>1, <1>3 DEF Exec
<1> QED
  BY <1>1, <1>2, <1>4, Shape

LEMMA TypeStep == MigrationInv /\ [Next]_vars => TypeOK'
<1> SUFFICES ASSUME MigrationInv, [Next]_vars PROVE TypeOK'
  OBVIOUS
<1> USE Shape DEF MigrationInv, TypeOK, dbVars, procVars
<1>1. CASE UNCHANGED vars
  BY <1>1 DEF vars
<1>2. ASSUME NEW p \in Processes, NEW b \in DOMAIN Files, Start(p, b) PROVE TypeOK'
  BY <1>2 DEF Start, Goto
<1>3. ASSUME NEW p \in Processes, NextFile(p) PROVE TypeOK'
  BY <1>3 DEF NextFile, Goto, Finished, Skip
<1>4. ASSUME NEW p \in Processes, Exec(p) PROVE TypeOK'
  <2>1. at[p] \in (1..3) \X (1..2)
    BY <1>4, ExecutesStatement
  <2>2. CASE Succeeds(at[p])
    <3>1. at' = [at EXCEPT ![p] = <<at[p][1], at[p][2] + 1>>]
      BY <1>4, <2>1, <2>2, NextStatement DEF Exec
    <3>2. at' \in [Processes -> (1..4) \X (1..3)]
      BY <2>1, <3>1
    <3>3. \A q \in Processes : at'[q][1] = at[q][1]
      BY <2>1, <3>1
    <3> QED
      BY <1>4, <2>1, <2>2, <3>2, <3>3 DEF Exec
  <2>3. CASE ~Succeeds(at[p])
    BY <1>4, <2>3 DEF Exec, Goto
  <2> QED
    BY <2>2, <2>3
<1>5. ASSUME NEW p \in Processes, SetVersion(p) PROVE TypeOK'
  <2>1. at[p][1] \in 1..3
    BY <1>5 DEF SetVersion
  <2> QED
    BY <1>5, <2>1 DEF SetVersion, Stamp, Goto
<1>6. ASSUME NEW p \in Processes, Fail(p) \/ Exit(p) \/ Crash(p) PROVE TypeOK'
  BY <1>6 DEF Fail, Exit, Crash, Goto
<1> QED
  BY <1>1, <1>2, <1>3, <1>4, <1>5, <1>6 DEF Next, Migrate

\* The invariant survives any step after which the schema has lost nothing and is
\* in order, and each process is where it was, or where it may be.
LEMMA Frame ==
  ASSUME MigrationInv, TypeOK', NEW p \in Processes,
         applied \subseteq applied', AppliedInOrder', VersionHonest',
         \A q \in Processes \ {p} :
           UNCHANGED <<pc[q], build[q], ver[q], at[q]>>,
         Passed(p)',
         pc'[p] = "open" => \A s \in Statements : s[1] <= build'[p] => s \in applied',
         pc'[p] = "files" => at'[p][2] = 1
  PROVE  MigrationInv'
<1>1. \A q \in Processes : Passed(q)'
  BY DEF MigrationInv, Passed
<1>2. OpenMeansMigrated'
  BY DEF MigrationInv, OpenMeansMigrated
<1>3. \A q \in Processes : pc'[q] = "files" => at'[q][2] = 1
  BY DEF MigrationInv
<1> QED
  BY <1>1, <1>2, <1>3 DEF MigrationInv

LEMMA MigrationStep == MigrationInv /\ [Next]_vars => MigrationInv'
<1> SUFFICES ASSUME MigrationInv, [Next]_vars PROVE MigrationInv'
  OBVIOUS
<1>1. TypeOK'
  BY TypeStep
<1> USE Shape DEF dbVars, procVars
<1>2. CASE UNCHANGED vars
  BY <1>2, <1>1 DEF vars, MigrationInv, VersionHonest, OpenMeansMigrated, AppliedInOrder, Passed
<1>3. ASSUME NEW p \in Processes, NEW b \in DOMAIN Files, Start(p, b) PROVE MigrationInv'
  <2>1. Passed(p)'
    <3>1. ver'[p] = version /\ at'[p] = <<1, 1>> /\ applied' = applied
      BY <1>3 DEF Start, MigrationInv, TypeOK
    <3>2. \A s \in Statements : ~Before(s, <<1, 1>>)
      BY DEF Before
    <3> QED
      BY <3>1, <3>2 DEF Passed, MigrationInv, VersionHonest
  <2> QED
    BY <1>1, <1>3, <2>1, Frame
       DEF Start, Goto, MigrationInv, TypeOK, VersionHonest, AppliedInOrder
<1>4. ASSUME NEW p \in Processes, NextFile(p) PROVE MigrationInv'
  <2>1. Passed(p) /\ at[p][2] = 1 /\ pc[p] = "files" /\ UNCHANGED <<version, applied>>
    BY <1>4 DEF NextFile, MigrationInv
  <2>2. at[p] \in (1..4) \X (1..3) /\ ver[p] \in 0..3 /\ build[p] \in 1..3
    BY DEF MigrationInv, TypeOK
  <2>3. CASE Finished(p)
    <3>1. \A s \in Statements : s[1] <= build[p] => Before(s, at[p])
      BY <2>2, <2>3 DEF Finished, Before
    <3>2. \A s \in Statements : s[1] <= build[p] => s \in applied
      BY <2>1, <3>1 DEF Passed
    <3> QED
      BY <1>1, <1>4, <2>1, <2>3, <3>2, Frame
         DEF NextFile, Goto, MigrationInv, TypeOK, Passed, VersionHonest, AppliedInOrder
  <2>4. CASE ~Finished(p) /\ Skip(p)
    <3>1. at'[p] = <<at[p][1] + 1, 1>>
      BY <1>4, <2>4 DEF NextFile, MigrationInv, TypeOK
    <3>2. \A s \in Statements : Before(s, at'[p]) => s[1] <= ver[p]
      BY <2>2, <2>4, <3>1 DEF Before, Skip
    <3>3. Passed(p)'
      BY <1>4, <2>1, <3>2 DEF NextFile, Passed
    <3> QED
      BY <1>1, <1>4, <2>1, <2>4, <3>1, <3>3, Frame
         DEF NextFile, Goto, MigrationInv, TypeOK, VersionHonest, AppliedInOrder
  <2>5. CASE ~Finished(p) /\ ~Skip(p)
    BY <1>1, <1>4, <2>1, <2>5, Frame
       DEF NextFile, Goto, MigrationInv, TypeOK, Passed, VersionHonest, AppliedInOrder
  <2> QED
    BY <2>3, <2>4, <2>5
<1>5. ASSUME NEW p \in Processes, NEW l \in {"down", "failed"}, Goto(p, l),
             UNCHANGED <<dbVars, build, ver, at>>
      PROVE  MigrationInv'
  <2>1. pc'[p] = l /\ l # "open" /\ l # "files" /\ l # "exec"
    BY <1>5 DEF Goto, MigrationInv, TypeOK
  <2>2. \A q \in Processes \ {p} : pc'[q] = pc[q]
    BY <1>5 DEF Goto, MigrationInv, TypeOK
  <2>3. Passed(p)'
    BY <1>5, <2>1 DEF MigrationInv, Passed
  <2>4. VersionHonest' /\ AppliedInOrder'
    BY <1>5 DEF MigrationInv, VersionHonest, AppliedInOrder
  <2> QED
    BY <1>1, <1>5, <2>1, <2>2, <2>3, <2>4, Frame
<1>6. ASSUME NEW p \in Processes, Exec(p) PROVE MigrationInv'
  <2>1. at[p] \in Statements /\ pc[p] = "exec" /\ Passed(p)
    BY <1>6, ExecutesStatement DEF Exec, MigrationInv
  <2>2. CASE Succeeds(at[p])
    <3> DEFINE s0 == at[p]
    <3>1. /\ applied' = applied \cup {s0} /\ version' = version
          /\ at' = [at EXCEPT ![p] = <<s0[1], s0[2] + 1>>]
          /\ UNCHANGED <<pc, build, ver>>
      BY <1>6, <2>1, <2>2, NextStatement DEF Exec, MigrationInv, TypeOK
    <3>2. \A s \in Statements : Before(s, <<s0[1], s0[2] + 1>>) => s = s0 \/ Before(s, s0)
      BY <2>1 DEF Before
    <3>3. at'[p] = <<s0[1], s0[2] + 1>>
      BY <3>1 DEF MigrationInv, TypeOK
    <3>4. \A s \in Statements : Before(s, s0) => s \in applied
      BY <2>1 DEF Passed
    <3>5. Passed(p)'
      BY <2>1, <3>1, <3>2, <3>3, <3>4 DEF Passed
    <3>6. AppliedInOrder'
      BY <3>1, <3>4 DEF MigrationInv, AppliedInOrder
    <3>7. VersionHonest'
      BY <3>1 DEF MigrationInv, VersionHonest
    <3> QED
      BY <1>1, <2>1, <3>1, <3>5, <3>6, <3>7, Frame DEF MigrationInv, TypeOK
  <2>3. CASE ~Succeeds(at[p])
    BY <1>1, <1>5, <1>6, <2>1, <2>3 DEF Exec
  <2> QED
    BY <2>2, <2>3
<1>7. ASSUME NEW p \in Processes, SetVersion(p) PROVE MigrationInv'
  <2>1. at[p][1] \in 1..3 /\ at[p][2] = 3 /\ pc[p] = "exec" /\ Passed(p)
    BY <1>7 DEF SetVersion, MigrationInv, TypeOK
  <2>2. \A s \in Statements : s[1] <= at[p][1] => s \in applied
    BY <2>1 DEF Passed, Before
  <2>3. /\ version' = at[p][1] /\ at'[p] = <<at[p][1] + 1, 1>>
        /\ UNCHANGED <<applied, build, ver>>
    BY <1>7 DEF SetVersion, Stamp, MigrationInv, TypeOK
  <2>4. \A s \in Statements : Before(s, at'[p]) => s[1] <= at[p][1]
    BY <2>1, <2>3 DEF Before
  <2>5. Passed(p)'
    BY <2>1, <2>2, <2>3, <2>4 DEF Passed
  <2>6. VersionHonest' /\ AppliedInOrder'
    BY <2>2, <2>3 DEF MigrationInv, VersionHonest, AppliedInOrder
  <2> QED
    BY <1>1, <1>7, <2>3, <2>5, <2>6, Frame DEF SetVersion, Goto, MigrationInv, TypeOK
<1>8. ASSUME NEW p \in Processes, Fail(p) \/ Exit(p) \/ Crash(p) PROVE MigrationInv'
  BY <1>1, <1>5, <1>8 DEF Fail, Exit, Crash
<1> QED
  BY <1>2, <1>3, <1>4, <1>6, <1>7, <1>8 DEF Next, Migrate

LEMMA Inductive == Spec => []MigrationInv
  BY InitInv, MigrationStep, PTL DEF Spec

\* No process runs a file its build lacks, or a statement its file lacks
\* (store.go:60-80).
THEOREM MigrationsTyped == Spec => []TypeOK
<1>1. MigrationInv => TypeOK
  BY DEF MigrationInv
<1> QED
  BY Inductive, <1>1, PTL

\* user_version (store.go:91) claims no file that has not run to its end, however
\* many processes of whatever builds start, fail and die.
THEOREM VersionClaimsNothing == Spec => []VersionHonest
<1>1. MigrationInv => VersionHonest
  BY DEF MigrationInv
<1> QED
  BY Inductive, <1>1, PTL

\* Open (store.go:21-47) returns without an error only on a schema that has every
\* statement of its build.
THEOREM MigratedWhenOpen == Spec => []OpenMeansMigrated
<1>1. MigrationInv => OpenMeansMigrated
  BY DEF MigrationInv
<1> QED
  BY Inductive, <1>1, PTL

\* The schema is always made by a prefix of the statements (store.go:75-90).
THEOREM SchemaIsPrefix == Spec => []AppliedInOrder
<1>1. MigrationInv => AppliedInOrder
  BY DEF MigrationInv
<1> QED
  BY Inductive, <1>1, PTL
=============================================================================
