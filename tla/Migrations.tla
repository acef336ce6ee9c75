----------------------------- MODULE Migrations -----------------------------
(***************************************************************************)
(* The start of a process on the database (internal/store/store.go): Open  *)
(* runs the embedded migration files whose ordinal exceeds PRAGMA          *)
(* user_version, and raises it after each.  A file is one Exec of several  *)
(* statements, each of which commits by itself, and the PRAGMA is another  *)
(* Exec.  A process may die between any two of them; processes of other    *)
(* builds, which embed fewer files or more, may start on the same          *)
(* database, one after the other or side by side.                          *)
(*                                                                         *)
(* Bounds: MaxCrashes crashes.                                             *)
(***************************************************************************)
EXTENDS Naturals, Sequences

CONSTANTS
  Processes,
  MaxCrashes

\* The files, by the kind of their statements and in their order.  CREATE ...
\* IF NOT EXISTS may be repeated, ALTER TABLE ... ADD COLUMN may not.  Two
\* statements stand for several of a kind in a row.
InitFile  == <<"create", "create">>
Tier1File == <<"alter", "alter">>
Tier2File == <<"alter", "create">>

Files == <<InitFile, Tier1File, Tier2File>>

Statements == {<<f, i>> : f \in DOMAIN Files, i \in 1..2}

Before(s, t) == s[1] < t[1] \/ (s[1] = t[1] /\ s[2] < t[2])

VARIABLES
  version,        \* PRAGMA user_version
  applied,        \* statements whose effect is in the schema
  pc,             \* of each process
  build,          \* the number of files it embeds
  ver,            \* the user_version it has read
  at,             \* the file it is at, and the statement of the file
  crashes

dbVars   == <<version, applied>>
procVars == <<pc, build, ver, at>>
vars == <<dbVars, procVars, crashes>>

Init ==
  /\ version = 0
  /\ applied = {}
  /\ pc = [p \in Processes |-> "down"]
  /\ build = [p \in Processes |-> Len(Files)]
  /\ ver = [p \in Processes |-> 0]
  /\ at = [p \in Processes |-> <<1, 1>>]
  /\ crashes = 0

Goto(p, l) == pc' = [pc EXCEPT ![p] = l]

-----------------------------------------------------------------------------
\* Open; SELECT user_version.
Start(p, b) ==
  /\ pc[p] = "down"
  /\ build' = [build EXCEPT ![p] = b]
  /\ ver' = [ver EXCEPT ![p] = version]
  /\ at' = [at EXCEPT ![p] = <<1, 1>>]
  /\ Goto(p, "files")
  /\ UNCHANGED <<dbVars, crashes>>

\* The loop over the files, sorted by name.
SkipOneMore(p) == at[p][1] <= ver[p] + 1
Skip(p) == at[p][1] <= ver[p]

FinishedEarly(p) == at[p][1] >= build[p]
FinishedLate(p) == at[p][1] > Len(Files)
Finished(p) == at[p][1] > build[p]

NextFile(p) ==
  /\ pc[p] = "files"
  /\ IF Finished(p)
     THEN Goto(p, "open") /\ UNCHANGED at
     ELSE IF Skip(p)
     THEN at' = [at EXCEPT ![p] = <<at[p][1] + 1, 1>>] /\ UNCHANGED pc
     ELSE Goto(p, "exec") /\ UNCHANGED at
  /\ UNCHANGED <<dbVars, build, ver, crashes>>

Succeeds(s) == Files[s[1]][s[2]] = "create" \/ s \notin applied

\* One statement of the file; at an error migrate returns and Open closes the
\* database.
Exec(p) ==
  LET s == at[p] IN
  /\ pc[p] = "exec"
  /\ s[2] <= Len(Files[s[1]])
  /\ IF Succeeds(s)
     THEN /\ applied' = applied \cup {s}
          /\ at' = [at EXCEPT ![p][2] = @ + 1]
          /\ UNCHANGED pc
     ELSE Goto(p, "failed") /\ UNCHANGED <<applied, at>>
  /\ UNCHANGED <<version, build, ver, crashes>>

\* PRAGMA user_version = ordinal of the file.
StampLatest(p) == version' = build[p]
Stamp(p) == version' = at[p][1]

SetVersion(p) ==
  /\ pc[p] = "exec"
  /\ at[p][2] > Len(Files[at[p][1]])
  /\ Stamp(p)
  /\ at' = [at EXCEPT ![p] = <<at[p][1] + 1, 1>>]
  /\ Goto(p, "files")
  /\ UNCHANGED <<applied, build, ver, crashes>>

\* Any of these statements fails for another reason: disk full, busy timeout.
Fail(p) ==
  /\ pc[p] \in {"files", "exec"}
  /\ Goto(p, "failed")
  /\ UNCHANGED <<dbVars, build, ver, at, crashes>>

\* The process ends, by itself ...
Exit(p) ==
  /\ pc[p] \in {"open", "failed"}
  /\ Goto(p, "down")
  /\ UNCHANGED <<dbVars, build, ver, at, crashes>>

\* ... or in the middle of its migration.
Crash(p) ==
  /\ pc[p] \in {"files", "exec"}
  /\ crashes < MaxCrashes
  /\ crashes' = crashes + 1
  /\ Goto(p, "down")
  /\ UNCHANGED <<dbVars, build, ver, at>>

Migrate(p) == NextFile(p) \/ Exec(p) \/ SetVersion(p)

Next == \E p \in Processes :
  \/ \E b \in DOMAIN Files : Start(p, b)
  \/ Migrate(p)
  \/ Fail(p)
  \/ Exit(p)
  \/ Crash(p)

Spec == Init /\ [][Next]_vars

-----------------------------------------------------------------------------
(* Properties.                                                             *)

\* Every variable has its type, and no process runs a file its build lacks.
TypeOK ==
  /\ version \in 0..Len(Files)
  /\ applied \subseteq Statements
  /\ pc \in [Processes -> {"down", "files", "exec", "open", "failed"}]
  /\ build \in [Processes -> DOMAIN Files]
  /\ ver \in [Processes -> 0..Len(Files)]
  /\ at \in [Processes -> (1..Len(Files) + 1) \X (1..3)]
  /\ \A p \in Processes : pc[p] = "exec" => at[p][1] <= build[p]

\* user_version never claims a file that has not run to its end, whatever
\* crashes, failures and other builds came in between.
VersionHonest ==
  \A s \in Statements : s[1] <= version => s \in applied

\* A process serves only on a schema that has everything its build knows of,
\* even if another process has migrated at the same time.
OpenMeansMigrated ==
  \A p \in Processes : pc[p] = "open" =>
    \A s \in Statements : s[1] <= build[p] => s \in applied

\* The schema is always what some prefix of the statements makes: no statement
\* takes effect before one it is written after.
AppliedInOrder ==
  \A s, t \in Statements : t \in applied /\ Before(s, t) => s \in applied
=============================================================================
