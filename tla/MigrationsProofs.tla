---------------------------- MODULE MigrationsProofs ----------------------------
(***************************************************************************)
(* Proofs about Migrations, for any number of commands, any releases, any  *)
(* rollback targets and any databases that a release has left.             *)
(*                                                                         *)
(* The first half is about schemas: what one statement does, what a course *)
(* of statements keeps and makes, what the statements of each version are, *)
(* which version each object is of (Entry, TableSince), and from these     *)
(* that a migration takes a schema that fits a version to one that fits    *)
(* the next (UpReady, BaseReady) or the one before (DownFits), without a   *)
(* statement that throws.  The second half is about databases: a run of    *)
(* migrations (Climbs, Descends), a whole upgrade and a whole rollback     *)
(* (UpgradeLeaves, RollbackLeaves), the inductive invariant (IInv: a       *)
(* release could have left the live database and every copy), and the      *)
(* properties that follow.                                                 *)
(***************************************************************************)
EXTENDS Migrations, SequenceTheorems, WellFoundedInduction, TLAPS

----------------------------------------------------------------------------
(* Counting up: what the recursive functions of the model compute *)

\* Counting up from 0 reaches every number up to n.
LEMMA UpTo ==
    ASSUME NEW n \in Nat, NEW T, 0 \in T, \A k \in 1 .. n : k - 1 \in T => k \in T
    PROVE  \A k \in 0 .. n : k \in T
<1> DEFINE Bad == {k \in 0 .. n : k \notin T}
           Less == OpToRel(<, Nat)
<1> SUFFICES ASSUME Bad # {} PROVE FALSE
  OBVIOUS
<1>1. PICK k \in Bad : \A y \in Bad : ~(<<y, k>> \in Less)
  <2>1. IsWellFoundedOn(Less, Nat)
    BY NatLessThanWellFounded DEF Less
  <2>2. Bad \subseteq Nat
    OBVIOUS
  <2> HIDE DEF Bad, Less
  <2> QED BY <2>1, <2>2, WFMin
<1>2. \A y \in Bad : ~(y < k)
  <2>1. Bad \subseteq Nat
    OBVIOUS
  <2> HIDE DEF Bad
  <2> QED BY <1>1, <2>1 DEF OpToRel
<1>3. k - 1 \in Bad /\ k - 1 < k
  OBVIOUS
<1> HIDE DEF Bad
<1> QED BY <1>2, <1>3

\* Counting up from m.
LEMMA UpFrom ==
    ASSUME NEW m \in Nat, NEW n \in Nat, m <= n, NEW T, m \in T,
           \A k \in (m + 1) .. n : k - 1 \in T => k \in T
    PROVE  \A k \in m .. n : k \in T
<1> DEFINE S == {k \in Nat : m + k \in T}
<1>1. \A k \in 0 .. (n - m) : k \in S
  <2>1. 0 \in S
    OBVIOUS
  <2>2. \A k \in 1 .. (n - m) : k - 1 \in S => k \in S
    <3> SUFFICES ASSUME NEW k \in 1 .. (n - m), k - 1 \in S PROVE k \in S
      OBVIOUS
    <3>1. m + k \in (m + 1) .. n /\ (m + k) - 1 = m + (k - 1)
      OBVIOUS
    <3> QED BY <3>1
  <2>3. n - m \in Nat
    OBVIOUS
  <2> HIDE DEF S
  <2> QED BY <2>1, <2>2, <2>3, UpTo
<1>2. ASSUME NEW k \in m .. n PROVE k \in T
  <2>1. k - m \in S
    BY <1>1
  <2>2. m + (k - m) = k
    OBVIOUS
  <2> QED BY <2>1, <2>2
<1> QED BY <1>2

\* The states of a schema in the course of some statements.
Course(A, s, stmts) ==
    /\ A[0] = s
    /\ \A k \in 1 .. Len(stmts) : A[k] = Exec(A[k - 1], stmts[k])

LEMMA ExecAllCourse ==
    ASSUME NEW s, NEW stmts, Len(stmts) \in Nat
    PROVE  \E A : Course(A, s, stmts) /\ ExecAll(s, stmts) = A[Len(stmts)]
<1> DEFINE N == Len(stmts)
           Steps(g, n) ==
               g = [i \in 0 .. n |-> IF i = 0 THEN s ELSE Exec(g[i - 1], stmts[i])]
           T == {n \in 0 .. N : \E g : Steps(g, n)}
<1>2. 0 \in T
  <2>1. Steps([i \in 0 .. 0 |-> s], 0)
    OBVIOUS
  <2>2. \E g : Steps(g, 0)
    BY <2>1
  <2> HIDE DEF Steps
  <2> QED BY <2>2
<1>3. ASSUME NEW k \in 1 .. N, k - 1 \in T PROVE k \in T
  <2>1. PICK g : Steps(g, k - 1)
    BY <1>3
  <2> DEFINE h == [i \in 0 .. k |-> IF i < k THEN g[i] ELSE Exec(g[k - 1], stmts[k])]
  <2>2. Steps(h, k)
    <3>1. ASSUME NEW i \in 0 .. k
          PROVE  h[i] = IF i = 0 THEN s ELSE Exec(h[i - 1], stmts[i])
      <4>1. CASE i < k
        BY <4>1, <2>1
      <4>2. CASE i = k
        BY <4>2
      <4> QED BY <4>1, <4>2
    <3> HIDE DEF h
    <3>2. h = [i \in 0 .. k |-> h[i]]
      BY DEF h
    <3> QED BY <3>1, <3>2
  <2> HIDE DEF Steps, h
  <2> QED BY <2>2
<1>4. N \in T
  <2>1. \A k \in 1 .. N : k - 1 \in T => k \in T
    BY <1>3
  <2> HIDE DEF T
  <2>2. \A k \in 0 .. N : k \in T
    BY <1>2, <2>1, UpTo
  <2> QED BY <2>2
<1> DEFINE A == CHOOSE g : Steps(g, N)
<1>5. ExecAll(s, stmts) = A[N]
  BY DEF ExecAll
<1>6. Steps(A, N)
  <2> HIDE DEF Steps
  <2> QED BY <1>4
<1> HIDE DEF A
<1>7. Course(A, s, stmts)
  <2> HIDE DEF Exec
  <2> QED BY <1>6 DEF Course
<1> HIDE DEF Steps
<1> QED BY <1>5, <1>7

----------------------------------------------------------------------------
(* One statement *)

IsSchema(s) ==
    /\ s = [tables |-> s.tables, columns |-> s.columns, indexes |-> s.indexes, failed |-> s.failed]
    /\ s.failed \in BOOLEAN

\* A schema of these parts.
Becomes(r, tables, columns, indexes, failed) ==
    /\ IsSchema(r) /\ r.failed = failed
    /\ r.tables = tables /\ r.columns = columns /\ r.indexes = indexes

Op == {"table", "drop table", "column", "index", "drop index"}

\* After a failure nothing changes.
LEMMA ExecFailed ==
    ASSUME NEW s, NEW stmt, s.failed
    PROVE  Exec(s, stmt) = s
BY DEF Exec

LEMMA ExecThrows ==
    ASSUME NEW s, NEW stmt, IsSchema(s), ~s.failed, Throws(s, stmt)
    PROVE  Becomes(Exec(s, stmt), s.tables, s.columns, s.indexes, TRUE)
BY DEF Exec, IsSchema, Becomes

LEMMA ExecTable ==
    ASSUME NEW s, NEW stmt, IsSchema(s), ~s.failed, stmt.op = "table"
    PROVE  /\ stmt.table \in s.tables => Exec(s, stmt) = s
           /\ stmt.table \notin s.tables =>
                 Becomes(Exec(s, stmt), s.tables \cup {stmt.table},
                      s.columns \cup Columns(stmt.table, stmt.columns),
                      s.indexes, FALSE)
BY DEF Exec, Throws, IsSchema, Becomes

LEMMA ExecDropTable ==
    ASSUME NEW s, NEW stmt, IsSchema(s), ~s.failed, stmt.op = "drop table"
    PROVE  Becomes(Exec(s, stmt), s.tables \ {stmt.table},
                      {e \in s.columns : e[1] # stmt.table},
                      {i \in s.indexes : i.table # stmt.table}, FALSE)
BY DEF Exec, Throws, IsSchema, Becomes

LEMMA ExecColumn ==
    ASSUME NEW s, NEW stmt, IsSchema(s), ~s.failed, stmt.op = "column"
    PROVE  /\ stmt.table \notin s.tables => Exec(s, stmt) = s
           /\ stmt.table \in s.tables =>
                 Becomes(Exec(s, stmt), s.tables,
                      s.columns \cup {<<stmt.table, stmt.column>>},
                      s.indexes, FALSE)
BY DEF Exec, Throws, IsSchema, Becomes

LEMMA ExecIndex ==
    ASSUME NEW s, NEW stmt, IsSchema(s), ~s.failed, ~Throws(s, stmt), stmt.op = "index"
    PROVE  /\ Indexed(s, stmt.index.name) => Exec(s, stmt) = s
           /\ ~Indexed(s, stmt.index.name) =>
                 Becomes(Exec(s, stmt), s.tables,
                      s.columns,
                      s.indexes \cup {stmt.index}, FALSE)
BY DEF Exec, IsSchema, Becomes

LEMMA ExecDropIndex ==
    ASSUME NEW s, NEW stmt, IsSchema(s), ~s.failed, stmt.op = "drop index"
    PROVE  Becomes(Exec(s, stmt), s.tables,
                      s.columns,
                      {i \in s.indexes : i.name # stmt.name}, FALSE)
BY DEF Exec, Throws, IsSchema, Becomes

\* Only a CREATE INDEX can throw.
LEMMA ThrowsOnlyIndex ==
    ASSUME NEW s, NEW stmt, Throws(s, stmt)
    PROVE  stmt.op = "index"
BY DEF Throws

LEMMA ExecIsSchema ==
    ASSUME NEW s, NEW stmt, IsSchema(s), stmt.op \in Op
    PROVE  /\ IsSchema(Exec(s, stmt))
           /\ Exec(s, stmt).failed <=> s.failed \/ Throws(s, stmt)
<1>1. CASE s.failed
  BY <1>1, ExecFailed
<1>2. CASE ~s.failed /\ Throws(s, stmt)
  <2>1. Becomes(Exec(s, stmt), s.tables, s.columns, s.indexes, TRUE)
    BY <1>2, ExecThrows
  <2> QED BY <1>2, <2>1 DEF Becomes
<1>3. CASE ~s.failed /\ ~Throws(s, stmt)
  <2>1. CASE stmt.op = "table"
    BY <1>3, <2>1, ExecTable DEF Becomes
  <2>2. CASE stmt.op = "drop table"
    BY <1>3, <2>2, ExecDropTable DEF Becomes
  <2>3. CASE stmt.op = "column"
    BY <1>3, <2>3, ExecColumn DEF Becomes
  <2>4. CASE stmt.op = "index"
    BY <1>3, <2>4, ExecIndex DEF Becomes
  <2>5. CASE stmt.op = "drop index"
    BY <1>3, <2>5, ExecDropIndex DEF Becomes
  <2> QED BY <2>1, <2>2, <2>3, <2>4, <2>5 DEF Op
<1> QED BY <1>1, <1>2, <1>3

\* A statement makes nothing but what it names.
Within(s, T, C, I) == s.tables \subseteq T /\ s.columns \subseteq C /\ s.indexes \subseteq I
Allowed(stmt, T, C, I) ==
    /\ stmt.op = "table" => stmt.table \in T /\ Columns(stmt.table, stmt.columns) \subseteq C
    /\ stmt.op = "column" => <<stmt.table, stmt.column>> \in C
    /\ stmt.op = "index" => stmt.index \in I
LEMMA ExecWithin ==
    ASSUME NEW s, NEW stmt, IsSchema(s), stmt.op \in Op,
           NEW T, NEW C, NEW I, Within(s, T, C, I), Allowed(stmt, T, C, I)
    PROVE  Within(Exec(s, stmt), T, C, I)
<1> DEFINE r == Exec(s, stmt)
           Goal == Within(r, T, C, I)
<1> HIDE DEF r
<1>1. ASSUME s.failed PROVE Goal
  BY <1>1, ExecFailed DEF r
<1>2. ASSUME ~s.failed, Throws(s, stmt) PROVE Goal
  <2>1. Becomes(r, s.tables, s.columns, s.indexes, TRUE)
    BY <1>2, ExecThrows DEF r
  <2> QED BY <1>2, <2>1 DEF Becomes, Within
<1>3. ASSUME ~s.failed, ~Throws(s, stmt) PROVE Goal
  <2>1. CASE stmt.op = "table"
    <3>1. /\ stmt.table \in s.tables => r = s
          /\ stmt.table \notin s.tables =>
                /\ r.tables = s.tables \cup {stmt.table}
                /\ r.columns = s.columns \cup Columns(stmt.table, stmt.columns)
                /\ r.indexes = s.indexes
      BY <1>3, <2>1, ExecTable DEF Becomes, r
    <3> QED BY <2>1, <3>1 DEF Within, Allowed
  <2>2. CASE stmt.op = "drop table"
    <3>1. /\ r.tables = s.tables \ {stmt.table}
          /\ r.columns = {e \in s.columns : e[1] # stmt.table}
          /\ r.indexes = {i \in s.indexes : i.table # stmt.table}
      BY <1>3, <2>2, ExecDropTable DEF Becomes, r
    <3> QED BY <2>2, <3>1 DEF Within
  <2>3. CASE stmt.op = "column"
    <3>1. /\ stmt.table \notin s.tables => r = s
          /\ stmt.table \in s.tables =>
                /\ r.tables = s.tables
                /\ r.columns = s.columns \cup {<<stmt.table, stmt.column>>}
                /\ r.indexes = s.indexes
      BY <1>3, <2>3, ExecColumn DEF Becomes, r
    <3> QED BY <2>3, <3>1 DEF Within, Allowed
  <2>4. CASE stmt.op = "index"
    <3>1. /\ Indexed(s, stmt.index.name) => r = s
          /\ ~Indexed(s, stmt.index.name) =>
                /\ r.tables = s.tables
                /\ r.columns = s.columns
                /\ r.indexes = s.indexes \cup {stmt.index}
      BY <1>3, <2>4, ExecIndex DEF Becomes, r
    <3> QED BY <2>4, <3>1 DEF Within, Allowed
  <2>5. CASE stmt.op = "drop index"
    <3>1. /\ r.tables = s.tables
          /\ r.columns = s.columns
          /\ r.indexes = {i \in s.indexes : i.name # stmt.name}
      BY <1>3, <2>5, ExecDropIndex DEF Becomes, r
    <3> QED BY <2>5, <3>1 DEF Within
  <2> QED BY <2>1, <2>2, <2>3, <2>4, <2>5 DEF Op
<1>4. Goal
  BY <1>1, <1>2, <1>3
<1> QED BY <1>4 DEF r

\* What a statement that does not drop it leaves alone.
LEMMA ExecKeeps ==
    ASSUME NEW s, NEW stmt, IsSchema(s), stmt.op \in Op
    PROVE  /\ \A t \in s.tables : ~(stmt.op = "drop table" /\ stmt.table = t)
                                     => t \in Exec(s, stmt).tables
           /\ \A c \in s.columns : ~(stmt.op = "drop table" /\ stmt.table = c[1])
                                     => c \in Exec(s, stmt).columns
           /\ \A i \in s.indexes : (/\ ~(stmt.op = "drop table" /\ stmt.table = i.table)
                                    /\ ~(stmt.op = "drop index" /\ stmt.name = i.name))
                                     => i \in Exec(s, stmt).indexes
<1> DEFINE r == Exec(s, stmt)
           Goal == /\ \A t \in s.tables : ~(stmt.op = "drop table" /\ stmt.table = t)
                                             => t \in r.tables
                   /\ \A c \in s.columns : ~(stmt.op = "drop table" /\ stmt.table = c[1])
                                             => c \in r.columns
                   /\ \A i \in s.indexes : (/\ ~(stmt.op = "drop table" /\ stmt.table = i.table)
                                            /\ ~(stmt.op = "drop index" /\ stmt.name = i.name))
                                             => i \in r.indexes
<1> HIDE DEF r
<1>1. ASSUME s.failed PROVE Goal
  BY <1>1, ExecFailed DEF r
<1>2. ASSUME ~s.failed, Throws(s, stmt) PROVE Goal
  <2>1. Becomes(r, s.tables, s.columns, s.indexes, TRUE)
    BY <1>2, ExecThrows DEF r
  <2> QED BY <1>2, <2>1 DEF Becomes
<1>3. ASSUME ~s.failed, ~Throws(s, stmt) PROVE Goal
  <2>1. CASE stmt.op = "table"
    <3>1. /\ stmt.table \in s.tables => r = s
          /\ stmt.table \notin s.tables =>
                /\ r.tables = s.tables \cup {stmt.table}
                /\ r.columns = s.columns \cup Columns(stmt.table, stmt.columns)
                /\ r.indexes = s.indexes
      BY <1>3, <2>1, ExecTable DEF Becomes, r
    <3> QED BY <2>1, <3>1
  <2>2. CASE stmt.op = "drop table"
    <3>1. /\ r.tables = s.tables \ {stmt.table}
          /\ r.columns = {e \in s.columns : e[1] # stmt.table}
          /\ r.indexes = {i \in s.indexes : i.table # stmt.table}
      BY <1>3, <2>2, ExecDropTable DEF Becomes, r
    <3> QED BY <2>2, <3>1
  <2>3. CASE stmt.op = "column"
    <3>1. /\ stmt.table \notin s.tables => r = s
          /\ stmt.table \in s.tables =>
                /\ r.tables = s.tables
                /\ r.columns = s.columns \cup {<<stmt.table, stmt.column>>}
                /\ r.indexes = s.indexes
      BY <1>3, <2>3, ExecColumn DEF Becomes, r
    <3> QED BY <2>3, <3>1
  <2>4. CASE stmt.op = "index"
    <3>1. /\ Indexed(s, stmt.index.name) => r = s
          /\ ~Indexed(s, stmt.index.name) =>
                /\ r.tables = s.tables
                /\ r.columns = s.columns
                /\ r.indexes = s.indexes \cup {stmt.index}
      BY <1>3, <2>4, ExecIndex DEF Becomes, r
    <3> QED BY <2>4, <3>1
  <2>5. CASE stmt.op = "drop index"
    <3>1. /\ r.tables = s.tables
          /\ r.columns = s.columns
          /\ r.indexes = {i \in s.indexes : i.name # stmt.name}
      BY <1>3, <2>5, ExecDropIndex DEF Becomes, r
    <3> QED BY <2>5, <3>1
  <2> QED BY <2>1, <2>2, <2>3, <2>4, <2>5 DEF Op
<1>4. Goal
  BY <1>1, <1>2, <1>3
<1> QED BY <1>4 DEF r

\* What a statement that succeeds has made.
LEMMA ExecMakes ==
    ASSUME NEW s, NEW stmt, IsSchema(s), ~s.failed, ~Throws(s, stmt)
    PROVE  /\ stmt.op = "table" => stmt.table \in Exec(s, stmt).tables
           /\ stmt.op = "column" /\ stmt.table \in s.tables
                 => <<stmt.table, stmt.column>> \in Exec(s, stmt).columns
           /\ stmt.op = "index" => Indexed(Exec(s, stmt), stmt.index.name)
<1>1. ASSUME stmt.op = "table" PROVE stmt.table \in Exec(s, stmt).tables
  <2>1. CASE stmt.table \in s.tables
    BY <1>1, <2>1, ExecTable
  <2>2. CASE stmt.table \notin s.tables
    <3>1. Exec(s, stmt).tables = s.tables \cup {stmt.table}
      BY <1>1, <2>2, ExecTable DEF Becomes
    <3> QED BY <3>1
  <2> QED BY <2>1, <2>2
<1>2. ASSUME stmt.op = "column", stmt.table \in s.tables
      PROVE  <<stmt.table, stmt.column>> \in Exec(s, stmt).columns
  BY <1>2, ExecColumn DEF Becomes
<1>3. ASSUME stmt.op = "index" PROVE Indexed(Exec(s, stmt), stmt.index.name)
  <2>1. CASE Indexed(s, stmt.index.name)
    BY <1>3, <2>1, ExecIndex
  <2>2. CASE ~Indexed(s, stmt.index.name)
    <3>1. stmt.index \in Exec(s, stmt).indexes
      BY <1>3, <2>2, ExecIndex DEF Becomes
    <3> QED BY <3>1 DEF Indexed
  <2> QED BY <1>3, <2>1, <2>2
<1> QED BY <1>1, <1>2, <1>3

\* A table is never without a column that every statement that makes it gives it.
WithColumn(s, t, c) == t \in s.tables => <<t, c>> \in s.columns
LEMMA ExecWithColumn ==
    ASSUME NEW s, NEW stmt, IsSchema(s), stmt.op \in Op, NEW t, NEW c, WithColumn(s, t, c),
           stmt.op = "table" /\ stmt.table = t => c \in stmt.columns
    PROVE  WithColumn(Exec(s, stmt), t, c)
<1> DEFINE r == Exec(s, stmt)
           Goal == WithColumn(r, t, c)
<1> HIDE DEF r
<1>1. ASSUME s.failed PROVE Goal
  BY <1>1, ExecFailed DEF r
<1>2. ASSUME ~s.failed, Throws(s, stmt) PROVE Goal
  <2>1. Becomes(r, s.tables, s.columns, s.indexes, TRUE)
    BY <1>2, ExecThrows DEF r
  <2> QED BY <1>2, <2>1 DEF Becomes, WithColumn
<1>3. ASSUME ~s.failed, ~Throws(s, stmt) PROVE Goal
  <2>1. CASE stmt.op = "table"
    <3>1. /\ stmt.table \in s.tables => r = s
          /\ stmt.table \notin s.tables =>
                /\ r.tables = s.tables \cup {stmt.table}
                /\ r.columns = s.columns \cup Columns(stmt.table, stmt.columns)
                /\ r.indexes = s.indexes
      BY <1>3, <2>1, ExecTable DEF Becomes, r
    <3> QED BY <2>1, <3>1 DEF WithColumn, Columns
  <2>2. CASE stmt.op = "drop table"
    <3>1. /\ r.tables = s.tables \ {stmt.table}
          /\ r.columns = {e \in s.columns : e[1] # stmt.table}
          /\ r.indexes = {i \in s.indexes : i.table # stmt.table}
      BY <1>3, <2>2, ExecDropTable DEF Becomes, r
    <3> QED BY <2>2, <3>1 DEF WithColumn
  <2>3. CASE stmt.op = "column"
    <3>1. /\ stmt.table \notin s.tables => r = s
          /\ stmt.table \in s.tables =>
                /\ r.tables = s.tables
                /\ r.columns = s.columns \cup {<<stmt.table, stmt.column>>}
                /\ r.indexes = s.indexes
      BY <1>3, <2>3, ExecColumn DEF Becomes, r
    <3> QED BY <2>3, <3>1 DEF WithColumn
  <2>4. CASE stmt.op = "index"
    <3>1. /\ Indexed(s, stmt.index.name) => r = s
          /\ ~Indexed(s, stmt.index.name) =>
                /\ r.tables = s.tables
                /\ r.columns = s.columns
                /\ r.indexes = s.indexes \cup {stmt.index}
      BY <1>3, <2>4, ExecIndex DEF Becomes, r
    <3> QED BY <2>4, <3>1 DEF WithColumn
  <2>5. CASE stmt.op = "drop index"
    <3>1. /\ r.tables = s.tables
          /\ r.columns = s.columns
          /\ r.indexes = {i \in s.indexes : i.name # stmt.name}
      BY <1>3, <2>5, ExecDropIndex DEF Becomes, r
    <3> QED BY <2>5, <3>1 DEF WithColumn
  <2> QED BY <2>1, <2>2, <2>3, <2>4, <2>5 DEF Op
<1>4. Goal
  BY <1>1, <1>2, <1>3
<1> QED BY <1>4 DEF r

----------------------------------------------------------------------------
(* A course of statements *)

Statements(stmts) == Len(stmts) \in Nat /\ \A k \in 1 .. Len(stmts) : stmts[k].op \in Op

LEMMA CourseIsSchema ==
    ASSUME NEW A, NEW s, NEW stmts, Course(A, s, stmts), Statements(stmts), IsSchema(s)
    PROVE  \A k \in 0 .. Len(stmts) : IsSchema(A[k])
<1> DEFINE T == {k \in 0 .. Len(stmts) : IsSchema(A[k])}
<1>1. Len(stmts) \in Nat
  BY DEF Statements
<1>2. 0 \in T
  BY <1>1 DEF Course
<1>3. ASSUME NEW k \in 1 .. Len(stmts), k - 1 \in T PROVE k \in T
  <2>1. A[k] = Exec(A[k - 1], stmts[k]) /\ stmts[k].op \in Op
    BY DEF Course, Statements
  <2>2. IsSchema(A[k])
    BY <1>3, <2>1, ExecIsSchema
  <2> QED BY <1>1, <2>2
<1>4. \A k \in 1 .. Len(stmts) : k - 1 \in T => k \in T
  BY <1>3
<1> HIDE DEF T
<1>5. \A k \in 0 .. Len(stmts) : k \in T
  BY <1>1, <1>2, <1>4, UpTo
<1> QED BY <1>5 DEF T

\* What does not fail in the end has not failed before.
LEMMA CourseNotFailed ==
    ASSUME NEW A, NEW s, NEW stmts, Course(A, s, stmts), Statements(stmts), IsSchema(s),
           ~A[Len(stmts)].failed
    PROVE  \A k \in 0 .. Len(stmts) :
              ~A[k].failed /\ (k # 0 => ~Throws(A[k - 1], stmts[k]))
<1> DEFINE N == Len(stmts)
<1>1. N \in Nat
  BY DEF Statements
<1>2. ASSUME NEW j \in 0 .. N, A[j].failed PROVE FALSE
  <2> DEFINE T == {k \in j .. N : A[k].failed}
  <2>1. j \in T
    BY <1>1, <1>2
  <2>2. ASSUME NEW k \in (j + 1) .. N, k - 1 \in T PROVE k \in T
    <3>1. k \in 1 .. N /\ A[k] = Exec(A[k - 1], stmts[k]) /\ A[k - 1].failed
      BY <1>1, <2>2 DEF Course
    <3> QED BY <1>1, <3>1, ExecFailed
  <2>3. \A k \in (j + 1) .. N : k - 1 \in T => k \in T
    BY <2>2
  <2> HIDE DEF T
  <2>4. \A k \in j .. N : k \in T
    <3>1. j \in Nat /\ j <= N
      BY <1>1
    <3> HIDE DEF N
    <3> QED BY <1>1, <2>1, <2>3, <3>1, UpFrom
  <2>5. N \in T
    BY <1>1, <2>4
  <2> QED BY <2>5 DEF T
<1>3. ASSUME NEW k \in 1 .. N PROVE ~Throws(A[k - 1], stmts[k])
  <2>1. k - 1 \in 0 .. N /\ k \in 0 .. N
    BY <1>1
  <2>2. IsSchema(A[k - 1]) /\ stmts[k].op \in Op /\ A[k] = Exec(A[k - 1], stmts[k])
    BY <2>1, CourseIsSchema DEF Statements, Course
  <2> QED BY <1>2, <2>1, <2>2, ExecIsSchema
<1> HIDE DEF N
<1>4. \A k \in 0 .. N : k # 0 => k \in 1 .. N
  BY <1>1
<1> QED BY <1>2, <1>3, <1>4 DEF N

LEMMA CourseWithin ==
    ASSUME NEW A, NEW s, NEW stmts, Course(A, s, stmts), Statements(stmts), IsSchema(s),
           NEW T, NEW C, NEW I, Within(s, T, C, I),
           \A k \in 1 .. Len(stmts) : Allowed(stmts[k], T, C, I)
    PROVE  \A k \in 0 .. Len(stmts) : Within(A[k], T, C, I)
<1> DEFINE S == {k \in 0 .. Len(stmts) : Within(A[k], T, C, I)}
<1>1. Len(stmts) \in Nat
  BY DEF Statements
<1>2. 0 \in S
  BY <1>1 DEF Course
<1>3. ASSUME NEW k \in 1 .. Len(stmts), k - 1 \in S PROVE k \in S
  <2>1. A[k] = Exec(A[k - 1], stmts[k]) /\ stmts[k].op \in Op
    BY DEF Course, Statements
  <2>2. IsSchema(A[k - 1])
    BY <1>1, CourseIsSchema
  <2>3. Within(A[k], T, C, I)
    BY <1>3, <2>1, <2>2, ExecWithin
  <2> QED BY <1>1, <2>3
<1>4. \A k \in 1 .. Len(stmts) : k - 1 \in S => k \in S
  BY <1>3
<1> HIDE DEF S
<1>5. \A k \in 0 .. Len(stmts) : k \in S
  BY <1>1, <1>2, <1>4, UpTo
<1> QED BY <1>5 DEF S

LEMMA CourseWithColumn ==
    ASSUME NEW A, NEW s, NEW stmts, Course(A, s, stmts), Statements(stmts), IsSchema(s),
           NEW t, NEW c, WithColumn(s, t, c),
           \A k \in 1 .. Len(stmts) :
              stmts[k].op = "table" /\ stmts[k].table = t => c \in stmts[k].columns
    PROVE  \A k \in 0 .. Len(stmts) : WithColumn(A[k], t, c)
<1> DEFINE S == {k \in 0 .. Len(stmts) : WithColumn(A[k], t, c)}
<1>1. Len(stmts) \in Nat
  BY DEF Statements
<1>2. 0 \in S
  BY <1>1 DEF Course
<1>3. ASSUME NEW k \in 1 .. Len(stmts), k - 1 \in S PROVE k \in S
  <2>1. A[k] = Exec(A[k - 1], stmts[k]) /\ stmts[k].op \in Op
    BY DEF Course, Statements
  <2>2. IsSchema(A[k - 1])
    BY <1>1, CourseIsSchema
  <2>3. WithColumn(A[k], t, c)
    BY <1>3, <2>1, <2>2, ExecWithColumn
  <2> QED BY <1>1, <2>3
<1>4. \A k \in 1 .. Len(stmts) : k - 1 \in S => k \in S
  BY <1>3
<1> HIDE DEF S
<1>5. \A k \in 0 .. Len(stmts) : k \in S
  BY <1>1, <1>2, <1>4, UpTo
<1> QED BY <1>5 DEF S

\* What no statement from m on drops stays.
SparesTable(stmt, t) == ~(stmt.op = "drop table" /\ stmt.table = t)
SparesIndex(stmt, i) == SparesTable(stmt, i.table) /\ ~(stmt.op = "drop index"
  /\ stmt.name = i.name)

LEMMA CourseKeeps ==
    ASSUME NEW A, NEW s, NEW stmts, Course(A, s, stmts), Statements(stmts), IsSchema(s),
           NEW m \in 0 .. Len(stmts), NEW n \in m .. Len(stmts)
    PROVE  /\ \A t \in A[m].tables :
                 (\A k \in (m + 1) .. n : SparesTable(stmts[k], t)) => t \in A[n].tables
           /\ \A c \in A[m].columns :
                 (\A k \in (m + 1) .. n : SparesTable(stmts[k], c[1])) => c \in A[n].columns
           /\ \A i \in A[m].indexes :
                 (\A k \in (m + 1) .. n : SparesIndex(stmts[k], i)) => i \in A[n].indexes
<1>1. Len(stmts) \in Nat /\ n \in Nat /\ m \in Nat /\ m <= n
  BY DEF Statements
<1>2. ASSUME NEW k \in (m + 1) .. n
      PROVE  /\ A[k] = Exec(A[k - 1], stmts[k]) /\ stmts[k].op \in Op
             /\ IsSchema(A[k - 1])
  <2>1. k \in 1 .. Len(stmts) /\ k - 1 \in 0 .. Len(stmts)
    BY <1>1
  <2> QED BY <2>1, CourseIsSchema DEF Course, Statements
<1>3. ASSUME NEW t \in A[m].tables, \A k \in (m + 1) .. n : SparesTable(stmts[k], t)
      PROVE  t \in A[n].tables
  <2> DEFINE S == {k \in m .. n : t \in A[k].tables}
  <2>1. m \in S
    BY <1>1, <1>3
  <2>2. ASSUME NEW k \in (m + 1) .. n, k - 1 \in S PROVE k \in S
    <3>1. t \in A[k].tables
      <4>1. t \in A[k - 1].tables /\ SparesTable(stmts[k], t)
        BY <1>3, <2>2
      <4>2. t \in Exec(A[k - 1], stmts[k]).tables
        BY <1>2, <4>1, ExecKeeps DEF SparesTable
      <4> QED BY <1>2, <4>2
    <3> QED BY <1>1, <3>1
  <2>3. \A k \in (m + 1) .. n : k - 1 \in S => k \in S
    BY <2>2
  <2> HIDE DEF S
  <2>4. \A k \in m .. n : k \in S
    BY <1>1, <2>1, <2>3, UpFrom
  <2>5. n \in S
    BY <1>1, <2>4
  <2> QED BY <2>5 DEF S
<1>4. ASSUME NEW c \in A[m].columns, \A k \in (m + 1) .. n : SparesTable(stmts[k], c[1])
      PROVE  c \in A[n].columns
  <2> DEFINE S == {k \in m .. n : c \in A[k].columns}
  <2>1. m \in S
    BY <1>1, <1>4
  <2>2. ASSUME NEW k \in (m + 1) .. n, k - 1 \in S PROVE k \in S
    <3>1. c \in A[k].columns
      <4>1. c \in A[k - 1].columns /\ SparesTable(stmts[k], c[1])
        BY <1>4, <2>2
      <4>2. c \in Exec(A[k - 1], stmts[k]).columns
        BY <1>2, <4>1, ExecKeeps DEF SparesTable
      <4> QED BY <1>2, <4>2
    <3> QED BY <1>1, <3>1
  <2>3. \A k \in (m + 1) .. n : k - 1 \in S => k \in S
    BY <2>2
  <2> HIDE DEF S
  <2>4. \A k \in m .. n : k \in S
    BY <1>1, <2>1, <2>3, UpFrom
  <2>5. n \in S
    BY <1>1, <2>4
  <2> QED BY <2>5 DEF S
<1>5. ASSUME NEW i \in A[m].indexes, \A k \in (m + 1) .. n : SparesIndex(stmts[k], i)
      PROVE  i \in A[n].indexes
  <2> DEFINE S == {k \in m .. n : i \in A[k].indexes}
  <2>1. m \in S
    BY <1>1, <1>5
  <2>2. ASSUME NEW k \in (m + 1) .. n, k - 1 \in S PROVE k \in S
    <3>1. i \in A[k].indexes
      <4>1. i \in A[k - 1].indexes /\ SparesIndex(stmts[k], i)
        BY <1>5, <2>2
      <4>2. i \in Exec(A[k - 1], stmts[k]).indexes
        BY <1>2, <4>1, ExecKeeps DEF SparesIndex, SparesTable
      <4> QED BY <1>2, <4>2
    <3> QED BY <1>1, <3>1
  <2>3. \A k \in (m + 1) .. n : k - 1 \in S => k \in S
    BY <2>2
  <2> HIDE DEF S
  <2>4. \A k \in m .. n : k \in S
    BY <1>1, <2>1, <2>3, UpFrom
  <2>5. n \in S
    BY <1>1, <2>4
  <2> QED BY <2>5 DEF S
<1> QED BY <1>3, <1>4, <1>5

\* Statements that only make things: all of it is there in the end.
Makes(stmt) == stmt.op \in {"table", "column", "index"}

LEMMA CourseMakes ==
    ASSUME NEW A, NEW s, NEW stmts, Course(A, s, stmts), Statements(stmts), IsSchema(s),
           ~A[Len(stmts)].failed, NEW m \in 0 .. Len(stmts),
           \A k \in (m + 1) .. Len(stmts) : Makes(stmts[k])
    PROVE  LET r == A[Len(stmts)] IN
           /\ A[m].tables \subseteq r.tables
           /\ A[m].columns \subseteq r.columns
           /\ A[m].indexes \subseteq r.indexes
           /\ \A k \in (m + 1) .. Len(stmts) :
                 /\ stmts[k].op = "table" => stmts[k].table \in r.tables
                 /\ stmts[k].op = "column" /\ stmts[k].table \in A[m].tables
                       => <<stmts[k].table, stmts[k].column>> \in r.columns
                 /\ stmts[k].op = "index" => Indexed(r, stmts[k].index.name)
<1> DEFINE N == Len(stmts)
           r == A[N]
<1>1. N \in Nat
  BY DEF Statements
<1> HIDE DEF N, r
<1>2. ASSUME NEW j \in m .. N, NEW n \in j .. N
      PROVE  /\ A[j].tables \subseteq A[n].tables
             /\ A[j].columns \subseteq A[n].columns
             /\ A[j].indexes \subseteq A[n].indexes
  <2>1. j \in 0 .. N
    BY <1>1 DEF N
  <2>2. \A k \in (j + 1) .. n : Makes(stmts[k])
    <3>1. \A k \in (j + 1) .. n : k \in (m + 1) .. N
      BY <1>1
    <3> QED BY <3>1 DEF N
  <2>3. \A k \in (j + 1) .. n : \A x : SparesTable(stmts[k], x) /\ SparesIndex(stmts[k], x)
    BY <2>2 DEF Makes, SparesTable, SparesIndex
  <2>4. j \in 0 .. Len(stmts) /\ n \in j .. Len(stmts)
    BY <2>1 DEF N
  <2>5. A[j].tables \subseteq A[n].tables
    BY <2>3, <2>4, CourseKeeps
  <2>6. A[j].columns \subseteq A[n].columns
    BY <2>3, <2>4, CourseKeeps
  <2>7. A[j].indexes \subseteq A[n].indexes
    BY <2>3, <2>4, CourseKeeps
  <2> QED BY <2>5, <2>6, <2>7
<1>3. A[m].tables \subseteq r.tables /\ A[m].columns \subseteq r.columns
        /\ A[m].indexes \subseteq r.indexes
  <2>1. m \in m .. N /\ N \in m .. N
    BY <1>1 DEF N
  <2> QED BY <1>2, <2>1 DEF r
<1>4. ASSUME NEW k \in (m + 1) .. N
      PROVE  /\ stmts[k].op = "table" => stmts[k].table \in r.tables
             /\ stmts[k].op = "column" /\ stmts[k].table \in A[m].tables
                   => <<stmts[k].table, stmts[k].column>> \in r.columns
             /\ stmts[k].op = "index" => Indexed(r, stmts[k].index.name)
  <2>1. /\ k \in 1 .. N /\ k - 1 \in 0 .. N /\ k - 1 \in m .. N /\ k \in m .. N /\ k \in 0 .. N
        /\ N \in k .. N /\ k - 1 \in m .. N /\ m \in m .. N /\ k # 0
    BY <1>1 DEF N
  <2>2. A[k] = Exec(A[k - 1], stmts[k]) /\ IsSchema(A[k - 1])
    BY <2>1, CourseIsSchema DEF Course, N
  <2>3. ~A[k - 1].failed /\ ~Throws(A[k - 1], stmts[k])
    BY <2>1, CourseNotFailed DEF N
  <2>4. /\ A[k].tables \subseteq r.tables
        /\ A[k].columns \subseteq r.columns
        /\ A[k].indexes \subseteq r.indexes
    BY <1>2, <2>1 DEF r
  <2>5. A[m].tables \subseteq A[k - 1].tables
    BY <1>2, <2>1
  <2>6. stmts[k].op = "table" => stmts[k].table \in r.tables
    BY <2>2, <2>3, <2>4, ExecMakes
  <2>7. stmts[k].op = "column" /\ stmts[k].table \in A[m].tables
           => <<stmts[k].table, stmts[k].column>> \in r.columns
    BY <2>2, <2>3, <2>4, <2>5, ExecMakes
  <2>8. ASSUME stmts[k].op = "index" PROVE Indexed(r, stmts[k].index.name)
    <3>1. Indexed(A[k], stmts[k].index.name)
      BY <2>2, <2>3, <2>8, ExecMakes
    <3> QED BY <2>4, <3>1 DEF Indexed
  <2> QED BY <2>6, <2>7, <2>8
<1> QED BY <1>3, <1>4 DEF r, N

----------------------------------------------------------------------------
(* The statements of each version *)

IsTable(stmt, t, columns) == stmt.op = "table" /\ stmt.table = t /\ stmt.columns = columns
IsDropTable(stmt, t) == stmt.op = "drop table" /\ stmt.table = t
IsColumn(stmt, t, c) == stmt.op = "column" /\ stmt.table = t /\ stmt.column = c
IsIndex(stmt, n, t, k, columns) ==
    /\ stmt.op = "index" /\ stmt.columns = columns
    /\ stmt.index = [name |-> n, table |-> t, keys |-> k]
IsDropIndex(stmt, n) == stmt.op = "drop index" /\ stmt.name = n

LEMMA Up2 ==
    LET s == UpStatements[2] IN
    /\ Len(s) = 5
    /\ IsIndex(s[1], "idx_events_created_at", "events", "created", {})
    /\ IsIndex(s[2], "idx_events_git_branch", "events", "branch only", {})
    /\ IsIndex(s[3], "idx_events_created_at_id", "events", "created, id", {})
    /\ IsIndex(s[4], "idx_dependencies_source", "dependencies", "source", {})
    /\ IsIndex(s[5], "idx_dependencies_depends_on", "dependencies", "target", {})
BY DEF UpStatements, IsIndex, Index, IndexOn

LEMMA Up3 ==
    LET s == UpStatements[3] IN
    /\ Len(s) = 2
    /\ IsTable(s[1], "event_archive", {})
    /\ IsIndex(s[2], "idx_event_archive_created_at", "event_archive", "created", {})
BY DEF UpStatements, IsIndex, Index, IndexOn, IsTable, Table

LEMMA Up4 ==
    LET s == UpStatements[4] IN
    /\ Len(s) = 4
    /\ IsColumn(s[1], "git_context", "metadata_scope")
    /\ IsIndex(s[2], "idx_git_context_scope_path", "git_context", "scope", {"metadata_scope"})
    /\ IsColumn(s[3], "sync_cursors", "owner")
    /\ IsIndex(s[4], "idx_sync_cursors_owner", "sync_cursors", "owner", {"owner"})
BY DEF UpStatements, SyncMetadata, IsIndex, Index, IndexOn, IsColumn, Column

LEMMA Up5 ==
    LET s == UpStatements[5] IN
    /\ Len(s) = 1
    /\ IsIndex(s[1], "idx_dependencies_edge", "dependencies", "edge", {})
BY DEF UpStatements, IsIndex, Index, IndexOn

LEMMA Up6 ==
    LET s == UpStatements[6] IN
    /\ Len(s) = 2
    /\ IsColumn(s[1], "tasks", "owner")
    /\ IsColumn(s[2], "subtasks", "owner")
BY DEF UpStatements, IsColumn, Column

LEMMA Up7 ==
    LET s == UpStatements[7] IN
    /\ Len(s) = 4
    /\ IsIndex(s[1], "idx_dependencies_depends_on_kind", "dependencies", "target, kind", {})
    /\ IsIndex(s[2], "idx_tasks_owner", "tasks", "owner", {"owner"})
    /\ IsIndex(s[3], "idx_subtasks_owner", "subtasks", "owner", {"owner"})
    /\ IsIndex(s[4], "idx_conflicts_resolution_updated_at", "sync_conflicts", "updated", {})
BY DEF UpStatements, IsIndex, Index, IndexOn

LEMMA Up8 ==
    LET s == UpStatements[8] IN
    /\ Len(s) = 3
    /\ IsIndex(s[1], "idx_events_branch_cursor", "events", "branch", {})
    /\ IsIndex(s[2], "idx_events_entity_branch_cursor", "events", "entity", {})
    /\ IsIndex(s[3], "idx_conflicts_resolution_entity_field_id", "sync_conflicts", "resolution", {})
BY DEF UpStatements, IsIndex, Index, IndexOn

LEMMA Up9 ==
    LET s == UpStatements[9] IN
    /\ Len(s) = 2
    /\ IsTable(s[1], "board_idempotency_keys", {"state"})
    /\ IsIndex(s[2], "idx_board_idempotency_created_at", "board_idempotency_keys", "created", {})
BY DEF UpStatements, IsIndex, Index, IndexOn, IsTable, Table

LEMMA Up10 ==
    LET s == UpStatements[10] IN
    /\ Len(s) = 1
    /\ IsIndex(s[1], "idx_board_idempotency_state_created_at", "board_idempotency_keys", "state",
      {"state"})
BY DEF UpStatements, IsIndex, Index, IndexOn

LEMMA Up11 ==
    LET s == UpStatements[11] IN
    /\ Len(s) = 3
    /\ IsColumn(s[1], "sync_conflicts", "scope")
    /\ IsIndex(s[2], "idx_sync_conflicts_scope_entity", "sync_conflicts", "entity", {"scope"})
    /\ IsIndex(s[3], "idx_sync_conflicts_scope_resolution", "sync_conflicts", "scope", {"scope"})
BY DEF UpStatements, ConflictScope, IsIndex, Index, IndexOn, IsColumn, Column

LEMMA Up12 ==
    LET s == UpStatements[12] IN
    /\ Len(s) = 5
    /\ IsDropIndex(s[1], "idx_dependencies_source")
    /\ IsDropIndex(s[2], "idx_dependencies_depends_on")
    /\ IsIndex(s[3], "idx_dependencies_source", "dependencies", "source, kind", {})
    /\ IsIndex(s[4], "idx_dependencies_target", "dependencies", "target, kind", {})
    /\ IsIndex(s[5], "uniq_dependencies_edge", "dependencies", "edge, kinds", {})
BY DEF UpStatements, DependencyKinds, IsIndex, Index, IndexOn, IsDropIndex, DropIndex

LEMMA Up13 ==
    LET s == UpStatements[13] IN
    /\ Len(s) = 2
    /\ IsIndex(s[1], "idx_tasks_epic_created", "tasks", "epic", {})
    /\ IsIndex(s[2], "idx_subtasks_task_created", "subtasks", "task", {})
BY DEF UpStatements, IsIndex, Index, IndexOn

LEMMA Down1 ==
    LET s == DownStatements[1] IN
    /\ Len(s) = 8
    /\ IsDropTable(s[1], "sync_conflicts")
    /\ IsDropTable(s[2], "sync_cursors")
    /\ IsDropTable(s[3], "git_context")
    /\ IsDropTable(s[4], "events")
    /\ IsDropTable(s[5], "dependencies")
    /\ IsDropTable(s[6], "subtasks")
    /\ IsDropTable(s[7], "tasks")
    /\ IsDropTable(s[8], "epics")
BY DEF DownStatements, BaseRollback, IsDropTable, DropTable

LEMMA Down2 ==
    LET s == DownStatements[2] IN
    /\ Len(s) = 5
    /\ IsDropIndex(s[1], "idx_events_created_at")
    /\ IsDropIndex(s[2], "idx_events_git_branch")
    /\ IsDropIndex(s[3], "idx_events_created_at_id")
    /\ IsDropIndex(s[4], "idx_dependencies_source")
    /\ IsDropIndex(s[5], "idx_dependencies_depends_on")
BY DEF DownStatements, IsDropIndex, DropIndex

LEMMA Down3 ==
    LET s == DownStatements[3] IN
    /\ Len(s) = 2
    /\ IsDropIndex(s[1], "idx_event_archive_created_at")
    /\ IsDropTable(s[2], "event_archive")
BY DEF DownStatements, IsDropTable, DropTable, IsDropIndex, DropIndex

LEMMA Down7 ==
    LET s == DownStatements[7] IN
    /\ Len(s) = 4
    /\ IsDropIndex(s[1], "idx_conflicts_resolution_updated_at")
    /\ IsDropIndex(s[2], "idx_subtasks_owner")
    /\ IsDropIndex(s[3], "idx_tasks_owner")
    /\ IsDropIndex(s[4], "idx_dependencies_depends_on_kind")
BY DEF DownStatements, IsDropIndex, DropIndex

LEMMA Down8 ==
    LET s == DownStatements[8] IN
    /\ Len(s) = 3
    /\ IsDropIndex(s[1], "idx_conflicts_resolution_entity_field_id")
    /\ IsDropIndex(s[2], "idx_events_entity_branch_cursor")
    /\ IsDropIndex(s[3], "idx_events_branch_cursor")
BY DEF DownStatements, IsDropIndex, DropIndex

LEMMA Down9 ==
    LET s == DownStatements[9] IN
    /\ Len(s) = 2
    /\ IsDropIndex(s[1], "idx_board_idempotency_created_at")
    /\ IsDropTable(s[2], "board_idempotency_keys")
BY DEF DownStatements, IsDropTable, DropTable, IsDropIndex, DropIndex

LEMMA Down10 ==
    LET s == DownStatements[10] IN
    /\ Len(s) = 1
    /\ IsDropIndex(s[1], "idx_board_idempotency_state_created_at")
BY DEF DownStatements, IsDropIndex, DropIndex

LEMMA Down11 ==
    LET s == DownStatements[11] IN
    /\ Len(s) = 2
    /\ IsDropIndex(s[1], "idx_sync_conflicts_scope_entity")
    /\ IsDropIndex(s[2], "idx_sync_conflicts_scope_resolution")
BY DEF DownStatements, IsDropIndex, DropIndex

LEMMA Down12 ==
    LET s == DownStatements[12] IN
    /\ Len(s) = 5
    /\ IsDropIndex(s[1], "uniq_dependencies_edge")
    /\ IsDropIndex(s[2], "idx_dependencies_target")
    /\ IsDropIndex(s[3], "idx_dependencies_source")
    /\ IsIndex(s[4], "idx_dependencies_source", "dependencies", "source", {})
    /\ IsIndex(s[5], "idx_dependencies_depends_on", "dependencies", "target", {})
BY DEF DownStatements, DependencyKindsDown, IsIndex, Index, IndexOn, IsDropIndex, DropIndex

LEMMA Down13 ==
    LET s == DownStatements[13] IN
    /\ Len(s) = 2
    /\ IsDropIndex(s[1], "idx_subtasks_task_created")
    /\ IsDropIndex(s[2], "idx_tasks_epic_created")
BY DEF DownStatements, IsDropIndex, DropIndex

\* Version 1.
LEMMA UpTables ==
    LET s == BaseTables IN
    /\ Len(s) = 9
    /\ IsTable(s[1], "epics", {})
    /\ IsTable(s[2], "tasks", {})
    /\ IsTable(s[3], "subtasks", {})
    /\ IsTable(s[4], "dependencies", {})
    /\ IsTable(s[5], "events", {})
    /\ IsTable(s[6], "git_context", {"metadata_scope"})
    /\ IsTable(s[7], "sync_cursors", {"owner"})
    /\ IsTable(s[8], "sync_conflicts", {"scope"})
    /\ IsTable(s[9], "board_idempotency_keys", {"state"})
BY DEF BaseTables, IsTable, Table

LEMMA UpIndexes ==
    LET s == BaseIndexes IN
    /\ Len(s) = 14
    /\ IsIndex(s[1], "idx_events_branch_cursor", "events", "branch", {})
    /\ IsIndex(s[2], "idx_events_entity_branch_cursor", "events", "entity", {})
    /\ IsIndex(s[3], "idx_git_context_scope_path", "git_context", "scope", {"metadata_scope"})
    /\ IsIndex(s[4], "idx_sync_cursors_owner", "sync_cursors", "owner", {"owner"})
    /\ IsIndex(s[5], "idx_conflicts_resolution_entity_field_id", "sync_conflicts", "resolution", {})
    /\ IsIndex(s[6], "idx_sync_conflicts_scope_entity", "sync_conflicts", "entity", {"scope"})
    /\ IsIndex(s[7], "idx_sync_conflicts_scope_resolution", "sync_conflicts", "scope", {"scope"})
    /\ IsIndex(s[8], "idx_board_idempotency_created_at", "board_idempotency_keys", "created", {})
    /\ IsIndex(s[9], "idx_board_idempotency_state_created_at", "board_idempotency_keys", "state",
      {"state"})
    /\ IsIndex(s[10], "idx_dependencies_source", "dependencies", "source, kind", {})
    /\ IsIndex(s[11], "idx_dependencies_target", "dependencies", "target, kind", {})
    /\ IsIndex(s[12], "uniq_dependencies_edge", "dependencies", "edge, kinds", {})
    /\ IsIndex(s[13], "idx_tasks_epic_created", "tasks", "epic", {})
    /\ IsIndex(s[14], "idx_subtasks_task_created", "subtasks", "task", {})
BY DEF BaseIndexes, IsIndex, Index, IndexOn

LEMMA IndexParts ==
    ASSUME NEW stmt, NEW n, NEW t, NEW k, NEW columns, IsIndex(stmt, n, t, k, columns)
    PROVE  /\ stmt.op = "index" /\ stmt.columns = columns
           /\ stmt.index.name = n /\ stmt.index.table = t /\ stmt.index.keys = k
BY DEF IsIndex

LEMMA Concatenation ==
  ASSUME NEW S, NEW a \in Seq(S), NEW b \in Seq(S)
  PROVE  /\ Len(a \o b) = Len(a) + Len(b)
         /\ DOMAIN (a \o b) = 1 .. Len(a) + Len(b)
         /\ \A k \in 1 .. Len(a) : (a \o b)[k] = a[k]
         /\ \A k \in 1 .. Len(b) : (a \o b)[Len(a) + k] = b[k]
BY ConcatProperties, LenProperties

LEMMA Up1 ==
    LET s == UpStatements[1] IN
    /\ Len(s) = 23 /\ DOMAIN s = 1 .. 23
    /\ \A k \in 1 .. 9 : s[k] = BaseTables[k]
    /\ \A k \in 10 .. 23 : s[k] = BaseIndexes[k - 9]
<1> DEFINE S == {BaseTables[k] : k \in 1 .. 9} \cup {BaseIndexes[k] : k \in 1 .. 14}
<1>1. BaseTables \in Seq(S)
  BY DEF BaseTables
<1>2. BaseIndexes \in Seq(S)
  <2>1. Len(BaseIndexes) = 14 /\ DOMAIN BaseIndexes = 1 .. 14
    BY DEF BaseIndexes
  <2>2. BaseIndexes = [k \in 1 .. 14 |-> BaseIndexes[k]]
    BY DEF BaseIndexes
  <2> HIDE DEF S
  <2>3. \A k \in 1 .. 14 : BaseIndexes[k] \in S
    BY DEF S
  <2> QED BY <2>2, <2>3
<1>3. UpStatements[1] = BaseTables \o BaseIndexes
  BY DEF UpStatements
<1> HIDE DEF S
<1>4. /\ Len(BaseTables \o BaseIndexes) = 23
      /\ DOMAIN (BaseTables \o BaseIndexes) = 1 .. 23
      /\ \A k \in 1 .. 9 : (BaseTables \o BaseIndexes)[k] = BaseTables[k]
      /\ \A k \in 1 .. 14 : (BaseTables \o BaseIndexes)[9 + k] = BaseIndexes[k]
  <2>1. Len(BaseTables) = 9
    BY UpTables
  <2>2. Len(BaseIndexes) = 14
    BY UpIndexes
  <2>3. /\ Len(BaseTables \o BaseIndexes) = Len(BaseTables) + Len(BaseIndexes)
        /\ DOMAIN (BaseTables \o BaseIndexes) = 1 .. Len(BaseTables) + Len(BaseIndexes)
        /\ \A k \in 1 .. Len(BaseTables) : (BaseTables \o BaseIndexes)[k] = BaseTables[k]
        /\ \A k \in 1 .. Len(BaseIndexes) :
              (BaseTables \o BaseIndexes)[Len(BaseTables) + k] = BaseIndexes[k]
    BY <1>1, <1>2, Concatenation
  <2>4. Len(BaseTables \o BaseIndexes) = 23 /\ DOMAIN (BaseTables \o BaseIndexes) = 1 .. 23
    BY <2>1, <2>2, <2>3
  <2>5. \A k \in 1 .. 9 : (BaseTables \o BaseIndexes)[k] = BaseTables[k]
    BY <2>1, <2>3
  <2>6. \A k \in 1 .. 14 : (BaseTables \o BaseIndexes)[9 + k] = BaseIndexes[k]
    BY <2>1, <2>2, <2>3
  <2> QED BY <2>4, <2>5, <2>6
<1>5. ASSUME NEW k \in 10 .. 23
      PROVE  (BaseTables \o BaseIndexes)[k] = BaseIndexes[k - 9]
  <2>1. k - 9 \in 1 .. 14 /\ 9 + (k - 9) = k
    OBVIOUS
  <2> QED BY <1>4, <2>1
<1> QED BY <1>3, <1>4, <1>5


----------------------------------------------------------------------------
(* The objects by name *)

\* The version that a table is there since.
TableSince(t) ==
    CASE t = "event_archive" -> 3
      [] t = "board_idempotency_keys" -> 9
      [] OTHER -> 1

\* The index of a name, and the version that it is there since.
IndexSince(s, t, k) == [since |-> s, table |-> t, keys |-> k]
Entry(n) ==
    CASE n = "idx_events_created_at" -> IndexSince(2, "events", "created")
      [] n = "idx_events_git_branch" -> IndexSince(2, "events", "branch only")
      [] n = "idx_events_created_at_id" -> IndexSince(2, "events", "created, id")
      [] n = "idx_event_archive_created_at" -> IndexSince(3, "event_archive", "created")
      [] n = "idx_git_context_scope_path" -> IndexSince(4, "git_context", "scope")
      [] n = "idx_sync_cursors_owner" -> IndexSince(4, "sync_cursors", "owner")
      [] n = "idx_dependencies_edge" -> IndexSince(5, "dependencies", "edge")
      [] n = "idx_dependencies_depends_on_kind" -> IndexSince(7, "dependencies", "target, kind")
      [] n = "idx_tasks_owner" -> IndexSince(7, "tasks", "owner")
      [] n = "idx_subtasks_owner" -> IndexSince(7, "subtasks", "owner")
      [] n = "idx_conflicts_resolution_updated_at" -> IndexSince(7, "sync_conflicts", "updated")
      [] n = "idx_events_branch_cursor" -> IndexSince(8, "events", "branch")
      [] n = "idx_events_entity_branch_cursor" -> IndexSince(8, "events", "entity")
      [] n = "idx_conflicts_resolution_entity_field_id" -> IndexSince(8, "sync_conflicts",
        "resolution")
      [] n = "idx_board_idempotency_created_at" -> IndexSince(9, "board_idempotency_keys",
        "created")
      [] n = "idx_board_idempotency_state_created_at" -> IndexSince(10, "board_idempotency_keys",
        "state")
      [] n = "idx_sync_conflicts_scope_entity" -> IndexSince(11, "sync_conflicts", "entity")
      [] n = "idx_sync_conflicts_scope_resolution" -> IndexSince(11, "sync_conflicts", "scope")
      [] n = "idx_dependencies_source" -> IndexSince(12, "dependencies", "source, kind")
      [] n = "idx_dependencies_target" -> IndexSince(12, "dependencies", "target, kind")
      [] n = "uniq_dependencies_edge" -> IndexSince(12, "dependencies", "edge, kinds")
      [] n = "idx_tasks_epic_created" -> IndexSince(13, "tasks", "epic")
      [] n = "idx_subtasks_task_created" -> IndexSince(13, "subtasks", "task")
      [] OTHER -> IndexSince(0, "", "")

IsEntry(i) == i = [name |-> i.name, table |-> Entry(i.name).table, keys |-> Entry(i.name).keys]

\* An index that a schema may have when its version is at least v, and not before.
EntryOf(v, i) ==
    /\ IsEntry(i) /\ i \notin Superseded
    /\ Entry(i.name).since = v /\ TableSince(i.table) <= v

\* What may be said of every statement of up() of version v, from the second on.
Sound(v, stmt) ==
    /\ stmt.op \in Op \ {"drop table"}
    /\ stmt.op = "table" => /\ TableSince(stmt.table) = v
                            /\ stmt.columns = IF v = 9 THEN {"state"} ELSE {}
    /\ stmt.op = "column" => TableSince(stmt.table) = 1 /\ v \in {4, 6, 11}
    /\ stmt.op = "index" => \/ stmt.index \in Superseded /\ v = 2
                            \/ EntryOf(v, stmt.index)
    /\ stmt.op = "drop index" => v = 12 /\ Entry(stmt.name).since \notin 1 .. (v - 1)

Outdated(n, k) == \/ n = "idx_dependencies_source" /\ k = "source"
                  \/ n = "idx_dependencies_depends_on" /\ k = "target"

LEMMA IndexSound ==
    ASSUME NEW v \in Nat, NEW n, NEW t, NEW k, NEW columns, NEW stmt, IsIndex(stmt, n, t, k,
             columns),
           Entry(n) = IndexSince(v, t, k), TableSince(t) <= v,
           ~Outdated(n, k)
    PROVE  Sound(v, stmt)
<1>1. stmt.op = "index" /\ stmt.index = [name |-> n, table |-> t, keys |-> k]
  BY DEF IsIndex
<1>2. stmt.index.name = n /\ stmt.index.table = t /\ stmt.index.keys = k
  BY <1>1
<1>3. stmt.index \notin Superseded
  <2>1. \A i \in Superseded : Outdated(i.name, i.keys)
    BY DEF Outdated, Superseded, Index, IndexOn
  <2> QED BY <1>2, <2>1
<1>4. Entry(n).since = v /\ Entry(n).table = t /\ Entry(n).keys = k
  BY DEF IndexSince
<1>5. IsEntry(stmt.index)
  BY <1>1, <1>2, <1>4 DEF IsEntry
<1>6. EntryOf(v, stmt.index)
  BY <1>2, <1>3, <1>4, <1>5 DEF EntryOf
<1> QED BY <1>1, <1>6 DEF Sound, Op

LEMMA TheEntries ==
    /\ Entry("idx_events_created_at") = IndexSince(2, "events", "created")
    /\ Entry("idx_events_git_branch") = IndexSince(2, "events", "branch only")
    /\ Entry("idx_events_created_at_id") = IndexSince(2, "events", "created, id")
    /\ Entry("idx_event_archive_created_at") = IndexSince(3, "event_archive", "created")
    /\ Entry("idx_git_context_scope_path") = IndexSince(4, "git_context", "scope")
    /\ Entry("idx_sync_cursors_owner") = IndexSince(4, "sync_cursors", "owner")
    /\ Entry("idx_dependencies_edge") = IndexSince(5, "dependencies", "edge")
    /\ Entry("idx_dependencies_depends_on_kind") = IndexSince(7, "dependencies", "target, kind")
    /\ Entry("idx_tasks_owner") = IndexSince(7, "tasks", "owner")
    /\ Entry("idx_subtasks_owner") = IndexSince(7, "subtasks", "owner")
    /\ Entry("idx_conflicts_resolution_updated_at") = IndexSince(7, "sync_conflicts", "updated")
    /\ Entry("idx_events_branch_cursor") = IndexSince(8, "events", "branch")
    /\ Entry("idx_events_entity_branch_cursor") = IndexSince(8, "events", "entity")
    /\ Entry("idx_conflicts_resolution_entity_field_id") = IndexSince(8, "sync_conflicts",
      "resolution")
    /\ Entry("idx_board_idempotency_created_at") = IndexSince(9, "board_idempotency_keys",
      "created")
    /\ Entry("idx_board_idempotency_state_created_at") = IndexSince(10, "board_idempotency_keys",
      "state")
    /\ Entry("idx_sync_conflicts_scope_entity") = IndexSince(11, "sync_conflicts", "entity")
    /\ Entry("idx_sync_conflicts_scope_resolution") = IndexSince(11, "sync_conflicts", "scope")
    /\ Entry("idx_dependencies_source") = IndexSince(12, "dependencies", "source, kind")
    /\ Entry("idx_dependencies_target") = IndexSince(12, "dependencies", "target, kind")
    /\ Entry("uniq_dependencies_edge") = IndexSince(12, "dependencies", "edge, kinds")
    /\ Entry("idx_tasks_epic_created") = IndexSince(13, "tasks", "epic")
    /\ Entry("idx_subtasks_task_created") = IndexSince(13, "subtasks", "task")
<1>1. Entry("idx_events_created_at") = IndexSince(2, "events", "created")
  BY DEF Entry
<1>2. Entry("idx_events_git_branch") = IndexSince(2, "events", "branch only")
  BY DEF Entry
<1>3. Entry("idx_events_created_at_id") = IndexSince(2, "events", "created, id")
  BY DEF Entry
<1>4. Entry("idx_event_archive_created_at") = IndexSince(3, "event_archive", "created")
  BY DEF Entry
<1>5. Entry("idx_git_context_scope_path") = IndexSince(4, "git_context", "scope")
  BY DEF Entry
<1>6. Entry("idx_sync_cursors_owner") = IndexSince(4, "sync_cursors", "owner")
  BY DEF Entry
<1>7. Entry("idx_dependencies_edge") = IndexSince(5, "dependencies", "edge")
  BY DEF Entry
<1>8. Entry("idx_dependencies_depends_on_kind") = IndexSince(7, "dependencies", "target, kind")
  BY DEF Entry
<1>9. Entry("idx_tasks_owner") = IndexSince(7, "tasks", "owner")
  BY DEF Entry
<1>10. Entry("idx_subtasks_owner") = IndexSince(7, "subtasks", "owner")
  BY DEF Entry
<1>11. Entry("idx_conflicts_resolution_updated_at") = IndexSince(7, "sync_conflicts", "updated")
  BY DEF Entry
<1>12. Entry("idx_events_branch_cursor") = IndexSince(8, "events", "branch")
  BY DEF Entry
<1>13. Entry("idx_events_entity_branch_cursor") = IndexSince(8, "events", "entity")
  BY DEF Entry
<1>14. Entry("idx_conflicts_resolution_entity_field_id") = IndexSince(8, "sync_conflicts",
         "resolution")
  BY DEF Entry
<1>15. Entry("idx_board_idempotency_created_at") = IndexSince(9, "board_idempotency_keys",
         "created")
  BY DEF Entry
<1>16. Entry("idx_board_idempotency_state_created_at") = IndexSince(10, "board_idempotency_keys",
         "state")
  BY DEF Entry
<1>17. Entry("idx_sync_conflicts_scope_entity") = IndexSince(11, "sync_conflicts", "entity")
  BY DEF Entry
<1>18. Entry("idx_sync_conflicts_scope_resolution") = IndexSince(11, "sync_conflicts", "scope")
  BY DEF Entry
<1>19. Entry("idx_dependencies_source") = IndexSince(12, "dependencies", "source, kind")
  BY DEF Entry
<1>20. Entry("idx_dependencies_target") = IndexSince(12, "dependencies", "target, kind")
  BY DEF Entry
<1>21. Entry("uniq_dependencies_edge") = IndexSince(12, "dependencies", "edge, kinds")
  BY DEF Entry
<1>22. Entry("idx_tasks_epic_created") = IndexSince(13, "tasks", "epic")
  BY DEF Entry
<1>23. Entry("idx_subtasks_task_created") = IndexSince(13, "subtasks", "task")
  BY DEF Entry
<1> QED BY <1>1, <1>2, <1>3, <1>4, <1>5, <1>6, <1>7, <1>8, <1>9, <1>10, <1>11, <1>12, <1>13, <1>14,
             <1>15, <1>16, <1>17, <1>18, <1>19, <1>20, <1>21, <1>22, <1>23

LEMMA TheTables ==
    /\ TableSince("event_archive") = 3 /\ TableSince("board_idempotency_keys") = 9
    /\ TableSince("epics") = 1
    /\ TableSince("tasks") = 1
    /\ TableSince("subtasks") = 1
    /\ TableSince("dependencies") = 1
    /\ TableSince("events") = 1
    /\ TableSince("git_context") = 1
    /\ TableSince("sync_cursors") = 1
    /\ TableSince("sync_conflicts") = 1
BY DEF TableSince

LEMMA Sound2 ==
    LET s == UpStatements[2] IN
    DOMAIN s = 1 .. Len(s) /\ Len(s) = 5 /\ \A k \in 1 .. Len(s) : Sound(2, s[k])
<1> DEFINE s == UpStatements[2]
<1>1. DOMAIN s = 1 .. 5 /\ Len(s) = 5
  <2>1. DOMAIN s = 1 .. 5
    BY DEF UpStatements
  <2> QED BY Up2, <2>1
<1>2. Sound(2, s[1])
  <2>1. IsIndex(s[1], "idx_events_created_at", "events", "created", {})
    BY Up2
  <2>2. Entry("idx_events_created_at") = IndexSince(2, "events", "created")
    BY TheEntries
  <2>3. TableSince("events") <= 2
    BY TheTables
  <2>4. ~Outdated("idx_events_created_at", "created")
    BY DEF Outdated
  <2> HIDE DEF s
  <2> QED BY <2>1, <2>2, <2>3, <2>4, IndexSound
<1>3. Sound(2, s[2])
  <2>1. IsIndex(s[2], "idx_events_git_branch", "events", "branch only", {})
    BY Up2
  <2>2. Entry("idx_events_git_branch") = IndexSince(2, "events", "branch only")
    BY TheEntries
  <2>3. TableSince("events") <= 2
    BY TheTables
  <2>4. ~Outdated("idx_events_git_branch", "branch only")
    BY DEF Outdated
  <2> HIDE DEF s
  <2> QED BY <2>1, <2>2, <2>3, <2>4, IndexSound
<1>4. Sound(2, s[3])
  <2>1. IsIndex(s[3], "idx_events_created_at_id", "events", "created, id", {})
    BY Up2
  <2>2. Entry("idx_events_created_at_id") = IndexSince(2, "events", "created, id")
    BY TheEntries
  <2>3. TableSince("events") <= 2
    BY TheTables
  <2>4. ~Outdated("idx_events_created_at_id", "created, id")
    BY DEF Outdated
  <2> HIDE DEF s
  <2> QED BY <2>1, <2>2, <2>3, <2>4, IndexSound
<1>5. Sound(2, s[4])
  <2>1. s[4].op = "index" /\ s[4].index \in Superseded
    BY Up2 DEF IsIndex, Superseded, Index, IndexOn
  <2> QED BY <2>1 DEF Sound, Op
<1>6. Sound(2, s[5])
  <2>1. s[5].op = "index" /\ s[5].index \in Superseded
    BY Up2 DEF IsIndex, Superseded, Index, IndexOn
  <2> QED BY <2>1 DEF Sound, Op
<1> HIDE DEF s
<1>7. \A k \in 1 .. 5 : Sound(2, s[k])
  BY <1>2, <1>3, <1>4, <1>5, <1>6
<1> QED BY <1>1, <1>7 DEF s

LEMMA Sound3 ==
    LET s == UpStatements[3] IN
    DOMAIN s = 1 .. Len(s) /\ Len(s) = 2 /\ \A k \in 1 .. Len(s) : Sound(3, s[k])
<1> DEFINE s == UpStatements[3]
<1>1. DOMAIN s = 1 .. 2 /\ Len(s) = 2
  <2>1. DOMAIN s = 1 .. 2
    BY DEF UpStatements
  <2> QED BY Up3, <2>1
<1>2. Sound(3, s[1])
  BY Up3, TheTables DEF Sound, Op, IsTable
<1>3. Sound(3, s[2])
  <2>1. IsIndex(s[2], "idx_event_archive_created_at", "event_archive", "created", {})
    BY Up3
  <2>2. Entry("idx_event_archive_created_at") = IndexSince(3, "event_archive", "created")
    BY TheEntries
  <2>3. TableSince("event_archive") <= 3
    BY TheTables
  <2>4. ~Outdated("idx_event_archive_created_at", "created")
    BY DEF Outdated
  <2> HIDE DEF s
  <2> QED BY <2>1, <2>2, <2>3, <2>4, IndexSound
<1> HIDE DEF s
<1>4. \A k \in 1 .. 2 : Sound(3, s[k])
  BY <1>2, <1>3
<1> QED BY <1>1, <1>4 DEF s

LEMMA Sound4 ==
    LET s == UpStatements[4] IN
    DOMAIN s = 1 .. Len(s) /\ Len(s) = 4 /\ \A k \in 1 .. Len(s) : Sound(4, s[k])
<1> DEFINE s == UpStatements[4]
<1>1. DOMAIN s = 1 .. 4 /\ Len(s) = 4
  <2>1. DOMAIN s = 1 .. 4
    BY DEF UpStatements, SyncMetadata
  <2> QED BY Up4, <2>1
<1>2. Sound(4, s[1])
  BY Up4, TheTables DEF Sound, Op, IsColumn
<1>3. Sound(4, s[2])
  <2>1. IsIndex(s[2], "idx_git_context_scope_path", "git_context", "scope", {"metadata_scope"})
    BY Up4
  <2>2. Entry("idx_git_context_scope_path") = IndexSince(4, "git_context", "scope")
    BY TheEntries
  <2>3. TableSince("git_context") <= 4
    BY TheTables
  <2>4. ~Outdated("idx_git_context_scope_path", "scope")
    BY DEF Outdated
  <2> HIDE DEF s
  <2> QED BY <2>1, <2>2, <2>3, <2>4, IndexSound
<1>4. Sound(4, s[3])
  BY Up4, TheTables DEF Sound, Op, IsColumn
<1>5. Sound(4, s[4])
  <2>1. IsIndex(s[4], "idx_sync_cursors_owner", "sync_cursors", "owner", {"owner"})
    BY Up4
  <2>2. Entry("idx_sync_cursors_owner") = IndexSince(4, "sync_cursors", "owner")
    BY TheEntries
  <2>3. TableSince("sync_cursors") <= 4
    BY TheTables
  <2>4. ~Outdated("idx_sync_cursors_owner", "owner")
    BY DEF Outdated
  <2> HIDE DEF s
  <2> QED BY <2>1, <2>2, <2>3, <2>4, IndexSound
<1> HIDE DEF s
<1>6. \A k \in 1 .. 4 : Sound(4, s[k])
  BY <1>2, <1>3, <1>4, <1>5
<1> QED BY <1>1, <1>6 DEF s

LEMMA Sound5 ==
    LET s == UpStatements[5] IN
    DOMAIN s = 1 .. Len(s) /\ Len(s) = 1 /\ \A k \in 1 .. Len(s) : Sound(5, s[k])
<1> DEFINE s == UpStatements[5]
<1>1. DOMAIN s = 1 .. 1 /\ Len(s) = 1
  <2>1. DOMAIN s = 1 .. 1
    BY DEF UpStatements
  <2> QED BY Up5, <2>1
<1>2. Sound(5, s[1])
  <2>1. IsIndex(s[1], "idx_dependencies_edge", "dependencies", "edge", {})
    BY Up5
  <2>2. Entry("idx_dependencies_edge") = IndexSince(5, "dependencies", "edge")
    BY TheEntries
  <2>3. TableSince("dependencies") <= 5
    BY TheTables
  <2>4. ~Outdated("idx_dependencies_edge", "edge")
    BY DEF Outdated
  <2> HIDE DEF s
  <2> QED BY <2>1, <2>2, <2>3, <2>4, IndexSound
<1> HIDE DEF s
<1>3. \A k \in 1 .. 1 : Sound(5, s[k])
  BY <1>2
<1> QED BY <1>1, <1>3 DEF s

LEMMA Sound6 ==
    LET s == UpStatements[6] IN
    DOMAIN s = 1 .. Len(s) /\ Len(s) = 2 /\ \A k \in 1 .. Len(s) : Sound(6, s[k])
<1> DEFINE s == UpStatements[6]
<1>1. DOMAIN s = 1 .. 2 /\ Len(s) = 2
  <2>1. DOMAIN s = 1 .. 2
    BY DEF UpStatements
  <2> QED BY Up6, <2>1
<1>2. Sound(6, s[1])
  BY Up6, TheTables DEF Sound, Op, IsColumn
<1>3. Sound(6, s[2])
  BY Up6, TheTables DEF Sound, Op, IsColumn
<1> HIDE DEF s
<1>4. \A k \in 1 .. 2 : Sound(6, s[k])
  BY <1>2, <1>3
<1> QED BY <1>1, <1>4 DEF s

LEMMA Sound7 ==
    LET s == UpStatements[7] IN
    DOMAIN s = 1 .. Len(s) /\ Len(s) = 4 /\ \A k \in 1 .. Len(s) : Sound(7, s[k])
<1> DEFINE s == UpStatements[7]
<1>1. DOMAIN s = 1 .. 4 /\ Len(s) = 4
  <2>1. DOMAIN s = 1 .. 4
    BY DEF UpStatements
  <2> QED BY Up7, <2>1
<1>2. Sound(7, s[1])
  <2>1. IsIndex(s[1], "idx_dependencies_depends_on_kind", "dependencies", "target, kind", {})
    BY Up7
  <2>2. Entry("idx_dependencies_depends_on_kind") = IndexSince(7, "dependencies", "target, kind")
    BY TheEntries
  <2>3. TableSince("dependencies") <= 7
    BY TheTables
  <2>4. ~Outdated("idx_dependencies_depends_on_kind", "target, kind")
    BY DEF Outdated
  <2> HIDE DEF s
  <2> QED BY <2>1, <2>2, <2>3, <2>4, IndexSound
<1>3. Sound(7, s[2])
  <2>1. IsIndex(s[2], "idx_tasks_owner", "tasks", "owner", {"owner"})
    BY Up7
  <2>2. Entry("idx_tasks_owner") = IndexSince(7, "tasks", "owner")
    BY TheEntries
  <2>3. TableSince("tasks") <= 7
    BY TheTables
  <2>4. ~Outdated("idx_tasks_owner", "owner")
    BY DEF Outdated
  <2> HIDE DEF s
  <2> QED BY <2>1, <2>2, <2>3, <2>4, IndexSound
<1>4. Sound(7, s[3])
  <2>1. IsIndex(s[3], "idx_subtasks_owner", "subtasks", "owner", {"owner"})
    BY Up7
  <2>2. Entry("idx_subtasks_owner") = IndexSince(7, "subtasks", "owner")
    BY TheEntries
  <2>3. TableSince("subtasks") <= 7
    BY TheTables
  <2>4. ~Outdated("idx_subtasks_owner", "owner")
    BY DEF Outdated
  <2> HIDE DEF s
  <2> QED BY <2>1, <2>2, <2>3, <2>4, IndexSound
<1>5. Sound(7, s[4])
  <2>1. IsIndex(s[4], "idx_conflicts_resolution_updated_at", "sync_conflicts", "updated", {})
    BY Up7
  <2>2. Entry("idx_conflicts_resolution_updated_at") = IndexSince(7, "sync_conflicts", "updated")
    BY TheEntries
  <2>3. TableSince("sync_conflicts") <= 7
    BY TheTables
  <2>4. ~Outdated("idx_conflicts_resolution_updated_at", "updated")
    BY DEF Outdated
  <2> HIDE DEF s
  <2> QED BY <2>1, <2>2, <2>3, <2>4, IndexSound
<1> HIDE DEF s
<1>6. \A k \in 1 .. 4 : Sound(7, s[k])
  BY <1>2, <1>3, <1>4, <1>5
<1> QED BY <1>1, <1>6 DEF s

LEMMA Sound8 ==
    LET s == UpStatements[8] IN
    DOMAIN s = 1 .. Len(s) /\ Len(s) = 3 /\ \A k \in 1 .. Len(s) : Sound(8, s[k])
<1> DEFINE s == UpStatements[8]
<1>1. DOMAIN s = 1 .. 3 /\ Len(s) = 3
  <2>1. DOMAIN s = 1 .. 3
    BY DEF UpStatements
  <2> QED BY Up8, <2>1
<1>2. Sound(8, s[1])
  <2>1. IsIndex(s[1], "idx_events_branch_cursor", "events", "branch", {})
    BY Up8
  <2>2. Entry("idx_events_branch_cursor") = IndexSince(8, "events", "branch")
    BY TheEntries
  <2>3. TableSince("events") <= 8
    BY TheTables
  <2>4. ~Outdated("idx_events_branch_cursor", "branch")
    BY DEF Outdated
  <2> HIDE DEF s
  <2> QED BY <2>1, <2>2, <2>3, <2>4, IndexSound
<1>3. Sound(8, s[2])
  <2>1. IsIndex(s[2], "idx_events_entity_branch_cursor", "events", "entity", {})
    BY Up8
  <2>2. Entry("idx_events_entity_branch_cursor") = IndexSince(8, "events", "entity")
    BY TheEntries
  <2>3. TableSince("events") <= 8
    BY TheTables
  <2>4. ~Outdated("idx_events_entity_branch_cursor", "entity")
    BY DEF Outdated
  <2> HIDE DEF s
  <2> QED BY <2>1, <2>2, <2>3, <2>4, IndexSound
<1>4. Sound(8, s[3])
  <2>1. IsIndex(s[3], "idx_conflicts_resolution_entity_field_id", "sync_conflicts", "resolution",
          {})
    BY Up8
  <2>2. Entry("idx_conflicts_resolution_entity_field_id") = IndexSince(8, "sync_conflicts",
          "resolution")
    BY TheEntries
  <2>3. TableSince("sync_conflicts") <= 8
    BY TheTables
  <2>4. ~Outdated("idx_conflicts_resolution_entity_field_id", "resolution")
    BY DEF Outdated
  <2> HIDE DEF s
  <2> QED BY <2>1, <2>2, <2>3, <2>4, IndexSound
<1> HIDE DEF s
<1>5. \A k \in 1 .. 3 : Sound(8, s[k])
  BY <1>2, <1>3, <1>4
<1> QED BY <1>1, <1>5 DEF s

LEMMA Sound9 ==
    LET s == UpStatements[9] IN
    DOMAIN s = 1 .. Len(s) /\ Len(s) = 2 /\ \A k \in 1 .. Len(s) : Sound(9, s[k])
<1> DEFINE s == UpStatements[9]
<1>1. DOMAIN s = 1 .. 2 /\ Len(s) = 2
  <2>1. DOMAIN s = 1 .. 2
    BY DEF UpStatements
  <2> QED BY Up9, <2>1
<1>2. Sound(9, s[1])
  BY Up9, TheTables DEF Sound, Op, IsTable
<1>3. Sound(9, s[2])
  <2>1. IsIndex(s[2], "idx_board_idempotency_created_at", "board_idempotency_keys", "created", {})
    BY Up9
  <2>2. Entry("idx_board_idempotency_created_at") = IndexSince(9, "board_idempotency_keys",
          "created")
    BY TheEntries
  <2>3. TableSince("board_idempotency_keys") <= 9
    BY TheTables
  <2>4. ~Outdated("idx_board_idempotency_created_at", "created")
    BY DEF Outdated
  <2> HIDE DEF s
  <2> QED BY <2>1, <2>2, <2>3, <2>4, IndexSound
<1> HIDE DEF s
<1>4. \A k \in 1 .. 2 : Sound(9, s[k])
  BY <1>2, <1>3
<1> QED BY <1>1, <1>4 DEF s

LEMMA Sound10 ==
    LET s == UpStatements[10] IN
    DOMAIN s = 1 .. Len(s) /\ Len(s) = 1 /\ \A k \in 1 .. Len(s) : Sound(10, s[k])
<1> DEFINE s == UpStatements[10]
<1>1. DOMAIN s = 1 .. 1 /\ Len(s) = 1
  <2>1. DOMAIN s = 1 .. 1
    BY DEF UpStatements
  <2> QED BY Up10, <2>1
<1>2. Sound(10, s[1])
  <2>1. IsIndex(s[1], "idx_board_idempotency_state_created_at", "board_idempotency_keys", "state",
          {"state"})
    BY Up10
  <2>2. Entry("idx_board_idempotency_state_created_at") = IndexSince(10, "board_idempotency_keys",
          "state")
    BY TheEntries
  <2>3. TableSince("board_idempotency_keys") <= 10
    BY TheTables
  <2>4. ~Outdated("idx_board_idempotency_state_created_at", "state")
    BY DEF Outdated
  <2> HIDE DEF s
  <2> QED BY <2>1, <2>2, <2>3, <2>4, IndexSound
<1> HIDE DEF s
<1>3. \A k \in 1 .. 1 : Sound(10, s[k])
  BY <1>2
<1> QED BY <1>1, <1>3 DEF s

LEMMA Sound11 ==
    LET s == UpStatements[11] IN
    DOMAIN s = 1 .. Len(s) /\ Len(s) = 3 /\ \A k \in 1 .. Len(s) : Sound(11, s[k])
<1> DEFINE s == UpStatements[11]
<1>1. DOMAIN s = 1 .. 3 /\ Len(s) = 3
  <2>1. DOMAIN s = 1 .. 3
    BY DEF UpStatements, ConflictScope
  <2> QED BY Up11, <2>1
<1>2. Sound(11, s[1])
  BY Up11, TheTables DEF Sound, Op, IsColumn
<1>3. Sound(11, s[2])
  <2>1. IsIndex(s[2], "idx_sync_conflicts_scope_entity", "sync_conflicts", "entity", {"scope"})
    BY Up11
  <2>2. Entry("idx_sync_conflicts_scope_entity") = IndexSince(11, "sync_conflicts", "entity")
    BY TheEntries
  <2>3. TableSince("sync_conflicts") <= 11
    BY TheTables
  <2>4. ~Outdated("idx_sync_conflicts_scope_entity", "entity")
    BY DEF Outdated
  <2> HIDE DEF s
  <2> QED BY <2>1, <2>2, <2>3, <2>4, IndexSound
<1>4. Sound(11, s[3])
  <2>1. IsIndex(s[3], "idx_sync_conflicts_scope_resolution", "sync_conflicts", "scope", {"scope"})
    BY Up11
  <2>2. Entry("idx_sync_conflicts_scope_resolution") = IndexSince(11, "sync_conflicts", "scope")
    BY TheEntries
  <2>3. TableSince("sync_conflicts") <= 11
    BY TheTables
  <2>4. ~Outdated("idx_sync_conflicts_scope_resolution", "scope")
    BY DEF Outdated
  <2> HIDE DEF s
  <2> QED BY <2>1, <2>2, <2>3, <2>4, IndexSound
<1> HIDE DEF s
<1>5. \A k \in 1 .. 3 : Sound(11, s[k])
  BY <1>2, <1>3, <1>4
<1> QED BY <1>1, <1>5 DEF s

LEMMA Sound12 ==
    LET s == UpStatements[12] IN
    DOMAIN s = 1 .. Len(s) /\ Len(s) = 5 /\ \A k \in 1 .. Len(s) : Sound(12, s[k])
<1> DEFINE s == UpStatements[12]
<1>1. DOMAIN s = 1 .. 5 /\ Len(s) = 5
  <2>1. DOMAIN s = 1 .. 5
    BY DEF UpStatements, DependencyKinds
  <2> QED BY Up12, <2>1
<1>2. Sound(12, s[1])
  <2>1. s[1].op = "drop index" /\ s[1].name = "idx_dependencies_source"
    BY Up12 DEF IsDropIndex
  <2>2. Entry("idx_dependencies_source").since \in {0, 12}
    BY DEF Entry, IndexSince
  <2>3. Entry("idx_dependencies_source").since \notin 1 .. (12 - 1)
    BY <2>2
  <2> HIDE DEF s
  <2> QED BY <2>1, <2>3 DEF Sound, Op
<1>3. Sound(12, s[2])
  <2>1. s[2].op = "drop index" /\ s[2].name = "idx_dependencies_depends_on"
    BY Up12 DEF IsDropIndex
  <2>2. Entry("idx_dependencies_depends_on").since \in {0, 12}
    BY DEF Entry, IndexSince
  <2>3. Entry("idx_dependencies_depends_on").since \notin 1 .. (12 - 1)
    BY <2>2
  <2> HIDE DEF s
  <2> QED BY <2>1, <2>3 DEF Sound, Op
<1>4. Sound(12, s[3])
  <2>1. IsIndex(s[3], "idx_dependencies_source", "dependencies", "source, kind", {})
    BY Up12
  <2>2. Entry("idx_dependencies_source") = IndexSince(12, "dependencies", "source, kind")
    BY TheEntries
  <2>3. TableSince("dependencies") <= 12
    BY TheTables
  <2>4. ~Outdated("idx_dependencies_source", "source, kind")
    BY DEF Outdated
  <2> HIDE DEF s
  <2> QED BY <2>1, <2>2, <2>3, <2>4, IndexSound
<1>5. Sound(12, s[4])
  <2>1. IsIndex(s[4], "idx_dependencies_target", "dependencies", "target, kind", {})
    BY Up12
  <2>2. Entry("idx_dependencies_target") = IndexSince(12, "dependencies", "target, kind")
    BY TheEntries
  <2>3. TableSince("dependencies") <= 12
    BY TheTables
  <2>4. ~Outdated("idx_dependencies_target", "target, kind")
    BY DEF Outdated
  <2> HIDE DEF s
  <2> QED BY <2>1, <2>2, <2>3, <2>4, IndexSound
<1>6. Sound(12, s[5])
  <2>1. IsIndex(s[5], "uniq_dependencies_edge", "dependencies", "edge, kinds", {})
    BY Up12
  <2>2. Entry("uniq_dependencies_edge") = IndexSince(12, "dependencies", "edge, kinds")
    BY TheEntries
  <2>3. TableSince("dependencies") <= 12
    BY TheTables
  <2>4. ~Outdated("uniq_dependencies_edge", "edge, kinds")
    BY DEF Outdated
  <2> HIDE DEF s
  <2> QED BY <2>1, <2>2, <2>3, <2>4, IndexSound
<1> HIDE DEF s
<1>7. \A k \in 1 .. 5 : Sound(12, s[k])
  BY <1>2, <1>3, <1>4, <1>5, <1>6
<1> QED BY <1>1, <1>7 DEF s

LEMMA Sound13 ==
    LET s == UpStatements[13] IN
    DOMAIN s = 1 .. Len(s) /\ Len(s) = 2 /\ \A k \in 1 .. Len(s) : Sound(13, s[k])
<1> DEFINE s == UpStatements[13]
<1>1. DOMAIN s = 1 .. 2 /\ Len(s) = 2
  <2>1. DOMAIN s = 1 .. 2
    BY DEF UpStatements
  <2> QED BY Up13, <2>1
<1>2. Sound(13, s[1])
  <2>1. IsIndex(s[1], "idx_tasks_epic_created", "tasks", "epic", {})
    BY Up13
  <2>2. Entry("idx_tasks_epic_created") = IndexSince(13, "tasks", "epic")
    BY TheEntries
  <2>3. TableSince("tasks") <= 13
    BY TheTables
  <2>4. ~Outdated("idx_tasks_epic_created", "epic")
    BY DEF Outdated
  <2> HIDE DEF s
  <2> QED BY <2>1, <2>2, <2>3, <2>4, IndexSound
<1>3. Sound(13, s[2])
  <2>1. IsIndex(s[2], "idx_subtasks_task_created", "subtasks", "task", {})
    BY Up13
  <2>2. Entry("idx_subtasks_task_created") = IndexSince(13, "subtasks", "task")
    BY TheEntries
  <2>3. TableSince("subtasks") <= 13
    BY TheTables
  <2>4. ~Outdated("idx_subtasks_task_created", "task")
    BY DEF Outdated
  <2> HIDE DEF s
  <2> QED BY <2>1, <2>2, <2>3, <2>4, IndexSound
<1> HIDE DEF s
<1>4. \A k \in 1 .. 2 : Sound(13, s[k])
  BY <1>2, <1>3
<1> QED BY <1>1, <1>4 DEF s

----------------------------------------------------------------------------
(* What a version makes, and what is there since *)

LEMMA SoundVersion ==
    ASSUME NEW v \in 2 .. 13
    PROVE  LET s == UpStatements[v] IN
           /\ DOMAIN s = 1 .. Len(s) /\ Len(s) \in Nat
           /\ \A k \in 1 .. Len(s) : Sound(v, s[k])
<1> DEFINE Goal(u) == LET s == UpStatements[u] IN
                      /\ DOMAIN s = 1 .. Len(s) /\ Len(s) \in Nat
                      /\ \A k \in 1 .. Len(s) : Sound(u, s[k])
<1>2. Goal(2)
  BY Sound2
<1>3. Goal(3)
  BY Sound3
<1>4. Goal(4)
  BY Sound4
<1>5. Goal(5)
  BY Sound5
<1>6. Goal(6)
  BY Sound6
<1>7. Goal(7)
  BY Sound7
<1>8. Goal(8)
  BY Sound8
<1>9. Goal(9)
  BY Sound9
<1>10. Goal(10)
  BY Sound10
<1>11. Goal(11)
  BY Sound11
<1>12. Goal(12)
  BY Sound12
<1>13. Goal(13)
  BY Sound13
<1>14. Goal(v)
  <2> HIDE DEF Goal
  <2> QED BY <1>2, <1>3, <1>4, <1>5, <1>6, <1>7, <1>8, <1>9, <1>10, <1>11, <1>12, <1>13
<1> QED BY <1>14

\* The sets of a version, by the positions of its statements.
LEMMA OfVersion ==
    ASSUME NEW v, DOMAIN UpStatements[v] = 1 .. Len(UpStatements[v])
    PROVE  LET s == UpStatements[v]
               N == Len(s)
           IN  /\ \A t \in TablesOf(v) : \E k \in 1 .. N : s[k].op = "table" /\ s[k].table = t
               /\ \A c \in ColumnsOf(v) :
                     \E k \in 1 .. N : s[k].op = "column" /\ c = <<s[k].table, s[k].column>>
               /\ \A i \in IndexesOf(v) : \E k \in 1 .. N : s[k].op = "index" /\ s[k].index = i
               /\ \A k \in 1 .. N :
                     /\ s[k].op = "table" => s[k].table \in TablesOf(v)
                     /\ s[k].op = "column" => <<s[k].table, s[k].column>> \in ColumnsOf(v)
                     /\ s[k].op = "index" => s[k].index \in IndexesOf(v)
<1> DEFINE s == UpStatements[v]
           N == Len(s)
<1>1. ToSet(s) = {s[k] : k \in 1 .. N}
  BY DEF ToSet
<1> HIDE DEF s, N
<1>2. TablesOf(v) = {e.table : e \in {e \in ToSet(s) : e.op = "table"}}
  BY DEF TablesOf, s
<1>3. ColumnsOf(v) = {<<e.table, e.column>> : e \in {e \in ToSet(s) : e.op = "column"}}
  BY DEF ColumnsOf, s
<1>4. IndexesOf(v) = {e.index : e \in {e \in ToSet(s) : e.op = "index"}}
  BY DEF IndexesOf, s
<1>5. \A t \in TablesOf(v) : \E k \in 1 .. N : s[k].op = "table" /\ s[k].table = t
  BY <1>1, <1>2
<1>6. \A c \in ColumnsOf(v) : \E k \in 1 .. N : s[k].op = "column" /\ c = <<s[k].table,
        s[k].column>>
  BY <1>1, <1>3
<1>7. \A i \in IndexesOf(v) : \E k \in 1 .. N : s[k].op = "index" /\ s[k].index = i
  BY <1>1, <1>4
<1>8. ASSUME NEW k \in 1 .. N
      PROVE  /\ s[k].op = "table" => s[k].table \in TablesOf(v)
             /\ s[k].op = "column" => <<s[k].table, s[k].column>> \in ColumnsOf(v)
             /\ s[k].op = "index" => s[k].index \in IndexesOf(v)
  <2>1. s[k] \in ToSet(s)
    BY <1>1
  <2> QED BY <2>1, <1>2, <1>3, <1>4
<1> QED BY <1>5, <1>6, <1>7, <1>8 DEF s, N

\* The statements of the base migration.
LEMMA BaseStatement ==
    LET s == UpStatements[1] IN
    /\ DOMAIN s = 1 .. Len(s) /\ Len(s) = 23
    /\ \A k \in 1 .. 9 : s[k] = BaseTables[k] /\ s[k].op = "table"
    /\ \A k \in 10 .. 23 : s[k] = BaseIndexes[k - 9] /\ s[k].op = "index"
<1>1. \A k \in 1 .. 9 : BaseTables[k].op = "table"
  <2>1. /\ BaseTables[1].op = "table" /\ BaseTables[2].op = "table" /\ BaseTables[3].op = "table"
        /\ BaseTables[4].op = "table" /\ BaseTables[5].op = "table" /\ BaseTables[6].op = "table"
        /\ BaseTables[7].op = "table" /\ BaseTables[8].op = "table" /\ BaseTables[9].op = "table"
    BY UpTables DEF IsTable
  <2> QED BY <2>1
<1>2. \A k \in 1 .. 14 : BaseIndexes[k].op = "index"
  <2>1. /\ BaseIndexes[1].op = "index" /\ BaseIndexes[2].op = "index" /\ BaseIndexes[3].op = "index"
        /\ BaseIndexes[4].op = "index" /\ BaseIndexes[5].op = "index" /\ BaseIndexes[6].op = "index"
        /\ BaseIndexes[7].op = "index" /\ BaseIndexes[8].op = "index" /\ BaseIndexes[9].op = "index"
        /\ BaseIndexes[10].op = "index" /\ BaseIndexes[11].op = "index"
          /\ BaseIndexes[12].op = "index"
        /\ BaseIndexes[13].op = "index" /\ BaseIndexes[14].op = "index"
    BY UpIndexes DEF IsIndex
  <2> QED BY <2>1
<1>3. \A k \in 10 .. 23 : k - 9 \in 1 .. 14
  OBVIOUS
<1> QED BY Up1, <1>1, <1>2, <1>3

LEMMA SinceTables ==
    \A v \in 1 .. 13 : \A t \in TablesSince(v) : TableSince(t) = v
<1>1. ASSUME NEW v \in 2 .. 13, NEW t \in TablesSince(v) PROVE TableSince(t) = v
  <2>1. t \in TablesOf(v)
    BY DEF TablesSince
  <2>2. DOMAIN UpStatements[v] = 1 .. Len(UpStatements[v])
    BY SoundVersion
  <2>3. PICK k \in 1 .. Len(UpStatements[v]) :
           UpStatements[v][k].op = "table" /\ UpStatements[v][k].table = t
    BY <2>1, <2>2, OfVersion
  <2>4. Sound(v, UpStatements[v][k])
    BY SoundVersion
  <2> QED BY <2>3, <2>4 DEF Sound
<1>2. ASSUME NEW t \in TablesSince(1) PROVE TableSince(t) = 1
  <2>1. t \in TablesOf(1) \ TablesOf(9)
    BY DEF TablesSince
  <2>2. PICK k \in 1 .. 23 : UpStatements[1][k].op = "table" /\ UpStatements[1][k].table = t
    <3>1. DOMAIN UpStatements[1] = 1 .. Len(UpStatements[1])
      BY BaseStatement
    <3>2. \E k \in 1 .. Len(UpStatements[1]) :
             UpStatements[1][k].op = "table" /\ UpStatements[1][k].table = t
      BY <2>1, <3>1, OfVersion
    <3>3. Len(UpStatements[1]) = 23
      BY BaseStatement
    <3> QED BY <3>2, <3>3
  <2>3. k \in 1 .. 9
    <3>1. k \in 10 .. 23 => UpStatements[1][k].op = "index"
      BY BaseStatement
    <3> QED BY <2>2, <3>1
  <2>4. t = BaseTables[k].table
    BY <2>2, <2>3, BaseStatement
  <2>5. t # "board_idempotency_keys"
    <3>1. UpStatements[9][1].op = "table" /\ UpStatements[9][1].table = "board_idempotency_keys"
      BY Up9 DEF IsTable
    <3>2. DOMAIN UpStatements[9] = 1 .. Len(UpStatements[9]) /\ 1 \in 1 .. Len(UpStatements[9])
      BY Sound9
    <3>3. UpStatements[9][1].table \in TablesOf(9)
      BY <3>1, <3>2, OfVersion
    <3> QED BY <2>1, <3>1, <3>3
  <2>6. t # "event_archive"
    <3>1. /\ BaseTables[1].table # "event_archive" /\ BaseTables[2].table # "event_archive"
          /\ BaseTables[3].table # "event_archive" /\ BaseTables[4].table # "event_archive"
          /\ BaseTables[5].table # "event_archive" /\ BaseTables[6].table # "event_archive"
          /\ BaseTables[7].table # "event_archive" /\ BaseTables[8].table # "event_archive"
          /\ BaseTables[9].table # "event_archive"
      BY UpTables DEF IsTable
    <3> QED BY <2>3, <2>4, <3>1
  <2> QED BY <2>5, <2>6 DEF TableSince
<1> QED BY <1>1, <1>2

LEMMA SinceColumns ==
    \A v \in 1 .. 13 : \A c \in ColumnsSince(v) : TableSince(c[1]) < v
<1>1. ASSUME NEW v \in 2 .. 13, v # 10, NEW c \in ColumnsSince(v) PROVE TableSince(c[1]) < v
  <2>1. c \in ColumnsOf(v)
    BY <1>1 DEF ColumnsSince
  <2>2. DOMAIN UpStatements[v] = 1 .. Len(UpStatements[v])
    BY SoundVersion
  <2>3. PICK k \in 1 .. Len(UpStatements[v]) :
           UpStatements[v][k].op = "column" /\ c = <<UpStatements[v][k].table,
             UpStatements[v][k].column>>
    BY <2>1, <2>2, OfVersion
  <2>4. Sound(v, UpStatements[v][k])
    BY SoundVersion
  <2>5. TableSince(UpStatements[v][k].table) = 1
    BY <2>3, <2>4 DEF Sound
  <2>6. c[1] = UpStatements[v][k].table
    BY <2>3
  <2> QED BY <2>5, <2>6
<1>2. ASSUME NEW c \in ColumnsSince(10) PROVE TableSince(c[1]) < 10
  <2>1. c[1] = "board_idempotency_keys"
    BY DEF ColumnsSince, Columns
  <2> QED BY <2>1, TheTables
<1>3. ColumnsSince(1) = {}
  <2>1. \A k \in 1 .. 23 : UpStatements[1][k].op # "column"
    <3>1. \A k \in 1 .. 23 : k \in 1 .. 9 \/ k \in 10 .. 23
      OBVIOUS
    <3>2. \A k \in 1 .. 9 : UpStatements[1][k].op = "table"
      BY BaseStatement
    <3>3. \A k \in 10 .. 23 : UpStatements[1][k].op = "index"
      BY BaseStatement
    <3> QED BY <3>1, <3>2, <3>3
  <2>2. DOMAIN UpStatements[1] = 1 .. Len(UpStatements[1]) /\ Len(UpStatements[1]) = 23
    BY BaseStatement
  <2>3. \A c \in ColumnsOf(1) : \E k \in 1 .. Len(UpStatements[1]) :
           /\ UpStatements[1][k].op = "column"
           /\ c = <<UpStatements[1][k].table, UpStatements[1][k].column>>
    BY <2>2, OfVersion
  <2> QED BY <2>1, <2>2, <2>3 DEF ColumnsSince
<1> QED BY <1>1, <1>2, <1>3

LEMMA SinceIndexes ==
    \A v \in 1 .. 13 : \A i \in IndexesSince(v) : EntryOf(v, i)
<1>1. ASSUME NEW v \in 2 .. 13, NEW i \in IndexesSince(v) PROVE EntryOf(v, i)
  <2>1. i \in IndexesOf(v) /\ i \notin Superseded
    BY DEF IndexesSince
  <2>2. DOMAIN UpStatements[v] = 1 .. Len(UpStatements[v])
    BY SoundVersion
  <2>3. PICK k \in 1 .. Len(UpStatements[v]) :
           UpStatements[v][k].op = "index" /\ UpStatements[v][k].index = i
    BY <2>1, <2>2, OfVersion
  <2>4. Sound(v, UpStatements[v][k])
    BY SoundVersion
  <2> QED BY <2>1, <2>3, <2>4 DEF Sound
<1>2. IndexesSince(1) = {}
  BY DEF IndexesSince
<1> QED BY <1>1, <1>2

\* One name, one index: but for those that version 12 supersedes.
LEMMA OneIndexPerName ==
    ASSUME NEW i \in AllIndexes \ Superseded, NEW j \in AllIndexes \ Superseded, i.name = j.name
    PROVE  i = j
<1>1. \A e \in AllIndexes \ Superseded : IsEntry(e)
  BY SinceIndexes DEF AllIndexes, LatestMigrationVersion, EntryOf
<1> QED BY <1>1 DEF IsEntry

\* What up() of a version makes is there since, and so it is of a schema.
LEMMA Members ==
    ASSUME NEW v \in 2 .. 13, NEW k \in 1 .. Len(UpStatements[v])
    PROVE  LET stmt == UpStatements[v][k] IN
           /\ stmt.op = "table" => stmt.table \in TablesSince(v)
           /\ stmt.op = "column" => <<stmt.table, stmt.column>> \in ColumnsSince(v)
           /\ stmt.op = "index" => stmt.index \in IndexesSince(v) \cup Superseded
<1> DEFINE stmt == UpStatements[v][k]
<1>1. DOMAIN UpStatements[v] = 1 .. Len(UpStatements[v])
  BY SoundVersion
<1>2. /\ stmt.op = "table" => stmt.table \in TablesOf(v)
      /\ stmt.op = "column" => <<stmt.table, stmt.column>> \in ColumnsOf(v)
      /\ stmt.op = "index" => stmt.index \in IndexesOf(v)
  BY <1>1, OfVersion
<1>3. Sound(v, stmt)
  BY SoundVersion
<1> HIDE DEF stmt
<1>4. stmt.op = "column" => v # 10
  BY <1>3 DEF Sound
<1>5. stmt.op = "table" => stmt.table \in TablesSince(v)
  BY <1>2 DEF TablesSince
<1>6. stmt.op = "column" => <<stmt.table, stmt.column>> \in ColumnsSince(v)
  BY <1>2, <1>4 DEF ColumnsSince
<1>7. stmt.op = "index" => stmt.index \in IndexesSince(v) \cup Superseded
  BY <1>2 DEF IndexesSince
<1> QED BY <1>5, <1>6, <1>7 DEF stmt

LEMMA MembersOfAll ==
    ASSUME NEW v \in 2 .. 13, NEW k \in 1 .. Len(UpStatements[v])
    PROVE  LET stmt == UpStatements[v][k] IN
           /\ stmt.op = "table" => stmt.table \in AllTables
           /\ stmt.op = "column" => <<stmt.table, stmt.column>> \in AllColumns
           /\ stmt.op = "index" => stmt.index \in AllIndexes
<1>1. v \in 1 .. LatestMigrationVersion
  BY DEF LatestMigrationVersion
<1>2. /\ TablesSince(v) \subseteq AllTables
      /\ ColumnsSince(v) \subseteq AllColumns
      /\ IndexesSince(v) \cup Superseded \subseteq AllIndexes
  BY <1>1 DEF AllTables, AllColumns, AllIndexes
<1> QED BY <1>2, Members

\* The column of the board table, which its own migration gives it.
LEMMA BoardState == <<"board_idempotency_keys", "state">> \in ColumnsSince(10)
BY DEF ColumnsSince, Columns

LEMMA UpAllowed ==
    ASSUME NEW v \in 2 .. 13, NEW k \in 1 .. Len(UpStatements[v])
    PROVE  Allowed(UpStatements[v][k], AllTables, AllColumns, AllIndexes)
<1> DEFINE stmt == UpStatements[v][k]
<1>1. Sound(v, stmt)
  BY SoundVersion
<1>2. /\ stmt.op = "table" => stmt.table \in AllTables
      /\ stmt.op = "column" => <<stmt.table, stmt.column>> \in AllColumns
      /\ stmt.op = "index" => stmt.index \in AllIndexes
  BY MembersOfAll
<1> HIDE DEF stmt
<1>3. ASSUME stmt.op = "table" PROVE Columns(stmt.table, stmt.columns) \subseteq AllColumns
  <2>1. CASE v = 9
    <3>1. TableSince(stmt.table) = 9 /\ stmt.columns = {"state"}
      BY <1>1, <1>3, <2>1 DEF Sound
    <3>2. stmt.table = "board_idempotency_keys"
      BY <3>1 DEF TableSince
    <3>3. Columns(stmt.table, stmt.columns) = {<<"board_idempotency_keys", "state">>}
      BY <3>1, <3>2 DEF Columns
    <3>4. ColumnsSince(10) \subseteq AllColumns
      BY DEF AllColumns, LatestMigrationVersion
    <3> QED BY <3>3, <3>4, BoardState
  <2>2. CASE v # 9
    BY <1>1, <1>3, <2>2 DEF Sound, Columns
  <2> QED BY <2>1, <2>2
<1> QED BY <1>2, <1>3 DEF Allowed, stmt

\* What the base migration makes is of a schema too.
LEMMA BaseColumns ==
    /\ <<"git_context", "metadata_scope">> \in AllColumns
    /\ <<"sync_cursors", "owner">> \in AllColumns
    /\ <<"sync_conflicts", "scope">> \in AllColumns
    /\ <<"board_idempotency_keys", "state">> \in AllColumns
<1>1. <<"git_context", "metadata_scope">> \in AllColumns
  <2>1. /\ UpStatements[4][1].op = "column"
        /\ UpStatements[4][1].table = "git_context" /\ UpStatements[4][1].column = "metadata_scope"
    BY Up4 DEF IsColumn
  <2>2. 4 \in 2 .. 13 /\ 1 \in 1 .. Len(UpStatements[4])
    BY Sound4
  <2> QED BY <2>1, <2>2, MembersOfAll
<1>2. <<"sync_cursors", "owner">> \in AllColumns
  <2>1. /\ UpStatements[4][3].op = "column"
        /\ UpStatements[4][3].table = "sync_cursors" /\ UpStatements[4][3].column = "owner"
    BY Up4 DEF IsColumn
  <2>2. 4 \in 2 .. 13 /\ 3 \in 1 .. Len(UpStatements[4])
    BY Sound4
  <2> QED BY <2>1, <2>2, MembersOfAll
<1>3. <<"sync_conflicts", "scope">> \in AllColumns
  <2>1. /\ UpStatements[11][1].op = "column"
        /\ UpStatements[11][1].table = "sync_conflicts" /\ UpStatements[11][1].column = "scope"
    BY Up11 DEF IsColumn
  <2>2. 11 \in 2 .. 13 /\ 1 \in 1 .. Len(UpStatements[11])
    BY Sound11
  <2> QED BY <2>1, <2>2, MembersOfAll
<1>4. <<"board_idempotency_keys", "state">> \in AllColumns
  BY BoardState DEF AllColumns, LatestMigrationVersion
<1> QED BY <1>1, <1>2, <1>3, <1>4

LEMMA BaseIndexMembers ==
    \A k \in 1 .. 14 : BaseIndexes[k].index \in AllIndexes
<1>1. BaseIndexes[1].index \in AllIndexes
  <2>1. UpStatements[8][1].op = "index" /\ UpStatements[8][1].index = BaseIndexes[1].index
    BY Up8, UpIndexes DEF IsIndex
  <2>2. 8 \in 2 .. 13 /\ 1 \in 1 .. Len(UpStatements[8])
    BY Sound8
  <2> QED BY <2>1, <2>2, MembersOfAll
<1>2. BaseIndexes[2].index \in AllIndexes
  <2>1. UpStatements[8][2].op = "index" /\ UpStatements[8][2].index = BaseIndexes[2].index
    BY Up8, UpIndexes DEF IsIndex
  <2>2. 8 \in 2 .. 13 /\ 2 \in 1 .. Len(UpStatements[8])
    BY Sound8
  <2> QED BY <2>1, <2>2, MembersOfAll
<1>3. BaseIndexes[3].index \in AllIndexes
  <2>1. UpStatements[4][2].op = "index" /\ UpStatements[4][2].index = BaseIndexes[3].index
    BY Up4, UpIndexes DEF IsIndex
  <2>2. 4 \in 2 .. 13 /\ 2 \in 1 .. Len(UpStatements[4])
    BY Sound4
  <2> QED BY <2>1, <2>2, MembersOfAll
<1>4. BaseIndexes[4].index \in AllIndexes
  <2>1. UpStatements[4][4].op = "index" /\ UpStatements[4][4].index = BaseIndexes[4].index
    BY Up4, UpIndexes DEF IsIndex
  <2>2. 4 \in 2 .. 13 /\ 4 \in 1 .. Len(UpStatements[4])
    BY Sound4
  <2> QED BY <2>1, <2>2, MembersOfAll
<1>5. BaseIndexes[5].index \in AllIndexes
  <2>1. UpStatements[8][3].op = "index" /\ UpStatements[8][3].index = BaseIndexes[5].index
    BY Up8, UpIndexes DEF IsIndex
  <2>2. 8 \in 2 .. 13 /\ 3 \in 1 .. Len(UpStatements[8])
    BY Sound8
  <2> QED BY <2>1, <2>2, MembersOfAll
<1>6. BaseIndexes[6].index \in AllIndexes
  <2>1. UpStatements[11][2].op = "index" /\ UpStatements[11][2].index = BaseIndexes[6].index
    BY Up11, UpIndexes DEF IsIndex
  <2>2. 11 \in 2 .. 13 /\ 2 \in 1 .. Len(UpStatements[11])
    BY Sound11
  <2> QED BY <2>1, <2>2, MembersOfAll
<1>7. BaseIndexes[7].index \in AllIndexes
  <2>1. UpStatements[11][3].op = "index" /\ UpStatements[11][3].index = BaseIndexes[7].index
    BY Up11, UpIndexes DEF IsIndex
  <2>2. 11 \in 2 .. 13 /\ 3 \in 1 .. Len(UpStatements[11])
    BY Sound11
  <2> QED BY <2>1, <2>2, MembersOfAll
<1>8. BaseIndexes[8].index \in AllIndexes
  <2>1. UpStatements[9][2].op = "index" /\ UpStatements[9][2].index = BaseIndexes[8].index
    BY Up9, UpIndexes DEF IsIndex
  <2>2. 9 \in 2 .. 13 /\ 2 \in 1 .. Len(UpStatements[9])
    BY Sound9
  <2> QED BY <2>1, <2>2, MembersOfAll
<1>9. BaseIndexes[9].index \in AllIndexes
  <2>1. UpStatements[10][1].op = "index" /\ UpStatements[10][1].index = BaseIndexes[9].index
    BY Up10, UpIndexes DEF IsIndex
  <2>2. 10 \in 2 .. 13 /\ 1 \in 1 .. Len(UpStatements[10])
    BY Sound10
  <2> QED BY <2>1, <2>2, MembersOfAll
<1>10. BaseIndexes[10].index \in AllIndexes
  <2>1. UpStatements[12][3].op = "index" /\ UpStatements[12][3].index = BaseIndexes[10].index
    BY Up12, UpIndexes DEF IsIndex
  <2>2. 12 \in 2 .. 13 /\ 3 \in 1 .. Len(UpStatements[12])
    BY Sound12
  <2> QED BY <2>1, <2>2, MembersOfAll
<1>11. BaseIndexes[11].index \in AllIndexes
  <2>1. UpStatements[12][4].op = "index" /\ UpStatements[12][4].index = BaseIndexes[11].index
    BY Up12, UpIndexes DEF IsIndex
  <2>2. 12 \in 2 .. 13 /\ 4 \in 1 .. Len(UpStatements[12])
    BY Sound12
  <2> QED BY <2>1, <2>2, MembersOfAll
<1>12. BaseIndexes[12].index \in AllIndexes
  <2>1. UpStatements[12][5].op = "index" /\ UpStatements[12][5].index = BaseIndexes[12].index
    BY Up12, UpIndexes DEF IsIndex
  <2>2. 12 \in 2 .. 13 /\ 5 \in 1 .. Len(UpStatements[12])
    BY Sound12
  <2> QED BY <2>1, <2>2, MembersOfAll
<1>13. BaseIndexes[13].index \in AllIndexes
  <2>1. UpStatements[13][1].op = "index" /\ UpStatements[13][1].index = BaseIndexes[13].index
    BY Up13, UpIndexes DEF IsIndex
  <2>2. 13 \in 2 .. 13 /\ 1 \in 1 .. Len(UpStatements[13])
    BY Sound13
  <2> QED BY <2>1, <2>2, MembersOfAll
<1>14. BaseIndexes[14].index \in AllIndexes
  <2>1. UpStatements[13][2].op = "index" /\ UpStatements[13][2].index = BaseIndexes[14].index
    BY Up13, UpIndexes DEF IsIndex
  <2>2. 13 \in 2 .. 13 /\ 2 \in 1 .. Len(UpStatements[13])
    BY Sound13
  <2> QED BY <2>1, <2>2, MembersOfAll
<1> QED BY <1>1, <1>2, <1>3, <1>4, <1>5, <1>6, <1>7, <1>8, <1>9, <1>10, <1>11, <1>12, <1>13, <1>14

LEMMA BaseTableMembers ==
    \A k \in 1 .. 9 :
        BaseTables[k].table \in IF k = 9 THEN TablesSince(9) ELSE TablesSince(1)
<1>1. BaseTables[9].table \in TablesSince(9)
  <2>1. UpStatements[9][1].op = "table" /\ UpStatements[9][1].table = BaseTables[9].table
    BY Up9, UpTables DEF IsTable
  <2>2. 9 \in 2 .. 13 /\ 1 \in 1 .. Len(UpStatements[9])
    BY Sound9
  <2> QED BY <2>1, <2>2, Members
<1>2. ASSUME NEW k \in 1 .. 8 PROVE BaseTables[k].table \in TablesSince(1)
  <2>1. TableSince(BaseTables[k].table) = 1
    <3>1. /\ TableSince(BaseTables[1].table) = 1 /\ TableSince(BaseTables[2].table) = 1
          /\ TableSince(BaseTables[3].table) = 1 /\ TableSince(BaseTables[4].table) = 1
          /\ TableSince(BaseTables[5].table) = 1 /\ TableSince(BaseTables[6].table) = 1
          /\ TableSince(BaseTables[7].table) = 1 /\ TableSince(BaseTables[8].table) = 1
      BY UpTables, TheTables DEF IsTable
    <3> QED BY <3>1
  <2>2. BaseTables[k].table \notin TablesOf(9)
    <3>1. TablesOf(9) = TablesSince(9)
      BY DEF TablesSince
    <3> QED BY <2>1, <3>1, SinceTables
  <2>3. BaseTables[k].table \in TablesOf(1)
    <3>1. DOMAIN UpStatements[1] = 1 .. Len(UpStatements[1]) /\ k \in 1 .. Len(UpStatements[1])
      BY BaseStatement
    <3>2. UpStatements[1][k].op = "table" /\ UpStatements[1][k] = BaseTables[k]
      BY BaseStatement
    <3>3. UpStatements[1][k].table \in TablesOf(1)
      BY <3>1, <3>2, OfVersion
    <3> QED BY <3>2, <3>3
  <2> QED BY <2>2, <2>3 DEF TablesSince
<1> QED BY <1>1, <1>2

LEMMA BaseAllowed ==
    \A k \in 1 .. 23 : /\ UpStatements[1][k].op \in {"table", "index"}
                       /\ Allowed(UpStatements[1][k], AllTables, AllColumns, AllIndexes)
<1>1. TablesSince(1) \subseteq AllTables /\ TablesSince(9) \subseteq AllTables
  BY DEF AllTables, LatestMigrationVersion
<1>2. \A k \in 1 .. 9 : Columns(BaseTables[k].table, BaseTables[k].columns) \subseteq AllColumns
  <2>1. Columns(BaseTables[1].table, BaseTables[1].columns) \subseteq AllColumns
    BY UpTables DEF IsTable, Columns
  <2>2. Columns(BaseTables[2].table, BaseTables[2].columns) \subseteq AllColumns
    BY UpTables DEF IsTable, Columns
  <2>3. Columns(BaseTables[3].table, BaseTables[3].columns) \subseteq AllColumns
    BY UpTables DEF IsTable, Columns
  <2>4. Columns(BaseTables[4].table, BaseTables[4].columns) \subseteq AllColumns
    BY UpTables DEF IsTable, Columns
  <2>5. Columns(BaseTables[5].table, BaseTables[5].columns) \subseteq AllColumns
    BY UpTables DEF IsTable, Columns
  <2>6. Columns(BaseTables[6].table, BaseTables[6].columns) \subseteq AllColumns
    BY UpTables, BaseColumns DEF IsTable, Columns
  <2>7. Columns(BaseTables[7].table, BaseTables[7].columns) \subseteq AllColumns
    BY UpTables, BaseColumns DEF IsTable, Columns
  <2>8. Columns(BaseTables[8].table, BaseTables[8].columns) \subseteq AllColumns
    BY UpTables, BaseColumns DEF IsTable, Columns
  <2>9. Columns(BaseTables[9].table, BaseTables[9].columns) \subseteq AllColumns
    BY UpTables, BaseColumns DEF IsTable, Columns
  <2> QED BY <2>1, <2>2, <2>3, <2>4, <2>5, <2>6, <2>7, <2>8, <2>9
<1>3. ASSUME NEW k \in 1 .. 9
      PROVE  /\ UpStatements[1][k].op \in {"table", "index"}
             /\ Allowed(UpStatements[1][k], AllTables, AllColumns, AllIndexes)
  <2>1. UpStatements[1][k] = BaseTables[k] /\ UpStatements[1][k].op = "table"
    BY BaseStatement
  <2>2. BaseTables[k].table \in AllTables
    BY <1>1, BaseTableMembers
  <2> QED BY <1>2, <2>1, <2>2 DEF Allowed
<1>4. ASSUME NEW k \in 10 .. 23
      PROVE  /\ UpStatements[1][k].op \in {"table", "index"}
             /\ Allowed(UpStatements[1][k], AllTables, AllColumns, AllIndexes)
  <2>1. UpStatements[1][k] = BaseIndexes[k - 9] /\ UpStatements[1][k].op = "index"
          /\ k - 9 \in 1 .. 14
    BY BaseStatement
  <2>2. BaseIndexes[k - 9].index \in AllIndexes
    BY <2>1, BaseIndexMembers
  <2> QED BY <2>1, <2>2 DEF Allowed
<1>5. \A k \in 1 .. 23 : k \in 1 .. 9 \/ k \in 10 .. 23
  OBVIOUS
<1> QED BY <1>3, <1>4, <1>5

LEMMA TableNames ==
    /\ \A t \in {"epics", "tasks", "subtasks", "dependencies", "events", "git_context",
                 "sync_cursors", "sync_conflicts"} : t \in TablesSince(1)
    /\ "event_archive" \in TablesSince(3) /\ "board_idempotency_keys" \in TablesSince(9)
<1>1. /\ BaseTables[1].table = "epics" /\ BaseTables[2].table = "tasks"
      /\ BaseTables[3].table = "subtasks" /\ BaseTables[4].table = "dependencies"
      /\ BaseTables[5].table = "events" /\ BaseTables[6].table = "git_context"
      /\ BaseTables[7].table = "sync_cursors" /\ BaseTables[8].table = "sync_conflicts"
      /\ BaseTables[9].table = "board_idempotency_keys"
  BY UpTables DEF IsTable
<1>2. \A k \in 1 .. 8 : BaseTables[k].table \in TablesSince(1)
  BY BaseTableMembers
<1>3. BaseTables[9].table \in TablesSince(9)
  BY BaseTableMembers
<1>4. UpStatements[3][1].table \in TablesSince(3) /\ UpStatements[3][1].table = "event_archive"
  <2>1. UpStatements[3][1].op = "table" /\ UpStatements[3][1].table = "event_archive"
    BY Up3 DEF IsTable
  <2>2. 3 \in 2 .. 13 /\ 1 \in 1 .. Len(UpStatements[3])
    BY Sound3
  <2> QED BY <2>1, <2>2, Members
<1>5. /\ "epics" \in TablesSince(1) /\ "tasks" \in TablesSince(1) /\ "subtasks" \in TablesSince(1)
      /\ "dependencies" \in TablesSince(1) /\ "events" \in TablesSince(1)
      /\ "git_context" \in TablesSince(1) /\ "sync_cursors" \in TablesSince(1)
      /\ "sync_conflicts" \in TablesSince(1)
  BY <1>1, <1>2
<1> QED BY <1>1, <1>3, <1>4, <1>5

\* What an index needs is there, or an earlier statement makes it.
Supplied(A, stmts, k) ==
    LET t == stmts[k].index.table IN
    /\ \/ t \in A[0].tables
       \/ \E j \in 1 .. (k - 1) : stmts[j].op = "table" /\ stmts[j].table = t
    /\ \A c \in stmts[k].columns :
          \/ <<t, c>> \in A[0].columns
          \/ \E j \in 1 .. (k - 1) : /\ stmts[j].op = "column" /\ stmts[j].table = t
                                     /\ stmts[j].column = c /\ t \in A[0].tables
          \/ \A j \in 0 .. Len(stmts) : WithColumn(A[j], t, c)

DropsTable(stmt) == stmt.op = "drop table"

LEMMA CourseSucceeds ==
    ASSUME NEW A, NEW s, NEW stmts, Course(A, s, stmts), Statements(stmts), IsSchema(s), ~s.failed,
           \A k \in 1 .. Len(stmts) : ~DropsTable(stmts[k]),
           \A k \in 1 .. Len(stmts) : stmts[k].op = "index" => Supplied(A, stmts, k)
    PROVE  ~A[Len(stmts)].failed
<1> DEFINE N == Len(stmts)
           T == {k \in 0 .. N : \A j \in 0 .. k : ~A[j].failed}
<1>1. N \in Nat
  BY DEF Statements
<1>2. 0 \in T
  <2>1. \A j \in 0 .. 0 : j = 0
    OBVIOUS
  <2> QED BY <1>1, <2>1 DEF Course
<1>3. ASSUME NEW k \in 1 .. N, k - 1 \in T PROVE k \in T
  <2>1. \A j \in 0 .. (k - 1) : ~A[j].failed
    BY <1>3
  <2> HIDE DEF T
  <2>2. k - 1 \in 0 .. N /\ k \in 1 .. N /\ k - 1 \in 0 .. (k - 1)
    BY <1>1
  <2>3. A[k] = Exec(A[k - 1], stmts[k]) /\ IsSchema(A[k - 1]) /\ stmts[k].op \in Op
    BY <2>2, CourseIsSchema DEF Course, Statements
  <2>4. ASSUME NEW n \in 0 .. N, n < k, NEW m \in 0 .. n
        PROVE  A[m].tables \subseteq A[n].tables /\ A[m].columns \subseteq A[n].columns
    <3>1. m \in 0 .. Len(stmts) /\ n \in m .. Len(stmts)
      BY <1>1
    <3>2. \A i \in (m + 1) .. n : \A t : SparesTable(stmts[i], t)
      <4>1. \A i \in (m + 1) .. n : i \in 1 .. Len(stmts)
        BY <1>1
      <4> QED BY <4>1 DEF SparesTable, DropsTable
    <3>3. A[m].tables \subseteq A[n].tables
      BY <3>1, <3>2, CourseKeeps
    <3>4. A[m].columns \subseteq A[n].columns
      BY <3>1, <3>2, CourseKeeps
    <3> QED BY <3>3, <3>4
  <2>5. ASSUME NEW j \in 1 .. (k - 1)
        PROVE  /\ stmts[j].op = "table" => stmts[j].table \in A[k - 1].tables
               /\ stmts[j].op = "column" /\ stmts[j].table \in A[0].tables
                     => <<stmts[j].table, stmts[j].column>> \in A[k - 1].columns
    <3>1. j \in 1 .. N /\ j \in 0 .. N /\ j - 1 \in 0 .. (k - 1) /\ j \in 0 .. (k - 1)
            /\ j - 1 \in 0 .. N /\ j # 0
      BY <1>1
    <3>2. A[j] = Exec(A[j - 1], stmts[j]) /\ IsSchema(A[j - 1]) /\ stmts[j].op \in Op
      BY <3>1, CourseIsSchema DEF Course, Statements
    <3>3. ~A[j].failed /\ ~A[j - 1].failed
      BY <2>1, <3>1
    <3>4. ~Throws(A[j - 1], stmts[j])
      BY <3>2, <3>3, ExecIsSchema
    <3>5. A[0].tables \subseteq A[j - 1].tables
      <4>1. j - 1 < k /\ 0 \in 0 .. (j - 1)
        BY <1>1
      <4> QED BY <2>4, <3>1, <4>1
    <3>6. A[j].tables \subseteq A[k - 1].tables /\ A[j].columns \subseteq A[k - 1].columns
      <4>1. k - 1 < k /\ j \in 0 .. (k - 1)
        BY <1>1
      <4> QED BY <2>2, <2>4, <4>1
    <3>7. stmts[j].op = "table" => stmts[j].table \in A[j].tables
      BY <3>2, <3>3, <3>4, ExecMakes
    <3>8. stmts[j].op = "column" /\ stmts[j].table \in A[0].tables
             => <<stmts[j].table, stmts[j].column>> \in A[j].columns
      BY <3>2, <3>3, <3>4, <3>5, ExecMakes
    <3> QED BY <3>6, <3>7, <3>8
  <2>6. ~Throws(A[k - 1], stmts[k])
    <3> SUFFICES ASSUME stmts[k].op = "index" PROVE ~Throws(A[k - 1], stmts[k])
      BY ThrowsOnlyIndex
    <3> DEFINE t == stmts[k].index.table
    <3>1. Supplied(A, stmts, k)
      OBVIOUS
    <3>2. A[0].tables \subseteq A[k - 1].tables /\ A[0].columns \subseteq A[k - 1].columns
      <4>1. k - 1 < k /\ 0 \in 0 .. (k - 1)
        BY <1>1
      <4> QED BY <2>2, <2>4, <4>1
    <3> HIDE DEF N
    <3>3. t \in A[k - 1].tables
      <4>1. CASE t \in A[0].tables
        BY <3>2, <4>1
      <4>2. CASE \E j \in 1 .. (k - 1) : stmts[j].op = "table" /\ stmts[j].table = t
        <5>1. PICK j \in 1 .. (k - 1) : stmts[j].op = "table" /\ stmts[j].table = t
          BY <4>2
        <5> HIDE DEF t
        <5> QED BY <2>5, <5>1
      <4> QED BY <3>1, <4>1, <4>2 DEF Supplied
    <3>4. ASSUME NEW c \in stmts[k].columns PROVE <<t, c>> \in A[k - 1].columns
      <4>1. CASE <<t, c>> \in A[0].columns
        BY <3>2, <4>1
      <4>2. CASE \E j \in 1 .. (k - 1) : /\ stmts[j].op = "column" /\ stmts[j].table = t
                                         /\ stmts[j].column = c /\ t \in A[0].tables
        <5>1. PICK j \in 1 .. (k - 1) : /\ stmts[j].op = "column" /\ stmts[j].table = t
                                        /\ stmts[j].column = c /\ t \in A[0].tables
          BY <4>2
        <5> HIDE DEF t
        <5> QED BY <2>5, <5>1
      <4>3. CASE \A j \in 0 .. Len(stmts) : WithColumn(A[j], t, c)
        <5>1. WithColumn(A[k - 1], t, c)
          BY <2>2, <4>3 DEF N
        <5> QED BY <3>3, <5>1 DEF WithColumn
      <4> QED BY <3>1, <4>1, <4>2, <4>3 DEF Supplied
    <3>5. Columns(t, stmts[k].columns) \subseteq A[k - 1].columns
      BY <3>4 DEF Columns
    <3> QED BY <3>3, <3>5 DEF Throws
  <2>7. ~A[k].failed
    BY <2>1, <2>2, <2>3, <2>6, ExecIsSchema
  <2>8. \A j \in 0 .. k : j \in 0 .. (k - 1) \/ j = k
    BY <1>1
  <2> QED BY <2>1, <2>2, <2>7, <2>8, <1>1 DEF T
<1>4. \A k \in 1 .. N : k - 1 \in T => k \in T
  BY <1>3
<1> HIDE DEF T
<1>5. N \in T
  <2> HIDE DEF N
  <2>1. \A k \in 0 .. N : k \in T
    BY <1>1, <1>2, <1>4, UpTo
  <2> QED BY <1>1, <2>1
<1>6. N \in 0 .. N
  BY <1>1
<1> HIDE DEF N
<1> QED BY <1>5, <1>6 DEF T, N

----------------------------------------------------------------------------
(* Migrating one version up *)

\* What an index of version v needs: of an earlier version, or an earlier statement.
SuppliedFrom(v, k) ==
    LET stmts == UpStatements[v]
        t == stmts[k].index.table
    IN  /\ \/ \E w \in 1 .. (v - 1) : t \in TablesSince(w)
           \/ \E j \in 1 .. (k - 1) : stmts[j].op = "table" /\ stmts[j].table = t
        /\ \A c \in stmts[k].columns :
              \/ \E w \in 1 .. (v - 1) : <<t, c>> \in ColumnsSince(w)
              \/ \E j \in 1 .. (k - 1) : /\ stmts[j].op = "column" /\ stmts[j].table = t
                                         /\ stmts[j].column = c /\ t \in TablesSince(1)
              \/ t = "board_idempotency_keys" /\ c = "state"

LEMMA SupplyBase ==
    ASSUME NEW v \in 2 .. 13, NEW k, NEW n, NEW t, NEW keys,
           IsIndex(UpStatements[v][k], n, t, keys, {}), t \in TablesSince(1)
    PROVE  SuppliedFrom(v, k)
<1>1. UpStatements[v][k].index.table = t /\ UpStatements[v][k].columns = {}
  BY DEF IsIndex
<1>2. 1 \in 1 .. (v - 1)
  OBVIOUS
<1> QED BY <1>1, <1>2 DEF SuppliedFrom

LEMMA SupplyTable ==
    ASSUME NEW v \in 2 .. 13, NEW k, NEW n, NEW t, NEW keys, NEW columns,
           IsIndex(UpStatements[v][k], n, t, keys, {}),
           NEW j \in 1 .. (k - 1), IsTable(UpStatements[v][j], t, columns)
    PROVE  SuppliedFrom(v, k)
<1>1. UpStatements[v][k].index.table = t /\ UpStatements[v][k].columns = {}
  BY DEF IsIndex
<1>2. UpStatements[v][j].op = "table" /\ UpStatements[v][j].table = t
  BY DEF IsTable
<1> QED BY <1>1, <1>2 DEF SuppliedFrom

LEMMA SupplyColumn ==
    ASSUME NEW v \in 2 .. 13, NEW k, NEW n, NEW t, NEW keys, NEW c,
           IsIndex(UpStatements[v][k], n, t, keys, {c}), t \in TablesSince(1),
           NEW j \in 1 .. (k - 1), IsColumn(UpStatements[v][j], t, c)
    PROVE  SuppliedFrom(v, k)
<1>1. UpStatements[v][k].index.table = t /\ UpStatements[v][k].columns = {c}
  BY DEF IsIndex
<1>2. /\ UpStatements[v][j].op = "column" /\ UpStatements[v][j].table = t
      /\ UpStatements[v][j].column = c
  BY DEF IsColumn
<1>3. 1 \in 1 .. (v - 1)
  OBVIOUS
<1> QED BY <1>1, <1>2, <1>3 DEF SuppliedFrom

LEMMA SupplyOwner ==
    ASSUME NEW v \in 2 .. 13, NEW k, NEW n, NEW t, NEW keys, NEW c,
           IsIndex(UpStatements[v][k], n, t, keys, {c}), t \in TablesSince(1),
           NEW w \in 1 .. (v - 1), <<t, c>> \in ColumnsSince(w)
    PROVE  SuppliedFrom(v, k)
<1>1. UpStatements[v][k].index.table = t /\ UpStatements[v][k].columns = {c}
  BY DEF IsIndex
<1>2. 1 \in 1 .. (v - 1)
  OBVIOUS
<1> QED BY <1>1, <1>2 DEF SuppliedFrom

LEMMA Supply2 ==
    \A k \in 1 .. Len(UpStatements[2]) :
        /\ UpStatements[2][k].op = "index" => SuppliedFrom(2, k)
        /\ UpStatements[2][k].op = "column" => UpStatements[2][k].table \in TablesSince(1)
<1> DEFINE s == UpStatements[2]
           Goal(k) == /\ s[k].op = "index" => SuppliedFrom(2, k)
                      /\ s[k].op = "column" => s[k].table \in TablesSince(1)
<1>1. Goal(1)
  <2>1. IsIndex(s[1], "idx_events_created_at", "events", "created", {})
    BY Up2
  <2>2. 2 \in 2 .. 13 /\ "events" \in TablesSince(1)
    BY TableNames
  <2>4. SuppliedFrom(2, 1)
    BY <2>1, <2>2, SupplyBase
  <2>5. s[1].op = "index"
    BY <2>1 DEF IsIndex
  <2> QED BY <2>4, <2>5
<1>2. Goal(2)
  <2>1. IsIndex(s[2], "idx_events_git_branch", "events", "branch only", {})
    BY Up2
  <2>2. 2 \in 2 .. 13 /\ "events" \in TablesSince(1)
    BY TableNames
  <2>4. SuppliedFrom(2, 2)
    BY <2>1, <2>2, SupplyBase
  <2>5. s[2].op = "index"
    BY <2>1 DEF IsIndex
  <2> QED BY <2>4, <2>5
<1>3. Goal(3)
  <2>1. IsIndex(s[3], "idx_events_created_at_id", "events", "created, id", {})
    BY Up2
  <2>2. 2 \in 2 .. 13 /\ "events" \in TablesSince(1)
    BY TableNames
  <2>4. SuppliedFrom(2, 3)
    BY <2>1, <2>2, SupplyBase
  <2>5. s[3].op = "index"
    BY <2>1 DEF IsIndex
  <2> QED BY <2>4, <2>5
<1>4. Goal(4)
  <2>1. IsIndex(s[4], "idx_dependencies_source", "dependencies", "source", {})
    BY Up2
  <2>2. 2 \in 2 .. 13 /\ "dependencies" \in TablesSince(1)
    BY TableNames
  <2>4. SuppliedFrom(2, 4)
    BY <2>1, <2>2, SupplyBase
  <2>5. s[4].op = "index"
    BY <2>1 DEF IsIndex
  <2> QED BY <2>4, <2>5
<1>5. Goal(5)
  <2>1. IsIndex(s[5], "idx_dependencies_depends_on", "dependencies", "target", {})
    BY Up2
  <2>2. 2 \in 2 .. 13 /\ "dependencies" \in TablesSince(1)
    BY TableNames
  <2>4. SuppliedFrom(2, 5)
    BY <2>1, <2>2, SupplyBase
  <2>5. s[5].op = "index"
    BY <2>1 DEF IsIndex
  <2> QED BY <2>4, <2>5
<1>6. Len(s) = 5
  BY Sound2
<1>7. \A k \in 1 .. 5 : Goal(k)
  <2> HIDE DEF Goal
  <2> QED BY <1>1, <1>2, <1>3, <1>4, <1>5
<1> QED BY <1>6, <1>7

LEMMA Supply3 ==
    \A k \in 1 .. Len(UpStatements[3]) :
        /\ UpStatements[3][k].op = "index" => SuppliedFrom(3, k)
        /\ UpStatements[3][k].op = "column" => UpStatements[3][k].table \in TablesSince(1)
<1> DEFINE s == UpStatements[3]
           Goal(k) == /\ s[k].op = "index" => SuppliedFrom(3, k)
                      /\ s[k].op = "column" => s[k].table \in TablesSince(1)
<1>1. Goal(1)
  BY Up3 DEF IsTable
<1>2. Goal(2)
  <2>1. IsIndex(s[2], "idx_event_archive_created_at", "event_archive", "created", {})
    BY Up3
  <2>2. 3 \in 2 .. 13 /\ 1 \in 1 .. (2 - 1)
    OBVIOUS
  <2>3. IsTable(s[1], "event_archive", {})
    BY Up3
  <2>4. SuppliedFrom(3, 2)
    BY <2>1, <2>2, <2>3, SupplyTable
  <2>5. s[2].op = "index"
    BY <2>1 DEF IsIndex
  <2> QED BY <2>4, <2>5
<1>3. Len(s) = 2
  BY Sound3
<1>4. \A k \in 1 .. 2 : Goal(k)
  <2> HIDE DEF Goal
  <2> QED BY <1>1, <1>2
<1> QED BY <1>3, <1>4

LEMMA Supply4 ==
    \A k \in 1 .. Len(UpStatements[4]) :
        /\ UpStatements[4][k].op = "index" => SuppliedFrom(4, k)
        /\ UpStatements[4][k].op = "column" => UpStatements[4][k].table \in TablesSince(1)
<1> DEFINE s == UpStatements[4]
           Goal(k) == /\ s[k].op = "index" => SuppliedFrom(4, k)
                      /\ s[k].op = "column" => s[k].table \in TablesSince(1)
<1>1. Goal(1)
  <2>1. s[1].op = "column" /\ s[1].table = "git_context"
    BY Up4 DEF IsColumn
  <2> QED BY <2>1, TableNames
<1>2. Goal(2)
  <2>1. IsIndex(s[2], "idx_git_context_scope_path", "git_context", "scope", {"metadata_scope"})
    BY Up4
  <2>2. 4 \in 2 .. 13 /\ 1 \in 1 .. (2 - 1) /\ "git_context" \in TablesSince(1)
    BY TableNames
  <2>3. IsColumn(s[1], "git_context", "metadata_scope")
    BY Up4
  <2>4. SuppliedFrom(4, 2)
    BY <2>1, <2>2, <2>3, SupplyColumn
  <2>5. s[2].op = "index"
    BY <2>1 DEF IsIndex
  <2> QED BY <2>4, <2>5
<1>3. Goal(3)
  <2>1. s[3].op = "column" /\ s[3].table = "sync_cursors"
    BY Up4 DEF IsColumn
  <2> QED BY <2>1, TableNames
<1>4. Goal(4)
  <2>1. IsIndex(s[4], "idx_sync_cursors_owner", "sync_cursors", "owner", {"owner"})
    BY Up4
  <2>2. 4 \in 2 .. 13 /\ 3 \in 1 .. (4 - 1) /\ "sync_cursors" \in TablesSince(1)
    BY TableNames
  <2>3. IsColumn(s[3], "sync_cursors", "owner")
    BY Up4
  <2>4. SuppliedFrom(4, 4)
    BY <2>1, <2>2, <2>3, SupplyColumn
  <2>5. s[4].op = "index"
    BY <2>1 DEF IsIndex
  <2> QED BY <2>4, <2>5
<1>5. Len(s) = 4
  BY Sound4
<1>6. \A k \in 1 .. 4 : Goal(k)
  <2> HIDE DEF Goal
  <2> QED BY <1>1, <1>2, <1>3, <1>4
<1> QED BY <1>5, <1>6

LEMMA Supply5 ==
    \A k \in 1 .. Len(UpStatements[5]) :
        /\ UpStatements[5][k].op = "index" => SuppliedFrom(5, k)
        /\ UpStatements[5][k].op = "column" => UpStatements[5][k].table \in TablesSince(1)
<1> DEFINE s == UpStatements[5]
           Goal(k) == /\ s[k].op = "index" => SuppliedFrom(5, k)
                      /\ s[k].op = "column" => s[k].table \in TablesSince(1)
<1>1. Goal(1)
  <2>1. IsIndex(s[1], "idx_dependencies_edge", "dependencies", "edge", {})
    BY Up5
  <2>2. 5 \in 2 .. 13 /\ "dependencies" \in TablesSince(1)
    BY TableNames
  <2>4. SuppliedFrom(5, 1)
    BY <2>1, <2>2, SupplyBase
  <2>5. s[1].op = "index"
    BY <2>1 DEF IsIndex
  <2> QED BY <2>4, <2>5
<1>2. Len(s) = 1
  BY Sound5
<1>3. \A k \in 1 .. 1 : Goal(k)
  <2> HIDE DEF Goal
  <2> QED BY <1>1
<1> QED BY <1>2, <1>3

LEMMA Supply6 ==
    \A k \in 1 .. Len(UpStatements[6]) :
        /\ UpStatements[6][k].op = "index" => SuppliedFrom(6, k)
        /\ UpStatements[6][k].op = "column" => UpStatements[6][k].table \in TablesSince(1)
<1> DEFINE s == UpStatements[6]
           Goal(k) == /\ s[k].op = "index" => SuppliedFrom(6, k)
                      /\ s[k].op = "column" => s[k].table \in TablesSince(1)
<1>1. Goal(1)
  <2>1. s[1].op = "column" /\ s[1].table = "tasks"
    BY Up6 DEF IsColumn
  <2> QED BY <2>1, TableNames
<1>2. Goal(2)
  <2>1. s[2].op = "column" /\ s[2].table = "subtasks"
    BY Up6 DEF IsColumn
  <2> QED BY <2>1, TableNames
<1>3. Len(s) = 2
  BY Sound6
<1>4. \A k \in 1 .. 2 : Goal(k)
  <2> HIDE DEF Goal
  <2> QED BY <1>1, <1>2
<1> QED BY <1>3, <1>4

LEMMA Supply7 ==
    \A k \in 1 .. Len(UpStatements[7]) :
        /\ UpStatements[7][k].op = "index" => SuppliedFrom(7, k)
        /\ UpStatements[7][k].op = "column" => UpStatements[7][k].table \in TablesSince(1)
<1> DEFINE s == UpStatements[7]
           Goal(k) == /\ s[k].op = "index" => SuppliedFrom(7, k)
                      /\ s[k].op = "column" => s[k].table \in TablesSince(1)
<1>1. Goal(1)
  <2>1. IsIndex(s[1], "idx_dependencies_depends_on_kind", "dependencies", "target, kind", {})
    BY Up7
  <2>2. 7 \in 2 .. 13 /\ "dependencies" \in TablesSince(1)
    BY TableNames
  <2>4. SuppliedFrom(7, 1)
    BY <2>1, <2>2, SupplyBase
  <2>5. s[1].op = "index"
    BY <2>1 DEF IsIndex
  <2> QED BY <2>4, <2>5
<1>2. Goal(2)
  <2>1. IsIndex(s[2], "idx_tasks_owner", "tasks", "owner", {"owner"})
    BY Up7
  <2>2. 7 \in 2 .. 13 /\ 6 \in 1 .. (7 - 1) /\ "tasks" \in TablesSince(1)
    BY TableNames
  <2>3. <<"tasks", "owner">> \in ColumnsSince(6)
    <3>1. UpStatements[6][1].op = "column" /\ UpStatements[6][1].table = "tasks"
            /\ UpStatements[6][1].column = "owner"
      BY Up6 DEF IsColumn
    <3>2. 6 \in 2 .. 13 /\ 1 \in 1 .. Len(UpStatements[6])
      BY Sound6
    <3> QED BY <3>1, <3>2, Members
  <2>4. SuppliedFrom(7, 2)
    BY <2>1, <2>2, <2>3, SupplyOwner
  <2>5. s[2].op = "index"
    BY <2>1 DEF IsIndex
  <2> QED BY <2>4, <2>5
<1>3. Goal(3)
  <2>1. IsIndex(s[3], "idx_subtasks_owner", "subtasks", "owner", {"owner"})
    BY Up7
  <2>2. 7 \in 2 .. 13 /\ 6 \in 1 .. (7 - 1) /\ "subtasks" \in TablesSince(1)
    BY TableNames
  <2>3. <<"subtasks", "owner">> \in ColumnsSince(6)
    <3>1. UpStatements[6][2].op = "column" /\ UpStatements[6][2].table = "subtasks"
            /\ UpStatements[6][2].column = "owner"
      BY Up6 DEF IsColumn
    <3>2. 6 \in 2 .. 13 /\ 2 \in 1 .. Len(UpStatements[6])
      BY Sound6
    <3> QED BY <3>1, <3>2, Members
  <2>4. SuppliedFrom(7, 3)
    BY <2>1, <2>2, <2>3, SupplyOwner
  <2>5. s[3].op = "index"
    BY <2>1 DEF IsIndex
  <2> QED BY <2>4, <2>5
<1>4. Goal(4)
  <2>1. IsIndex(s[4], "idx_conflicts_resolution_updated_at", "sync_conflicts", "updated", {})
    BY Up7
  <2>2. 7 \in 2 .. 13 /\ "sync_conflicts" \in TablesSince(1)
    BY TableNames
  <2>4. SuppliedFrom(7, 4)
    BY <2>1, <2>2, SupplyBase
  <2>5. s[4].op = "index"
    BY <2>1 DEF IsIndex
  <2> QED BY <2>4, <2>5
<1>5. Len(s) = 4
  BY Sound7
<1>6. \A k \in 1 .. 4 : Goal(k)
  <2> HIDE DEF Goal
  <2> QED BY <1>1, <1>2, <1>3, <1>4
<1> QED BY <1>5, <1>6

LEMMA Supply8 ==
    \A k \in 1 .. Len(UpStatements[8]) :
        /\ UpStatements[8][k].op = "index" => SuppliedFrom(8, k)
        /\ UpStatements[8][k].op = "column" => UpStatements[8][k].table \in TablesSince(1)
<1> DEFINE s == UpStatements[8]
           Goal(k) == /\ s[k].op = "index" => SuppliedFrom(8, k)
                      /\ s[k].op = "column" => s[k].table \in TablesSince(1)
<1>1. Goal(1)
  <2>1. IsIndex(s[1], "idx_events_branch_cursor", "events", "branch", {})
    BY Up8
  <2>2. 8 \in 2 .. 13 /\ "events" \in TablesSince(1)
    BY TableNames
  <2>4. SuppliedFrom(8, 1)
    BY <2>1, <2>2, SupplyBase
  <2>5. s[1].op = "index"
    BY <2>1 DEF IsIndex
  <2> QED BY <2>4, <2>5
<1>2. Goal(2)
  <2>1. IsIndex(s[2], "idx_events_entity_branch_cursor", "events", "entity", {})
    BY Up8
  <2>2. 8 \in 2 .. 13 /\ "events" \in TablesSince(1)
    BY TableNames
  <2>4. SuppliedFrom(8, 2)
    BY <2>1, <2>2, SupplyBase
  <2>5. s[2].op = "index"
    BY <2>1 DEF IsIndex
  <2> QED BY <2>4, <2>5
<1>3. Goal(3)
  <2>1. IsIndex(s[3], "idx_conflicts_resolution_entity_field_id", "sync_conflicts", "resolution",
          {})
    BY Up8
  <2>2. 8 \in 2 .. 13 /\ "sync_conflicts" \in TablesSince(1)
    BY TableNames
  <2>4. SuppliedFrom(8, 3)
    BY <2>1, <2>2, SupplyBase
  <2>5. s[3].op = "index"
    BY <2>1 DEF IsIndex
  <2> QED BY <2>4, <2>5
<1>4. Len(s) = 3
  BY Sound8
<1>5. \A k \in 1 .. 3 : Goal(k)
  <2> HIDE DEF Goal
  <2> QED BY <1>1, <1>2, <1>3
<1> QED BY <1>4, <1>5

LEMMA Supply9 ==
    \A k \in 1 .. Len(UpStatements[9]) :
        /\ UpStatements[9][k].op = "index" => SuppliedFrom(9, k)
        /\ UpStatements[9][k].op = "column" => UpStatements[9][k].table \in TablesSince(1)
<1> DEFINE s == UpStatements[9]
           Goal(k) == /\ s[k].op = "index" => SuppliedFrom(9, k)
                      /\ s[k].op = "column" => s[k].table \in TablesSince(1)
<1>1. Goal(1)
  BY Up9 DEF IsTable
<1>2. Goal(2)
  <2>1. IsIndex(s[2], "idx_board_idempotency_created_at", "board_idempotency_keys", "created", {})
    BY Up9
  <2>2. 9 \in 2 .. 13 /\ 1 \in 1 .. (2 - 1)
    OBVIOUS
  <2>3. IsTable(s[1], "board_idempotency_keys", {"state"})
    BY Up9
  <2>4. SuppliedFrom(9, 2)
    BY <2>1, <2>2, <2>3, SupplyTable
  <2>5. s[2].op = "index"
    BY <2>1 DEF IsIndex
  <2> QED BY <2>4, <2>5
<1>3. Len(s) = 2
  BY Sound9
<1>4. \A k \in 1 .. 2 : Goal(k)
  <2> HIDE DEF Goal
  <2> QED BY <1>1, <1>2
<1> QED BY <1>3, <1>4

LEMMA Supply10 ==
    \A k \in 1 .. Len(UpStatements[10]) :
        /\ UpStatements[10][k].op = "index" => SuppliedFrom(10, k)
        /\ UpStatements[10][k].op = "column" => UpStatements[10][k].table \in TablesSince(1)
<1> DEFINE s == UpStatements[10]
           Goal(k) == /\ s[k].op = "index" => SuppliedFrom(10, k)
                      /\ s[k].op = "column" => s[k].table \in TablesSince(1)
<1>1. Goal(1)
  <2>1. IsIndex(s[1], "idx_board_idempotency_state_created_at", "board_idempotency_keys", "state",
          {"state"})
    BY Up10
  <2>2. s[1].index.table = "board_idempotency_keys" /\ s[1].columns = {"state"}
    BY <2>1 DEF IsIndex
  <2>3. 9 \in 1 .. (10 - 1) /\ "board_idempotency_keys" \in TablesSince(9)
    BY TableNames
  <2>4. SuppliedFrom(10, 1)
    BY <2>2, <2>3 DEF SuppliedFrom
  <2>5. s[1].op = "index"
    BY <2>1 DEF IsIndex
  <2> QED BY <2>4, <2>5
<1>2. Len(s) = 1
  BY Sound10
<1>3. \A k \in 1 .. 1 : Goal(k)
  <2> HIDE DEF Goal
  <2> QED BY <1>1
<1> QED BY <1>2, <1>3

LEMMA Supply11 ==
    \A k \in 1 .. Len(UpStatements[11]) :
        /\ UpStatements[11][k].op = "index" => SuppliedFrom(11, k)
        /\ UpStatements[11][k].op = "column" => UpStatements[11][k].table \in TablesSince(1)
<1> DEFINE s == UpStatements[11]
           Goal(k) == /\ s[k].op = "index" => SuppliedFrom(11, k)
                      /\ s[k].op = "column" => s[k].table \in TablesSince(1)
<1>1. Goal(1)
  <2>1. s[1].op = "column" /\ s[1].table = "sync_conflicts"
    BY Up11 DEF IsColumn
  <2> QED BY <2>1, TableNames
<1>2. Goal(2)
  <2>1. IsIndex(s[2], "idx_sync_conflicts_scope_entity", "sync_conflicts", "entity", {"scope"})
    BY Up11
  <2>2. 11 \in 2 .. 13 /\ 1 \in 1 .. (2 - 1) /\ "sync_conflicts" \in TablesSince(1)
    BY TableNames
  <2>3. IsColumn(s[1], "sync_conflicts", "scope")
    BY Up11
  <2>4. SuppliedFrom(11, 2)
    BY <2>1, <2>2, <2>3, SupplyColumn
  <2>5. s[2].op = "index"
    BY <2>1 DEF IsIndex
  <2> QED BY <2>4, <2>5
<1>3. Goal(3)
  <2>1. IsIndex(s[3], "idx_sync_conflicts_scope_resolution", "sync_conflicts", "scope", {"scope"})
    BY Up11
  <2>2. 11 \in 2 .. 13 /\ 1 \in 1 .. (3 - 1) /\ "sync_conflicts" \in TablesSince(1)
    BY TableNames
  <2>3. IsColumn(s[1], "sync_conflicts", "scope")
    BY Up11
  <2>4. SuppliedFrom(11, 3)
    BY <2>1, <2>2, <2>3, SupplyColumn
  <2>5. s[3].op = "index"
    BY <2>1 DEF IsIndex
  <2> QED BY <2>4, <2>5
<1>4. Len(s) = 3
  BY Sound11
<1>5. \A k \in 1 .. 3 : Goal(k)
  <2> HIDE DEF Goal
  <2> QED BY <1>1, <1>2, <1>3
<1> QED BY <1>4, <1>5

LEMMA Supply12 ==
    \A k \in 1 .. Len(UpStatements[12]) :
        /\ UpStatements[12][k].op = "index" => SuppliedFrom(12, k)
        /\ UpStatements[12][k].op = "column" => UpStatements[12][k].table \in TablesSince(1)
<1> DEFINE s == UpStatements[12]
           Goal(k) == /\ s[k].op = "index" => SuppliedFrom(12, k)
                      /\ s[k].op = "column" => s[k].table \in TablesSince(1)
<1>1. Goal(1)
  BY Up12 DEF IsDropIndex
<1>2. Goal(2)
  BY Up12 DEF IsDropIndex
<1>3. Goal(3)
  <2>1. IsIndex(s[3], "idx_dependencies_source", "dependencies", "source, kind", {})
    BY Up12
  <2>2. 12 \in 2 .. 13 /\ "dependencies" \in TablesSince(1)
    BY TableNames
  <2>4. SuppliedFrom(12, 3)
    BY <2>1, <2>2, SupplyBase
  <2>5. s[3].op = "index"
    BY <2>1 DEF IsIndex
  <2> QED BY <2>4, <2>5
<1>4. Goal(4)
  <2>1. IsIndex(s[4], "idx_dependencies_target", "dependencies", "target, kind", {})
    BY Up12
  <2>2. 12 \in 2 .. 13 /\ "dependencies" \in TablesSince(1)
    BY TableNames
  <2>4. SuppliedFrom(12, 4)
    BY <2>1, <2>2, SupplyBase
  <2>5. s[4].op = "index"
    BY <2>1 DEF IsIndex
  <2> QED BY <2>4, <2>5
<1>5. Goal(5)
  <2>1. IsIndex(s[5], "uniq_dependencies_edge", "dependencies", "edge, kinds", {})
    BY Up12
  <2>2. 12 \in 2 .. 13 /\ "dependencies" \in TablesSince(1)
    BY TableNames
  <2>4. SuppliedFrom(12, 5)
    BY <2>1, <2>2, SupplyBase
  <2>5. s[5].op = "index"
    BY <2>1 DEF IsIndex
  <2> QED BY <2>4, <2>5
<1>6. Len(s) = 5
  BY Sound12
<1>7. \A k \in 1 .. 5 : Goal(k)
  <2> HIDE DEF Goal
  <2> QED BY <1>1, <1>2, <1>3, <1>4, <1>5
<1> QED BY <1>6, <1>7

LEMMA Supply13 ==
    \A k \in 1 .. Len(UpStatements[13]) :
        /\ UpStatements[13][k].op = "index" => SuppliedFrom(13, k)
        /\ UpStatements[13][k].op = "column" => UpStatements[13][k].table \in TablesSince(1)
<1> DEFINE s == UpStatements[13]
           Goal(k) == /\ s[k].op = "index" => SuppliedFrom(13, k)
                      /\ s[k].op = "column" => s[k].table \in TablesSince(1)
<1>1. Goal(1)
  <2>1. IsIndex(s[1], "idx_tasks_epic_created", "tasks", "epic", {})
    BY Up13
  <2>2. 13 \in 2 .. 13 /\ "tasks" \in TablesSince(1)
    BY TableNames
  <2>4. SuppliedFrom(13, 1)
    BY <2>1, <2>2, SupplyBase
  <2>5. s[1].op = "index"
    BY <2>1 DEF IsIndex
  <2> QED BY <2>4, <2>5
<1>2. Goal(2)
  <2>1. IsIndex(s[2], "idx_subtasks_task_created", "subtasks", "task", {})
    BY Up13
  <2>2. 13 \in 2 .. 13 /\ "subtasks" \in TablesSince(1)
    BY TableNames
  <2>4. SuppliedFrom(13, 2)
    BY <2>1, <2>2, SupplyBase
  <2>5. s[2].op = "index"
    BY <2>1 DEF IsIndex
  <2> QED BY <2>4, <2>5
<1>3. Len(s) = 2
  BY Sound13
<1>4. \A k \in 1 .. 2 : Goal(k)
  <2> HIDE DEF Goal
  <2> QED BY <1>1, <1>2
<1> QED BY <1>3, <1>4

LEMMA SupplyVersion ==
    ASSUME NEW v \in 2 .. 13, NEW k \in 1 .. Len(UpStatements[v])
    PROVE  /\ UpStatements[v][k].op = "index" => SuppliedFrom(v, k)
           /\ UpStatements[v][k].op = "column" => UpStatements[v][k].table \in TablesSince(1)
<1> DEFINE Goal(u) == \A i \in 1 .. Len(UpStatements[u]) :
               /\ UpStatements[u][i].op = "index" => SuppliedFrom(u, i)
               /\ UpStatements[u][i].op = "column" => UpStatements[u][i].table \in TablesSince(1)
<1>2. Goal(2)
  BY Supply2
<1>3. Goal(3)
  BY Supply3
<1>4. Goal(4)
  BY Supply4
<1>5. Goal(5)
  BY Supply5
<1>6. Goal(6)
  BY Supply6
<1>7. Goal(7)
  BY Supply7
<1>8. Goal(8)
  BY Supply8
<1>9. Goal(9)
  BY Supply9
<1>10. Goal(10)
  BY Supply10
<1>11. Goal(11)
  BY Supply11
<1>12. Goal(12)
  BY Supply12
<1>13. Goal(13)
  BY Supply13
<1>14. Goal(v)
  <2> HIDE DEF Goal
  <2> QED BY <1>2, <1>3, <1>4, <1>5, <1>6, <1>7, <1>8, <1>9, <1>10, <1>11, <1>12, <1>13
<1> QED BY <1>14

\* A statement adds no index but its own.
LEMMA ExecAdds ==
    ASSUME NEW s, NEW stmt, IsSchema(s), stmt.op \in Op, NEW i \in Exec(s, stmt).indexes
    PROVE  i \in s.indexes \/ (stmt.op = "index" /\ i = stmt.index)
<1> DEFINE T == s.tables \cup {stmt.table}
           C == s.columns \cup Columns(stmt.table, stmt.columns) \cup {<<stmt.table, stmt.column>>}
           I == {e \in s.indexes \cup {stmt.index} : e \in s.indexes \/ stmt.op = "index"}
<1>1. Within(s, T, C, I)
  BY DEF Within
<1>2. Allowed(stmt, T, C, I)
  BY DEF Allowed
<1> HIDE DEF T, C
<1>3. Exec(s, stmt).indexes \subseteq I
  <2> HIDE DEF I
  <2>1. Within(Exec(s, stmt), T, C, I)
    BY <1>1, <1>2, ExecWithin
  <2> QED BY <2>1 DEF Within
<1> QED BY <1>3

LEMMA DropsIndex ==
    ASSUME NEW s, NEW stmt, IsSchema(s), ~s.failed, stmt.op = "drop index"
    PROVE  Exec(s, stmt).indexes = {i \in s.indexes : i.name # stmt.name}
BY ExecDropIndex DEF Becomes

LEMMA CourseAdds ==
    ASSUME NEW A, NEW s, NEW stmts, Course(A, s, stmts), Statements(stmts), IsSchema(s),
           NEW i, NEW m \in 0 .. Len(stmts), i \notin A[m].indexes,
           \A k \in (m + 1) .. Len(stmts) : ~(stmts[k].op = "index" /\ i = stmts[k].index)
    PROVE  i \notin A[Len(stmts)].indexes
<1> DEFINE N == Len(stmts)
           T == {k \in m .. N : i \notin A[k].indexes}
<1>1. N \in Nat /\ m \in Nat /\ m <= N /\ N \in m .. N
  BY DEF Statements
<1>2. m \in T
  BY <1>1
<1>3. ASSUME NEW k \in (m + 1) .. N, k - 1 \in T PROVE k \in T
  <2>1. k \in 1 .. Len(stmts) /\ k - 1 \in 0 .. Len(stmts) /\ k \in m .. N
    BY <1>1
  <2>2. A[k] = Exec(A[k - 1], stmts[k]) /\ IsSchema(A[k - 1]) /\ stmts[k].op \in Op
    BY <2>1, CourseIsSchema DEF Course, Statements
  <2>3. i \notin A[k - 1].indexes
    BY <1>3
  <2>4. ~(stmts[k].op = "index" /\ i = stmts[k].index)
    OBVIOUS
  <2>5. i \notin A[k].indexes
    BY <2>2, <2>3, <2>4, ExecAdds
  <2> QED BY <2>1, <2>5
<1>4. \A k \in (m + 1) .. N : k - 1 \in T => k \in T
  BY <1>3
<1> HIDE DEF T, N
<1>5. \A k \in m .. N : k \in T
  BY <1>1, <1>2, <1>4, UpFrom
<1>6. N \in T
  BY <1>1, <1>5
<1> QED BY <1>6 DEF T, N

\* A schema of version v that a migration may start from, and leaves.
Ready(v, s) ==
    s \in Schemas /\ Fits(v, s) /\ WithColumn(s, "board_idempotency_keys", "state")

LEMMA SchemaParts ==
    ASSUME NEW s
    PROVE  s \in Schemas <=> IsSchema(s) /\ ~s.failed /\ Within(s, AllTables, AllColumns,
             AllIndexes)
BY DEF Schemas, IsSchema, Within

LEMMA UpIsStatements ==
    ASSUME NEW v \in 2 .. 13
    PROVE  Statements(UpStatements[v])
BY SoundVersion DEF Statements, Sound

\* What the course of a migration from the second on makes of a schema that is ready.
LEMMA UpCourseSucceeds ==
    ASSUME NEW v \in 2 .. 13, NEW s, Ready(v - 1, s), NEW A, Course(A, s, UpStatements[v])
    PROVE  /\ \A k \in 0 .. Len(UpStatements[v]) :
                 WithColumn(A[k], "board_idempotency_keys", "state")
           /\ ~A[Len(UpStatements[v])].failed
<1> DEFINE stmts == UpStatements[v]
<1>1. IsSchema(s) /\ ~s.failed
  BY SchemaParts DEF Ready
<1>2. Statements(stmts)
  BY UpIsStatements
<1>3. \A k \in 1 .. Len(stmts) : Sound(v, stmts[k])
  BY SoundVersion
<1>4. \A k \in 0 .. Len(stmts) : WithColumn(A[k], "board_idempotency_keys", "state")
  <2>1. ASSUME NEW k \in 1 .. Len(stmts),
               stmts[k].op = "table", stmts[k].table = "board_idempotency_keys"
        PROVE  "state" \in stmts[k].columns
    <3>1. Sound(v, stmts[k])
      BY <1>3
    <3> HIDE DEF stmts
    <3>2. v = 9
      BY <2>1, <3>1, TheTables DEF Sound
    <3>3. stmts[k].columns = {"state"}
      BY <2>1, <3>1, <3>2 DEF Sound
    <3> QED BY <3>3
  <2>2. \A k \in 1 .. Len(stmts) :
           stmts[k].op = "table" /\ stmts[k].table = "board_idempotency_keys"
              => "state" \in stmts[k].columns
    BY <2>1
  <2>3. WithColumn(s, "board_idempotency_keys", "state")
    BY DEF Ready
  <2> HIDE DEF stmts
  <2>4. Course(A, s, stmts)
    BY DEF stmts
  <2> QED BY <1>1, <1>2, <2>2, <2>3, <2>4, CourseWithColumn
<1>5. ASSUME NEW k \in 1 .. Len(stmts), stmts[k].op = "index" PROVE Supplied(A, stmts, k)
  <2>1. SuppliedFrom(v, k)
    BY <1>5, SupplyVersion
  <2>2. A[0] = s
    BY DEF Course
  <2>3. \A w \in 1 .. (v - 1) : TablesSince(w) \subseteq s.tables
          /\ ColumnsSince(w) \subseteq s.columns
    BY DEF Ready, Fits
  <2>4. TablesSince(1) \subseteq s.tables
    BY <2>3
  <2> DEFINE t == stmts[k].index.table
  <2>5. \/ t \in A[0].tables
        \/ \E j \in 1 .. (k - 1) : stmts[j].op = "table" /\ stmts[j].table = t
    BY <2>1, <2>2, <2>3 DEF SuppliedFrom
  <2>6. ASSUME NEW c \in stmts[k].columns
        PROVE  \/ <<t, c>> \in A[0].columns
               \/ \E j \in 1 .. (k - 1) : /\ stmts[j].op = "column" /\ stmts[j].table = t
                                          /\ stmts[j].column = c /\ t \in A[0].tables
               \/ \A j \in 0 .. Len(stmts) : WithColumn(A[j], t, c)
    <3>1. CASE \E w \in 1 .. (v - 1) : <<t, c>> \in ColumnsSince(w)
      BY <2>2, <2>3, <3>1
    <3>2. CASE \E j \in 1 .. (k - 1) : /\ stmts[j].op = "column" /\ stmts[j].table = t
                                       /\ stmts[j].column = c /\ t \in TablesSince(1)
      BY <2>2, <2>4, <3>2
    <3>3. CASE t = "board_idempotency_keys" /\ c = "state"
      <4>1. \A j \in 0 .. Len(stmts) : WithColumn(A[j], t, c)
        BY <1>4, <3>3
      <4> QED BY <4>1
    <3> QED BY <2>1, <3>1, <3>2, <3>3 DEF SuppliedFrom
  <2> QED BY <2>5, <2>6 DEF Supplied
<1>6. \A k \in 1 .. Len(stmts) : ~DropsTable(stmts[k])
  BY <1>3 DEF Sound, DropsTable
<1>7. \A k \in 1 .. Len(stmts) : stmts[k].op = "index" => Supplied(A, stmts, k)
  BY <1>5
<1>8. ~A[Len(stmts)].failed
  <2> HIDE DEF stmts
  <2>1. Course(A, s, stmts)
    BY DEF stmts
  <2> QED BY <1>1, <1>2, <1>6, <1>7, <2>1, CourseSucceeds
<1> QED BY <1>4, <1>8

\* Version 12 drops the indexes that it supersedes, and no later version makes one.
LEMMA UpSupersedes ==
    ASSUME NEW v \in 12 .. 13, NEW s, Ready(v - 1, s), NEW A, Course(A, s, UpStatements[v])
    PROVE  A[Len(UpStatements[v])].indexes \cap Superseded = {}
<1> DEFINE stmts == UpStatements[v]
<1>1. IsSchema(s) /\ Statements(stmts) /\ v \in 2 .. 13
  BY SchemaParts, UpIsStatements DEF Ready
<1>2. \A k \in 1 .. Len(stmts) : \A i \in Superseded : ~(stmts[k].op = "index"
        /\ i = stmts[k].index)
  <2> SUFFICES ASSUME NEW k \in 1 .. Len(stmts), NEW i \in Superseded
               PROVE  ~(stmts[k].op = "index" /\ i = stmts[k].index)
    OBVIOUS
  <2>1. Sound(v, stmts[k])
    BY <1>1, SoundVersion
  <2> HIDE DEF stmts
  <2>2. stmts[k].op = "index" => stmts[k].index \notin Superseded
    BY <2>1 DEF Sound, EntryOf
  <2> QED BY <2>2
<1>3. Len(stmts) \in Nat
  BY <1>1 DEF Statements
<1>4. ASSUME NEW m \in 0 .. Len(stmts), NEW i \in Superseded, i \notin A[m].indexes
      PROVE  i \notin A[Len(stmts)].indexes
  <2>1. \A k \in (m + 1) .. Len(stmts) : ~(stmts[k].op = "index" /\ i = stmts[k].index)
    <3>1. \A k \in (m + 1) .. Len(stmts) : k \in 1 .. Len(stmts)
      BY <1>3
    <3> QED BY <1>2, <3>1
  <2> HIDE DEF stmts
  <2>2. Course(A, s, stmts)
    BY DEF stmts
  <2> QED BY <1>1, <1>4, <2>1, <2>2, CourseAdds
<1>5. CASE v = 13
  <2>1. s.indexes \cap Superseded = {}
    BY <1>5 DEF Ready, Fits
  <2>2. A[0] = s /\ 0 \in 0 .. Len(stmts)
    BY <1>3 DEF Course
  <2> QED BY <1>4, <2>1, <2>2
<1>6. CASE v = 12
  <2>1. Len(stmts) = 5
    BY <1>6, Sound12
  <2>2. /\ stmts[1].op = "drop index" /\ stmts[1].name = "idx_dependencies_source"
        /\ stmts[2].op = "drop index" /\ stmts[2].name = "idx_dependencies_depends_on"
    BY <1>6, Up12 DEF IsDropIndex
  <2>3. ~A[Len(stmts)].failed
    BY <1>1, UpCourseSucceeds
  <2> HIDE DEF stmts
  <2>4. Course(A, s, stmts)
    BY DEF stmts
  <2>5. \A k \in 0 .. 5 : IsSchema(A[k])
    BY <1>1, <2>1, <2>4, CourseIsSchema
  <2>6. \A k \in 0 .. 5 : ~A[k].failed
    BY <1>1, <2>1, <2>3, <2>4, CourseNotFailed
  <2>7. A[1] = Exec(A[0], stmts[1]) /\ A[2] = Exec(A[1], stmts[2])
    <3>1. \A k \in 1 .. 5 : A[k] = Exec(A[k - 1], stmts[k])
      BY <2>1, <2>4 DEF Course
    <3>2. A[1] = Exec(A[1 - 1], stmts[1]) /\ A[2] = Exec(A[2 - 1], stmts[2])
      BY <3>1
    <3> QED BY <3>2
  <2>7a. IsSchema(A[0]) /\ ~A[0].failed /\ IsSchema(A[1]) /\ ~A[1].failed
    BY <2>5, <2>6
  <2>8. A[1].indexes = {i \in A[0].indexes : i.name # stmts[1].name}
    <3> DEFINE q == A[0]
               stmt == stmts[1]
    <3>1. IsSchema(q) /\ ~q.failed /\ stmt.op = "drop index" /\ A[1] = Exec(q, stmt)
      BY <2>2, <2>7, <2>7a
    <3> HIDE DEF q, stmt
    <3>2. Exec(q, stmt).indexes = {i \in q.indexes : i.name # stmt.name}
      BY <3>1, DropsIndex
    <3> QED BY <3>1, <3>2 DEF q, stmt
  <2>9. A[2].indexes = {i \in A[1].indexes : i.name # stmts[2].name}
    <3> DEFINE q == A[1]
               stmt == stmts[2]
    <3>1. IsSchema(q) /\ ~q.failed /\ stmt.op = "drop index" /\ A[2] = Exec(q, stmt)
      BY <2>2, <2>7, <2>7a
    <3> HIDE DEF q, stmt
    <3>2. Exec(q, stmt).indexes = {i \in q.indexes : i.name # stmt.name}
      BY <3>1, DropsIndex
    <3> QED BY <3>1, <3>2 DEF q, stmt
  <2>10. ASSUME NEW i \in Superseded PROVE i \notin A[5].indexes
    <3>1. i.name = "idx_dependencies_source" \/ i.name = "idx_dependencies_depends_on"
      BY DEF Superseded, Index, IndexOn
    <3>2. CASE i.name = "idx_dependencies_source"
      <4>1. i \notin A[1].indexes
        BY <2>2, <2>8, <3>2
      <4>2. 1 \in 0 .. Len(stmts)
        BY <2>1
      <4> QED BY <1>4, <2>1, <4>1, <4>2
    <3>3. CASE i.name = "idx_dependencies_depends_on"
      <4>1. i \notin A[2].indexes
        BY <2>2, <2>9, <3>3
      <4>2. 2 \in 0 .. Len(stmts)
        BY <2>1
      <4> QED BY <1>4, <2>1, <4>1, <4>2
    <3> QED BY <3>1, <3>2, <3>3
  <2>11. A[Len(stmts)].indexes \cap Superseded = {}
    BY <2>1, <2>10
  <2> QED BY <2>11 DEF stmts
<1> QED BY <1>5, <1>6

\* What was there before a migration from the second on is there after it.
LEMMA UpKeeps ==
    ASSUME NEW v \in 2 .. 13, NEW s, Ready(v - 1, s), NEW A, Course(A, s, UpStatements[v]),
           NEW w \in 1 .. (v - 1)
    PROVE  LET r == A[Len(UpStatements[v])] IN
           /\ TablesSince(w) \subseteq r.tables
           /\ ColumnsSince(w) \subseteq r.columns
           /\ IndexesSince(w) \subseteq r.indexes
<1> DEFINE stmts == UpStatements[v]
           N == Len(stmts)
<1>1. IsSchema(s) /\ Statements(stmts)
  BY SchemaParts, UpIsStatements DEF Ready
<1>2. N \in Nat /\ 0 \in 0 .. N /\ N \in 0 .. N
  BY <1>1 DEF Statements
<1>3. A[0] = s
  BY DEF Course
<1>4. /\ TablesSince(w) \subseteq A[0].tables
      /\ ColumnsSince(w) \subseteq A[0].columns
      /\ IndexesSince(w) \subseteq A[0].indexes
  BY <1>3 DEF Ready, Fits
<1>5. ASSUME NEW k \in 1 .. N, NEW t PROVE SparesTable(stmts[k], t)
  <2>1. Sound(v, stmts[k])
    BY SoundVersion
  <2> HIDE DEF stmts
  <2> QED BY <2>1 DEF Sound, SparesTable
<1>6. ASSUME NEW k \in 1 .. N, NEW i \in IndexesSince(w) PROVE SparesIndex(stmts[k], i)
  <2>1. Sound(v, stmts[k]) /\ SparesTable(stmts[k], i.table)
    BY <1>5, SoundVersion
  <2>2. Entry(i.name).since = w
    BY SinceIndexes DEF EntryOf
  <2> HIDE DEF stmts
  <2> QED BY <2>1, <2>2 DEF Sound, SparesIndex
<1>7. Course(A, s, stmts)
  OBVIOUS
<1> HIDE DEF stmts
<1>8. /\ \A t \in A[0].tables : (\A k \in (0 + 1) .. N : SparesTable(stmts[k], t)) =>
        t \in A[N].tables
      /\ \A c \in A[0].columns : (\A k \in (0 + 1) .. N : SparesTable(stmts[k], c[1])) =>
        c \in A[N].columns
      /\ \A i \in A[0].indexes : (\A k \in (0 + 1) .. N : SparesIndex(stmts[k], i)) =>
        i \in A[N].indexes
  BY <1>1, <1>2, <1>7, CourseKeeps
<1>9. 0 + 1 = 1
  OBVIOUS
<1> HIDE DEF N
<1>10. TablesSince(w) \subseteq A[N].tables
  BY <1>4, <1>5, <1>8, <1>9
<1>11. ColumnsSince(w) \subseteq A[N].columns
  BY <1>4, <1>5, <1>8, <1>9
<1>12. IndexesSince(w) \subseteq A[N].indexes
  BY <1>4, <1>6, <1>8, <1>9
<1> QED BY <1>10, <1>11, <1>12 DEF N, stmts

\* Where the statements that drop are over.
LEMMA UpMakes ==
    ASSUME NEW v \in 2 .. 13, NEW s, Ready(v - 1, s), NEW A, Course(A, s, UpStatements[v]),
           NEW k \in 1 .. Len(UpStatements[v])
    PROVE  LET r == A[Len(UpStatements[v])]
               stmt == UpStatements[v][k]
           IN  /\ stmt.op = "table" => stmt.table \in r.tables
               /\ stmt.op = "column" => <<stmt.table, stmt.column>> \in r.columns
               /\ stmt.op = "index" => Indexed(r, stmt.index.name)
<1> DEFINE stmts == UpStatements[v]
           N == Len(stmts)
           m == IF v = 12 THEN 2 ELSE 0
           r == A[N]
<1>1. IsSchema(s) /\ Statements(stmts) /\ ~A[N].failed
  BY SchemaParts, UpIsStatements, UpCourseSucceeds DEF Ready
<1>2. N \in Nat
  BY <1>1 DEF Statements
<1>3. m \in 0 .. N
  <2>1. v = 12 => N = 5
    BY Sound12
  <2> HIDE DEF N
  <2> QED BY <1>2, <2>1
<1>4. ASSUME NEW j \in 1 .. N PROVE Sound(v, stmts[j])
  BY SoundVersion
<1>5. v = 12 => /\ stmts[1].op = "drop index" /\ stmts[2].op = "drop index"
                /\ stmts[3].op = "index" /\ stmts[4].op = "index" /\ stmts[5].op = "index" /\ N = 5
  <2> SUFFICES ASSUME v = 12
               PROVE  /\ stmts[1].op = "drop index" /\ stmts[2].op = "drop index"
                      /\ stmts[3].op = "index" /\ stmts[4].op = "index" /\ stmts[5].op = "index"
                        /\ N = 5
    OBVIOUS
  <2> QED BY Up12, Sound12 DEF IsDropIndex, IsIndex
<1>6. Course(A, s, stmts)
  OBVIOUS
<1>7. stmts[k].op = "column" => stmts[k].table \in TablesSince(1)
  BY SupplyVersion
<1> HIDE DEF stmts, N
<1>8. ASSUME NEW j \in (m + 1) .. N PROVE Makes(stmts[j])
  <2>1. CASE v # 12
    <3>1. j \in 1 .. N
      BY <2>1
    <3> QED BY <1>4, <2>1, <3>1 DEF Sound, Makes, Op
  <2>2. CASE v = 12
    <3>1. j = 3 \/ j = 4 \/ j = 5
      <4>1. m = 2 /\ N = 5
        BY <1>5, <2>2
      <4> HIDE DEF m
      <4> QED BY <4>1
    <3> QED BY <1>5, <2>2, <3>1 DEF Makes
  <2> QED BY <2>1, <2>2
<1>9. \A j \in (m + 1) .. Len(stmts) : Makes(stmts[j])
  BY <1>8 DEF N
<1>10. m \in 0 .. Len(stmts) /\ ~A[Len(stmts)].failed
  BY <1>1, <1>3 DEF N
<1>11. stmts[k].op = "column" => stmts[k].table \in A[m].tables
  <2> SUFFICES ASSUME stmts[k].op = "column" PROVE stmts[k].table \in A[m].tables
    OBVIOUS
  <2>1. v \in {4, 6, 11}
    BY <1>4 DEF Sound, N, stmts
  <2>2. m = 0
    BY <2>1
  <2>3. A[0] = s
    BY <1>6 DEF Course
  <2>4. TablesSince(1) \subseteq s.tables
    <3>1. 1 \in 1 .. (v - 1)
      OBVIOUS
    <3> QED BY <3>1 DEF Ready, Fits
  <2> QED BY <1>7, <2>2, <2>3, <2>4
<1> HIDE DEF m
<1>12. \A j \in (m + 1) .. Len(stmts) :
          /\ stmts[j].op = "table" => stmts[j].table \in A[Len(stmts)].tables
          /\ stmts[j].op = "column" /\ stmts[j].table \in A[m].tables
                => <<stmts[j].table, stmts[j].column>> \in A[Len(stmts)].columns
          /\ stmts[j].op = "index" => Indexed(A[Len(stmts)], stmts[j].index.name)
  BY <1>1, <1>6, <1>9, <1>10, CourseMakes
<1>13. CASE k \in (m + 1) .. Len(stmts)
  BY <1>11, <1>12, <1>13 DEF N, stmts
<1>14. CASE k \notin (m + 1) .. Len(stmts)
  <2>1. v = 12 /\ (k = 1 \/ k = 2)
    <3>1. k \in 1 .. N
      BY DEF N, stmts
    <3>2. k \notin (m + 1) .. N
      BY <1>14 DEF N
    <3> QED BY <1>2, <3>1, <3>2 DEF m
  <2>2. stmts[k].op = "drop index"
    BY <1>5, <2>1
  <2> QED BY <2>2 DEF stmts
<1> QED BY <1>13, <1>14

LEMMA UpReady ==
    ASSUME NEW v \in 2 .. 13, NEW s, Ready(v - 1, s)
    PROVE  Ready(v, ExecAll(s, UpStatements[v]))
<1> DEFINE stmts == UpStatements[v]
           N == Len(stmts)
<1>1. IsSchema(s) /\ Statements(stmts)
  BY SchemaParts, UpIsStatements DEF Ready
<1>2. N \in Nat /\ N \in 0 .. N
  BY <1>1 DEF Statements
<1>3. PICK A : Course(A, s, stmts) /\ ExecAll(s, stmts) = A[N]
  BY <1>2, ExecAllCourse
<1> DEFINE r == A[N]
<1>4. ~r.failed /\ WithColumn(r, "board_idempotency_keys", "state")
  BY <1>2, <1>3, UpCourseSucceeds
<1>5. IsSchema(r) /\ Within(r, AllTables, AllColumns, AllIndexes)
  <2>1. \A k \in 1 .. N : Allowed(stmts[k], AllTables, AllColumns, AllIndexes)
    BY UpAllowed
  <2>2. Within(s, AllTables, AllColumns, AllIndexes)
    BY SchemaParts DEF Ready
  <2> HIDE DEF stmts
  <2>3. IsSchema(A[N])
    BY <1>1, <1>2, <1>3, CourseIsSchema
  <2>4. Within(A[N], AllTables, AllColumns, AllIndexes)
    BY <1>1, <1>2, <1>3, <2>1, <2>2, CourseWithin
  <2> QED BY <2>3, <2>4
<1>6. r \in Schemas
  BY <1>4, <1>5, SchemaParts
<1>7. v >= 12 => r.indexes \cap Superseded = {}
  <2> SUFFICES ASSUME v \in 12 .. 13 PROVE r.indexes \cap Superseded = {}
    OBVIOUS
  <2> QED BY <1>3, UpSupersedes
<1>8. ASSUME NEW w \in 1 .. (v - 1)
      PROVE  /\ TablesSince(w) \subseteq r.tables
             /\ ColumnsSince(w) \subseteq r.columns
             /\ IndexesSince(w) \subseteq r.indexes
  BY <1>3, UpKeeps
<1>9. ASSUME NEW k \in 1 .. N
      PROVE  /\ stmts[k].op = "table" => stmts[k].table \in r.tables
             /\ stmts[k].op = "column" => <<stmts[k].table, stmts[k].column>> \in r.columns
             /\ stmts[k].op = "index" => Indexed(r, stmts[k].index.name)
  BY <1>3, UpMakes
<1>10. DOMAIN stmts = 1 .. N
  BY SoundVersion
<1>11. /\ \A t \in TablesOf(v) : \E k \in 1 .. N : stmts[k].op = "table" /\ stmts[k].table = t
       /\ \A c \in ColumnsOf(v) :
             \E k \in 1 .. N : stmts[k].op = "column" /\ c = <<stmts[k].table, stmts[k].column>>
       /\ \A i \in IndexesOf(v) : \E k \in 1 .. N : stmts[k].op = "index" /\ stmts[k].index = i
  BY <1>10, OfVersion
<1> HIDE DEF stmts, N, r
<1>12. TablesSince(v) \subseteq r.tables
  <2> SUFFICES ASSUME NEW t \in TablesSince(v) PROVE t \in r.tables
    OBVIOUS
  <2>1. t \in TablesOf(v)
    BY DEF TablesSince
  <2>2. PICK k \in 1 .. N : stmts[k].op = "table" /\ stmts[k].table = t
    BY <1>11, <2>1
  <2> QED BY <1>9, <2>2
<1>13. ColumnsSince(v) \subseteq r.columns
  <2>1. CASE v # 10
    <3> SUFFICES ASSUME NEW c \in ColumnsOf(v) PROVE c \in r.columns
      BY <2>1 DEF ColumnsSince
    <3>1. PICK k \in 1 .. N : stmts[k].op = "column" /\ c = <<stmts[k].table, stmts[k].column>>
      BY <1>11
    <3> QED BY <1>9, <3>1
  <2>2. CASE v = 10
    <3>1. 9 \in 1 .. (v - 1)
      BY <2>2
    <3>2. "board_idempotency_keys" \in r.tables
      BY <1>8, <3>1, TableNames
    <3>3. <<"board_idempotency_keys", "state">> \in r.columns
      BY <1>4, <3>2 DEF WithColumn
    <3> QED BY <2>2, <3>3 DEF ColumnsSince, Columns
  <2> QED BY <2>1, <2>2
<1>14. ASSUME NEW i \in IndexesSince(v) PROVE i \in r.indexes
  <2>1. i \in IndexesOf(v) /\ i \notin Superseded
    BY DEF IndexesSince
  <2>2. Indexed(r, i.name)
    <3>1. PICK k \in 1 .. N : stmts[k].op = "index" /\ stmts[k].index = i
      BY <1>11, <2>1
    <3> QED BY <1>9, <3>1
  <2>3. PICK j \in r.indexes : j.name = i.name
    BY <2>2 DEF Indexed
  <2>4. j \in AllIndexes
    BY <1>5 DEF Within
  <2>5. EntryOf(v, i)
    BY SinceIndexes
  <2>6. ASSUME j \in Superseded PROVE FALSE
    <3>1. j.name = "idx_dependencies_source" \/ j.name = "idx_dependencies_depends_on"
      BY <2>6 DEF Superseded, Index, IndexOn
    <3>2. CASE j.name = "idx_dependencies_depends_on"
      <4>1. Entry("idx_dependencies_depends_on").since = 0
        BY DEF Entry, IndexSince
      <4> QED BY <2>3, <2>5, <3>2, <4>1 DEF EntryOf
    <3>3. CASE j.name = "idx_dependencies_source"
      <4>1. Entry("idx_dependencies_source").since = 12
        BY DEF Entry, IndexSince
      <4>2. v = 12
        BY <2>3, <2>5, <3>3, <4>1 DEF EntryOf
      <4> QED BY <1>7, <2>6, <4>2
    <3> QED BY <3>1, <3>2, <3>3
  <2>7. i \in AllIndexes
    <3>1. v \in 1 .. LatestMigrationVersion
      BY DEF LatestMigrationVersion
    <3> QED BY <3>1 DEF AllIndexes
  <2>8. i = j
    BY <2>1, <2>3, <2>4, <2>6, <2>7, OneIndexPerName
  <2> QED BY <2>8
<1>15. \A w \in 1 .. v : /\ TablesSince(w) \subseteq r.tables
                         /\ ColumnsSince(w) \subseteq r.columns
                         /\ IndexesSince(w) \subseteq r.indexes
  <2>1. \A w \in 1 .. v : w \in 1 .. (v - 1) \/ w = v
    OBVIOUS
  <2> QED BY <1>8, <1>12, <1>13, <1>14, <2>1
<1>16. Fits(v, r)
  BY <1>7, <1>15 DEF Fits
<1> QED BY <1>3, <1>4, <1>6, <1>16 DEF Ready, stmts, N, r

\* The base migration: what it gives a table that it makes.
LEMMA BaseGives ==
    \A k \in 1 .. 23 :
        UpStatements[1][k].op = "table" =>
            /\ UpStatements[1][k].table = "git_context" =>
              "metadata_scope" \in UpStatements[1][k].columns
            /\ UpStatements[1][k].table = "sync_cursors" => "owner" \in UpStatements[1][k].columns
            /\ UpStatements[1][k].table = "sync_conflicts" => "scope" \in UpStatements[1][k].columns
            /\ UpStatements[1][k].table = "board_idempotency_keys" =>
              "state" \in UpStatements[1][k].columns
<1> DEFINE Goal(stmt) ==
               /\ stmt.table = "git_context" => "metadata_scope" \in stmt.columns
               /\ stmt.table = "sync_cursors" => "owner" \in stmt.columns
               /\ stmt.table = "sync_conflicts" => "scope" \in stmt.columns
               /\ stmt.table = "board_idempotency_keys" => "state" \in stmt.columns
<1>1. Goal(BaseTables[1])
  BY UpTables DEF IsTable
<1>2. Goal(BaseTables[2])
  BY UpTables DEF IsTable
<1>3. Goal(BaseTables[3])
  BY UpTables DEF IsTable
<1>4. Goal(BaseTables[4])
  BY UpTables DEF IsTable
<1>5. Goal(BaseTables[5])
  BY UpTables DEF IsTable
<1>6. Goal(BaseTables[6])
  BY UpTables DEF IsTable
<1>7. Goal(BaseTables[7])
  BY UpTables DEF IsTable
<1>8. Goal(BaseTables[8])
  BY UpTables DEF IsTable
<1>9. Goal(BaseTables[9])
  BY UpTables DEF IsTable
<1>10. ASSUME NEW k \in 1 .. 23, UpStatements[1][k].op = "table"
       PROVE  Goal(UpStatements[1][k])
  <2> HIDE DEF Goal
  <2>1. k \in 1 .. 9 \/ k \in 10 .. 23
    OBVIOUS
  <2>2. k \in 10 .. 23 => UpStatements[1][k].op = "index"
    BY BaseStatement
  <2>3. k \in 1 .. 9
    BY <1>10, <2>1, <2>2
  <2>4. UpStatements[1][k] = BaseTables[k]
    BY <2>3, BaseStatement
  <2>5. Goal(BaseTables[k])
    BY <2>3, <1>1, <1>2, <1>3, <1>4, <1>5, <1>6, <1>7, <1>8, <1>9
  <2> QED BY <2>4, <2>5
<1> QED BY <1>10

LEMMA BaseIsStatements ==
    /\ Statements(UpStatements[1]) /\ Len(UpStatements[1]) = 23
    /\ \A k \in 1 .. 23 : Makes(UpStatements[1][k])
<1>1. \A k \in 1 .. 23 : UpStatements[1][k].op \in {"table", "index"}
  BY BaseAllowed
<1>2. Len(UpStatements[1]) = 23
  BY BaseStatement
<1>3. ASSUME NEW k \in 1 .. 23 PROVE UpStatements[1][k].op \in Op /\ Makes(UpStatements[1][k])
  BY <1>1 DEF Op, Makes
<1>4. 23 \in Nat
  OBVIOUS
<1>5. \A k \in 1 .. Len(UpStatements[1]) : UpStatements[1][k].op \in Op
  BY <1>2, <1>3
<1> QED BY <1>2, <1>3, <1>4, <1>5 DEF Statements

\* A base migration that succeeds, on what is left of any schema.
LEMMA BaseReady ==
    ASSUME NEW s, Ready(0, s), ~ExecAll(s, UpStatements[1]).failed
    PROVE  Ready(1, ExecAll(s, UpStatements[1]))
<1> DEFINE stmts == UpStatements[1]
<1>1. IsSchema(s) /\ Statements(stmts) /\ Len(stmts) = 23 /\ Len(stmts) \in Nat
  BY SchemaParts, BaseIsStatements DEF Ready, Statements
<1>2. PICK A : Course(A, s, stmts) /\ ExecAll(s, stmts) = A[Len(stmts)]
  BY <1>1, ExecAllCourse
<1> DEFINE r == A[Len(stmts)]
<1>3. WithColumn(s, "board_idempotency_keys", "state") /\ Within(s, AllTables, AllColumns,
        AllIndexes)
  BY SchemaParts DEF Ready
<1>4. \A k \in 1 .. Len(stmts) :
         stmts[k].op = "table" /\ stmts[k].table = "board_idempotency_keys"
            => "state" \in stmts[k].columns
  BY <1>1, BaseGives
<1>5. \A k \in 1 .. Len(stmts) : Allowed(stmts[k], AllTables, AllColumns, AllIndexes)
  BY <1>1, BaseAllowed
<1>6. ~r.failed
  BY <1>2
<1>7. DOMAIN stmts = 1 .. Len(stmts)
  BY BaseStatement
<1>8. \A k \in 1 .. 23 : Makes(stmts[k])
  BY BaseIsStatements
<1>9. \A t \in TablesOf(1) : \E k \in 1 .. Len(stmts) : stmts[k].op = "table" /\ stmts[k].table = t
  BY <1>7, OfVersion
<1> HIDE DEF stmts
<1>10. 0 \in 0 .. Len(stmts) /\ Len(stmts) \in 0 .. Len(stmts)
  BY <1>1
<1>11. WithColumn(r, "board_idempotency_keys", "state")
  BY <1>1, <1>2, <1>3, <1>4, <1>10, CourseWithColumn
<1>12. Within(r, AllTables, AllColumns, AllIndexes)
  BY <1>1, <1>2, <1>3, <1>5, <1>10, CourseWithin
<1>13. IsSchema(r)
  BY <1>1, <1>2, <1>10, CourseIsSchema
<1>14. r \in Schemas
  BY <1>6, <1>12, <1>13, SchemaParts
<1>15. \A k \in (0 + 1) .. Len(stmts) : Makes(stmts[k])
  BY <1>1, <1>8
<1>16. \A k \in (0 + 1) .. Len(stmts) :
          stmts[k].op = "table" => stmts[k].table \in A[Len(stmts)].tables
  BY <1>1, <1>2, <1>6, <1>10, <1>15, CourseMakes
<1>17. TablesSince(1) \subseteq r.tables
  <2> SUFFICES ASSUME NEW t \in TablesSince(1) PROVE t \in r.tables
    OBVIOUS
  <2>1. t \in TablesOf(1)
    BY DEF TablesSince
  <2>2. PICK k \in 1 .. Len(stmts) : stmts[k].op = "table" /\ stmts[k].table = t
    BY <1>9, <2>1
  <2>3. 0 + 1 = 1
    OBVIOUS
  <2> QED BY <1>16, <2>2, <2>3
<1>18. IndexesSince(1) = {}
  BY DEF IndexesSince
<1>19. ColumnsSince(1) = {}
  <2>1. \A c \in ColumnsSince(1) : TableSince(c[1]) < 1
    BY SinceColumns
  <2>2. \A t : TableSince(t) >= 1
    BY DEF TableSince
  <2>3. \A t : TableSince(t) \in Nat
    BY DEF TableSince
  <2> QED BY <2>1, <2>2, <2>3
<1> HIDE DEF r
<1>20. \A w \in 1 .. 1 : w = 1
  OBVIOUS
<1>21. Fits(1, r)
  BY <1>17, <1>18, <1>19, <1>20 DEF Fits
<1> QED BY <1>2, <1>11, <1>14, <1>21 DEF Ready, r, stmts

\* On a new file it succeeds.
LEMMA BaseSucceeds ==
    ~ExecAll(EmptySchema, UpStatements[1]).failed
<1> DEFINE stmts == UpStatements[1]
           s == EmptySchema
<1>1. IsSchema(s) /\ ~s.failed /\ Statements(stmts) /\ Len(stmts) = 23 /\ Len(stmts) \in Nat
  BY BaseIsStatements DEF EmptySchema, IsSchema, Statements
<1>2. PICK A : Course(A, s, stmts) /\ ExecAll(s, stmts) = A[Len(stmts)]
  BY <1>1, ExecAllCourse
<1>3. \A t, c : WithColumn(s, t, c)
  BY DEF WithColumn, EmptySchema
<1>4. ASSUME NEW t, NEW c, \A k \in 1 .. 23 : stmts[k].op = "table" /\ stmts[k].table = t =>
               c \in stmts[k].columns
      PROVE  \A j \in 0 .. Len(stmts) : WithColumn(A[j], t, c)
  <2> HIDE DEF stmts, s
  <2>1. \A k \in 1 .. Len(stmts) : stmts[k].op = "table" /\ stmts[k].table = t =>
          c \in stmts[k].columns
    BY <1>1, <1>4
  <2>2. WithColumn(s, t, c)
    BY <1>3
  <2> QED BY <1>1, <1>2, <2>1, <2>2, CourseWithColumn
<1>5. /\ \A j \in 0 .. Len(stmts) : WithColumn(A[j], "git_context", "metadata_scope")
      /\ \A j \in 0 .. Len(stmts) : WithColumn(A[j], "sync_cursors", "owner")
      /\ \A j \in 0 .. Len(stmts) : WithColumn(A[j], "sync_conflicts", "scope")
      /\ \A j \in 0 .. Len(stmts) : WithColumn(A[j], "board_idempotency_keys", "state")
  <2>1. \A j \in 0 .. Len(stmts) : WithColumn(A[j], "git_context", "metadata_scope")
    <3>1. \A k \in 1 .. 23 : stmts[k].op = "table" /\ stmts[k].table = "git_context" =>
            "metadata_scope" \in stmts[k].columns
      BY BaseGives
    <3> HIDE DEF stmts
    <3> QED BY <1>4, <3>1
  <2>2. \A j \in 0 .. Len(stmts) : WithColumn(A[j], "sync_cursors", "owner")
    <3>1. \A k \in 1 .. 23 : stmts[k].op = "table" /\ stmts[k].table = "sync_cursors" =>
            "owner" \in stmts[k].columns
      BY BaseGives
    <3> HIDE DEF stmts
    <3> QED BY <1>4, <3>1
  <2>3. \A j \in 0 .. Len(stmts) : WithColumn(A[j], "sync_conflicts", "scope")
    <3>1. \A k \in 1 .. 23 : stmts[k].op = "table" /\ stmts[k].table = "sync_conflicts" =>
            "scope" \in stmts[k].columns
      BY BaseGives
    <3> HIDE DEF stmts
    <3> QED BY <1>4, <3>1
  <2>4. \A j \in 0 .. Len(stmts) : WithColumn(A[j], "board_idempotency_keys", "state")
    <3>1. \A k \in 1 .. 23 : stmts[k].op = "table" /\ stmts[k].table = "board_idempotency_keys" =>
            "state" \in stmts[k].columns
      BY BaseGives
    <3> HIDE DEF stmts
    <3> QED BY <1>4, <3>1
  <2> QED BY <2>1, <2>2, <2>3, <2>4
<1>6. ASSUME NEW k \in 10 .. 23, NEW p \in 1 .. 9, NEW columns,
             stmts[k].index.table = stmts[p].table, stmts[k].columns = columns,
             \A c \in columns : \A j \in 0 .. Len(stmts) : WithColumn(A[j], stmts[p].table, c)
      PROVE  Supplied(A, stmts, k)
  <2>1. p \in 1 .. (k - 1) /\ stmts[p].op = "table"
    BY BaseStatement
  <2> HIDE DEF stmts
  <2> QED BY <1>6, <2>1 DEF Supplied
<1>7. Supplied(A, stmts, 10)
  <2>1. stmts[10] = BaseIndexes[1] /\ stmts[5] = BaseTables[5]
    <3>1. stmts[10] = BaseIndexes[10 - 9]
      BY BaseStatement
    <3> QED BY <3>1, BaseStatement
  <2>2. stmts[10].index.table = "events" /\ stmts[10].columns = {}
    <3>1. BaseIndexes[1].index.table = "events" /\ BaseIndexes[1].columns = {}
      <4>1. IsIndex(BaseIndexes[1], "idx_events_branch_cursor", "events", "branch", {})
        BY UpIndexes
      <4>2. PICK keys : IsIndex(BaseIndexes[1], "idx_events_branch_cursor", "events", keys, {})
        BY <4>1
      <4> QED BY <4>2, IndexParts
    <3> HIDE DEF stmts
    <3> QED BY <2>1, <3>1
  <2>3. stmts[5].table = "events"
    BY <2>1, UpTables DEF IsTable
  <2>4. 10 \in 10 .. 23 /\ 5 \in 1 .. 9
    OBVIOUS
  <2> HIDE DEF stmts
  <2> QED BY <1>6, <2>2, <2>3, <2>4
<1>8. Supplied(A, stmts, 11)
  <2>1. stmts[11] = BaseIndexes[2] /\ stmts[5] = BaseTables[5]
    <3>1. stmts[11] = BaseIndexes[11 - 9]
      BY BaseStatement
    <3> QED BY <3>1, BaseStatement
  <2>2. stmts[11].index.table = "events" /\ stmts[11].columns = {}
    <3>1. BaseIndexes[2].index.table = "events" /\ BaseIndexes[2].columns = {}
      <4>1. IsIndex(BaseIndexes[2], "idx_events_entity_branch_cursor", "events", "entity", {})
        BY UpIndexes
      <4>2. PICK keys : IsIndex(BaseIndexes[2], "idx_events_entity_branch_cursor", "events", keys,
              {})
        BY <4>1
      <4> QED BY <4>2, IndexParts
    <3> HIDE DEF stmts
    <3> QED BY <2>1, <3>1
  <2>3. stmts[5].table = "events"
    BY <2>1, UpTables DEF IsTable
  <2>4. 11 \in 10 .. 23 /\ 5 \in 1 .. 9
    OBVIOUS
  <2> HIDE DEF stmts
  <2> QED BY <1>6, <2>2, <2>3, <2>4
<1>9. Supplied(A, stmts, 12)
  <2>1. stmts[12] = BaseIndexes[3] /\ stmts[6] = BaseTables[6]
    <3>1. stmts[12] = BaseIndexes[12 - 9]
      BY BaseStatement
    <3> QED BY <3>1, BaseStatement
  <2>2. stmts[12].index.table = "git_context" /\ stmts[12].columns = {"metadata_scope"}
    <3>1. BaseIndexes[3].index.table = "git_context" /\ BaseIndexes[3].columns = {"metadata_scope"}
      <4>1. IsIndex(BaseIndexes[3], "idx_git_context_scope_path", "git_context", "scope",
              {"metadata_scope"})
        BY UpIndexes
      <4>2. PICK keys : IsIndex(BaseIndexes[3], "idx_git_context_scope_path", "git_context", keys,
              {"metadata_scope"})
        BY <4>1
      <4> QED BY <4>2, IndexParts
    <3> HIDE DEF stmts
    <3> QED BY <2>1, <3>1
  <2>3. stmts[6].table = "git_context"
    BY <2>1, UpTables DEF IsTable
  <2>4. 12 \in 10 .. 23 /\ 6 \in 1 .. 9
    OBVIOUS
  <2> HIDE DEF stmts
  <2> QED BY <1>5, <1>6, <2>2, <2>3, <2>4
<1>10. Supplied(A, stmts, 13)
  <2>1. stmts[13] = BaseIndexes[4] /\ stmts[7] = BaseTables[7]
    <3>1. stmts[13] = BaseIndexes[13 - 9]
      BY BaseStatement
    <3> QED BY <3>1, BaseStatement
  <2>2. stmts[13].index.table = "sync_cursors" /\ stmts[13].columns = {"owner"}
    <3>1. BaseIndexes[4].index.table = "sync_cursors" /\ BaseIndexes[4].columns = {"owner"}
      <4>1. IsIndex(BaseIndexes[4], "idx_sync_cursors_owner", "sync_cursors", "owner", {"owner"})
        BY UpIndexes
      <4>2. PICK keys : IsIndex(BaseIndexes[4], "idx_sync_cursors_owner", "sync_cursors", keys,
              {"owner"})
        BY <4>1
      <4> QED BY <4>2, IndexParts
    <3> HIDE DEF stmts
    <3> QED BY <2>1, <3>1
  <2>3. stmts[7].table = "sync_cursors"
    BY <2>1, UpTables DEF IsTable
  <2>4. 13 \in 10 .. 23 /\ 7 \in 1 .. 9
    OBVIOUS
  <2> HIDE DEF stmts
  <2> QED BY <1>5, <1>6, <2>2, <2>3, <2>4
<1>11. Supplied(A, stmts, 14)
  <2>1. stmts[14] = BaseIndexes[5] /\ stmts[8] = BaseTables[8]
    <3>1. stmts[14] = BaseIndexes[14 - 9]
      BY BaseStatement
    <3> QED BY <3>1, BaseStatement
  <2>2. stmts[14].index.table = "sync_conflicts" /\ stmts[14].columns = {}
    <3>1. BaseIndexes[5].index.table = "sync_conflicts" /\ BaseIndexes[5].columns = {}
      <4>1. IsIndex(BaseIndexes[5], "idx_conflicts_resolution_entity_field_id", "sync_conflicts",
              "resolution", {})
        BY UpIndexes
      <4>2. PICK keys : IsIndex(BaseIndexes[5], "idx_conflicts_resolution_entity_field_id",
              "sync_conflicts", keys, {})
        BY <4>1
      <4> QED BY <4>2, IndexParts
    <3> HIDE DEF stmts
    <3> QED BY <2>1, <3>1
  <2>3. stmts[8].table = "sync_conflicts"
    BY <2>1, UpTables DEF IsTable
  <2>4. 14 \in 10 .. 23 /\ 8 \in 1 .. 9
    OBVIOUS
  <2> HIDE DEF stmts
  <2> QED BY <1>6, <2>2, <2>3, <2>4
<1>12. Supplied(A, stmts, 15)
  <2>1. stmts[15] = BaseIndexes[6] /\ stmts[8] = BaseTables[8]
    <3>1. stmts[15] = BaseIndexes[15 - 9]
      BY BaseStatement
    <3> QED BY <3>1, BaseStatement
  <2>2. stmts[15].index.table = "sync_conflicts" /\ stmts[15].columns = {"scope"}
    <3>1. BaseIndexes[6].index.table = "sync_conflicts" /\ BaseIndexes[6].columns = {"scope"}
      <4>1. IsIndex(BaseIndexes[6], "idx_sync_conflicts_scope_entity", "sync_conflicts", "entity",
              {"scope"})
        BY UpIndexes
      <4>2. PICK keys : IsIndex(BaseIndexes[6], "idx_sync_conflicts_scope_entity",
              "sync_conflicts", keys, {"scope"})
        BY <4>1
      <4> QED BY <4>2, IndexParts
    <3> HIDE DEF stmts
    <3> QED BY <2>1, <3>1
  <2>3. stmts[8].table = "sync_conflicts"
    BY <2>1, UpTables DEF IsTable
  <2>4. 15 \in 10 .. 23 /\ 8 \in 1 .. 9
    OBVIOUS
  <2> HIDE DEF stmts
  <2> QED BY <1>5, <1>6, <2>2, <2>3, <2>4
<1>13. Supplied(A, stmts, 16)
  <2>1. stmts[16] = BaseIndexes[7] /\ stmts[8] = BaseTables[8]
    <3>1. stmts[16] = BaseIndexes[16 - 9]
      BY BaseStatement
    <3> QED BY <3>1, BaseStatement
  <2>2. stmts[16].index.table = "sync_conflicts" /\ stmts[16].columns = {"scope"}
    <3>1. BaseIndexes[7].index.table = "sync_conflicts" /\ BaseIndexes[7].columns = {"scope"}
      <4>1. IsIndex(BaseIndexes[7], "idx_sync_conflicts_scope_resolution", "sync_conflicts",
              "scope", {"scope"})
        BY UpIndexes
      <4>2. PICK keys : IsIndex(BaseIndexes[7], "idx_sync_conflicts_scope_resolution",
              "sync_conflicts", keys, {"scope"})
        BY <4>1
      <4> QED BY <4>2, IndexParts
    <3> HIDE DEF stmts
    <3> QED BY <2>1, <3>1
  <2>3. stmts[8].table = "sync_conflicts"
    BY <2>1, UpTables DEF IsTable
  <2>4. 16 \in 10 .. 23 /\ 8 \in 1 .. 9
    OBVIOUS
  <2> HIDE DEF stmts
  <2> QED BY <1>5, <1>6, <2>2, <2>3, <2>4
<1>14. Supplied(A, stmts, 17)
  <2>1. stmts[17] = BaseIndexes[8] /\ stmts[9] = BaseTables[9]
    <3>1. stmts[17] = BaseIndexes[17 - 9]
      BY BaseStatement
    <3> QED BY <3>1, BaseStatement
  <2>2. stmts[17].index.table = "board_idempotency_keys" /\ stmts[17].columns = {}
    <3>1. BaseIndexes[8].index.table = "board_idempotency_keys" /\ BaseIndexes[8].columns = {}
      <4>1. IsIndex(BaseIndexes[8], "idx_board_idempotency_created_at", "board_idempotency_keys",
              "created", {})
        BY UpIndexes
      <4>2. PICK keys : IsIndex(BaseIndexes[8], "idx_board_idempotency_created_at",
              "board_idempotency_keys", keys, {})
        BY <4>1
      <4> QED BY <4>2, IndexParts
    <3> HIDE DEF stmts
    <3> QED BY <2>1, <3>1
  <2>3. stmts[9].table = "board_idempotency_keys"
    BY <2>1, UpTables DEF IsTable
  <2>4. 17 \in 10 .. 23 /\ 9 \in 1 .. 9
    OBVIOUS
  <2> HIDE DEF stmts
  <2> QED BY <1>6, <2>2, <2>3, <2>4
<1>15. Supplied(A, stmts, 18)
  <2>1. stmts[18] = BaseIndexes[9] /\ stmts[9] = BaseTables[9]
    <3>1. stmts[18] = BaseIndexes[18 - 9]
      BY BaseStatement
    <3> QED BY <3>1, BaseStatement
  <2>2. stmts[18].index.table = "board_idempotency_keys" /\ stmts[18].columns = {"state"}
    <3>1. BaseIndexes[9].index.table = "board_idempotency_keys"
            /\ BaseIndexes[9].columns = {"state"}
      <4>1. IsIndex(BaseIndexes[9], "idx_board_idempotency_state_created_at",
              "board_idempotency_keys", "state", {"state"})
        BY UpIndexes
      <4>2. PICK keys : IsIndex(BaseIndexes[9], "idx_board_idempotency_state_created_at",
              "board_idempotency_keys", keys, {"state"})
        BY <4>1
      <4> QED BY <4>2, IndexParts
    <3> HIDE DEF stmts
    <3> QED BY <2>1, <3>1
  <2>3. stmts[9].table = "board_idempotency_keys"
    BY <2>1, UpTables DEF IsTable
  <2>4. 18 \in 10 .. 23 /\ 9 \in 1 .. 9
    OBVIOUS
  <2> HIDE DEF stmts
  <2> QED BY <1>5, <1>6, <2>2, <2>3, <2>4
<1>16. Supplied(A, stmts, 19)
  <2>1. stmts[19] = BaseIndexes[10] /\ stmts[4] = BaseTables[4]
    <3>1. stmts[19] = BaseIndexes[19 - 9]
      BY BaseStatement
    <3> QED BY <3>1, BaseStatement
  <2>2. stmts[19].index.table = "dependencies" /\ stmts[19].columns = {}
    <3>1. BaseIndexes[10].index.table = "dependencies" /\ BaseIndexes[10].columns = {}
      <4>1. IsIndex(BaseIndexes[10], "idx_dependencies_source", "dependencies", "source, kind", {})
        BY UpIndexes
      <4>2. PICK keys : IsIndex(BaseIndexes[10], "idx_dependencies_source", "dependencies", keys,
              {})
        BY <4>1
      <4> QED BY <4>2, IndexParts
    <3> HIDE DEF stmts
    <3> QED BY <2>1, <3>1
  <2>3. stmts[4].table = "dependencies"
    BY <2>1, UpTables DEF IsTable
  <2>4. 19 \in 10 .. 23 /\ 4 \in 1 .. 9
    OBVIOUS
  <2> HIDE DEF stmts
  <2> QED BY <1>6, <2>2, <2>3, <2>4
<1>17. Supplied(A, stmts, 20)
  <2>1. stmts[20] = BaseIndexes[11] /\ stmts[4] = BaseTables[4]
    <3>1. stmts[20] = BaseIndexes[20 - 9]
      BY BaseStatement
    <3> QED BY <3>1, BaseStatement
  <2>2. stmts[20].index.table = "dependencies" /\ stmts[20].columns = {}
    <3>1. BaseIndexes[11].index.table = "dependencies" /\ BaseIndexes[11].columns = {}
      <4>1. IsIndex(BaseIndexes[11], "idx_dependencies_target", "dependencies", "target, kind", {})
        BY UpIndexes
      <4>2. PICK keys : IsIndex(BaseIndexes[11], "idx_dependencies_target", "dependencies", keys,
              {})
        BY <4>1
      <4> QED BY <4>2, IndexParts
    <3> HIDE DEF stmts
    <3> QED BY <2>1, <3>1
  <2>3. stmts[4].table = "dependencies"
    BY <2>1, UpTables DEF IsTable
  <2>4. 20 \in 10 .. 23 /\ 4 \in 1 .. 9
    OBVIOUS
  <2> HIDE DEF stmts
  <2> QED BY <1>6, <2>2, <2>3, <2>4
<1>18. Supplied(A, stmts, 21)
  <2>1. stmts[21] = BaseIndexes[12] /\ stmts[4] = BaseTables[4]
    <3>1. stmts[21] = BaseIndexes[21 - 9]
      BY BaseStatement
    <3> QED BY <3>1, BaseStatement
  <2>2. stmts[21].index.table = "dependencies" /\ stmts[21].columns = {}
    <3>1. BaseIndexes[12].index.table = "dependencies" /\ BaseIndexes[12].columns = {}
      <4>1. IsIndex(BaseIndexes[12], "uniq_dependencies_edge", "dependencies", "edge, kinds", {})
        BY UpIndexes
      <4>2. PICK keys : IsIndex(BaseIndexes[12], "uniq_dependencies_edge", "dependencies", keys, {})
        BY <4>1
      <4> QED BY <4>2, IndexParts
    <3> HIDE DEF stmts
    <3> QED BY <2>1, <3>1
  <2>3. stmts[4].table = "dependencies"
    BY <2>1, UpTables DEF IsTable
  <2>4. 21 \in 10 .. 23 /\ 4 \in 1 .. 9
    OBVIOUS
  <2> HIDE DEF stmts
  <2> QED BY <1>6, <2>2, <2>3, <2>4
<1>19. Supplied(A, stmts, 22)
  <2>1. stmts[22] = BaseIndexes[13] /\ stmts[2] = BaseTables[2]
    <3>1. stmts[22] = BaseIndexes[22 - 9]
      BY BaseStatement
    <3> QED BY <3>1, BaseStatement
  <2>2. stmts[22].index.table = "tasks" /\ stmts[22].columns = {}
    <3>1. BaseIndexes[13].index.table = "tasks" /\ BaseIndexes[13].columns = {}
      <4>1. IsIndex(BaseIndexes[13], "idx_tasks_epic_created", "tasks", "epic", {})
        BY UpIndexes
      <4>2. PICK keys : IsIndex(BaseIndexes[13], "idx_tasks_epic_created", "tasks", keys, {})
        BY <4>1
      <4> QED BY <4>2, IndexParts
    <3> HIDE DEF stmts
    <3> QED BY <2>1, <3>1
  <2>3. stmts[2].table = "tasks"
    BY <2>1, UpTables DEF IsTable
  <2>4. 22 \in 10 .. 23 /\ 2 \in 1 .. 9
    OBVIOUS
  <2> HIDE DEF stmts
  <2> QED BY <1>6, <2>2, <2>3, <2>4
<1>20. Supplied(A, stmts, 23)
  <2>1. stmts[23] = BaseIndexes[14] /\ stmts[3] = BaseTables[3]
    <3>1. stmts[23] = BaseIndexes[23 - 9]
      BY BaseStatement
    <3> QED BY <3>1, BaseStatement
  <2>2. stmts[23].index.table = "subtasks" /\ stmts[23].columns = {}
    <3>1. BaseIndexes[14].index.table = "subtasks" /\ BaseIndexes[14].columns = {}
      <4>1. IsIndex(BaseIndexes[14], "idx_subtasks_task_created", "subtasks", "task", {})
        BY UpIndexes
      <4>2. PICK keys : IsIndex(BaseIndexes[14], "idx_subtasks_task_created", "subtasks", keys, {})
        BY <4>1
      <4> QED BY <4>2, IndexParts
    <3> HIDE DEF stmts
    <3> QED BY <2>1, <3>1
  <2>3. stmts[3].table = "subtasks"
    BY <2>1, UpTables DEF IsTable
  <2>4. 23 \in 10 .. 23 /\ 3 \in 1 .. 9
    OBVIOUS
  <2> HIDE DEF stmts
  <2> QED BY <1>6, <2>2, <2>3, <2>4
<1>21. \A k \in 10 .. 23 : Supplied(A, stmts, k)
  <2> HIDE DEF stmts
  <2> QED BY <1>7, <1>8, <1>9, <1>10, <1>11, <1>12, <1>13, <1>14, <1>15, <1>16, <1>17, <1>18,
               <1>19, <1>20
<1>22. \A k \in 1 .. 23 : stmts[k].op = "index" => Supplied(A, stmts, k)
  <2>1. \A k \in 1 .. 9 : stmts[k].op = "table"
    BY BaseStatement
  <2>2. \A k \in 1 .. 23 : k \in 1 .. 9 \/ k \in 10 .. 23
    OBVIOUS
  <2> HIDE DEF stmts
  <2> QED BY <1>21, <2>1, <2>2
<1>23. \A k \in 1 .. 23 : ~DropsTable(stmts[k])
  BY BaseIsStatements DEF Makes, DropsTable
<1>24. ~A[Len(stmts)].failed
  <2> HIDE DEF stmts, s
  <2>1. \A k \in 1 .. Len(stmts) : stmts[k].op = "index" => Supplied(A, stmts, k)
    BY <1>1, <1>22
  <2>2. \A k \in 1 .. Len(stmts) : ~DropsTable(stmts[k])
    BY <1>1, <1>23
  <2> QED BY <1>1, <1>2, <2>1, <2>2, CourseSucceeds
<1> QED BY <1>2, <1>24

\* On a schema without the scope of the git context it throws.
LEMMA UnscopedFails ==
    ASSUME NEW s \in Schemas, Unscoped(s)
    PROVE  ExecAll(s, UpStatements[1]).failed
<1> DEFINE stmts == UpStatements[1]
           Bare(q) == /\ "git_context" \in q.tables
                      /\ <<"git_context", "metadata_scope">> \notin q.columns
                      /\ ~Indexed(q, "idx_git_context_scope_path")
<1>1. IsSchema(s) /\ Statements(stmts) /\ Len(stmts) = 23 /\ Len(stmts) \in Nat
  BY SchemaParts, BaseIsStatements DEF Statements
<1>2. PICK A : Course(A, s, stmts) /\ ExecAll(s, stmts) = A[Len(stmts)]
  BY <1>1, ExecAllCourse
<1>3. SUFFICES ASSUME ~A[Len(stmts)].failed PROVE FALSE
  BY <1>2
<1>4. \A k \in 1 .. 11 : \/ stmts[k].op = "table"
                         \/ stmts[k].op = "index"
                           /\ stmts[k].index.name # "idx_git_context_scope_path"
  <2>1. \A k \in 1 .. 9 : stmts[k].op = "table"
    BY BaseStatement
  <2>2. stmts[10] = BaseIndexes[10 - 9] /\ stmts[11] = BaseIndexes[11 - 9]
    BY BaseStatement
  <2>3. /\ stmts[10].op = "index" /\ stmts[10].index.name = "idx_events_branch_cursor"
        /\ stmts[11].op = "index" /\ stmts[11].index.name = "idx_events_entity_branch_cursor"
    <3>1. /\ BaseIndexes[1].op = "index" /\ BaseIndexes[1].index.name = "idx_events_branch_cursor"
          /\ BaseIndexes[2].op = "index"
            /\ BaseIndexes[2].index.name = "idx_events_entity_branch_cursor"
      <4>1. IsIndex(BaseIndexes[1], "idx_events_branch_cursor", "events", "branch", {})
        BY UpIndexes
      <4>2. IsIndex(BaseIndexes[2], "idx_events_entity_branch_cursor", "events", "entity", {})
        BY UpIndexes
      <4> QED BY <4>1, <4>2 DEF IsIndex
    <3> HIDE DEF stmts
    <3> QED BY <2>2, <3>1
  <2>4. \A k \in 1 .. 11 : k \in 1 .. 9 \/ k = 10 \/ k = 11
    OBVIOUS
  <2> HIDE DEF stmts
  <2> QED BY <2>1, <2>3, <2>4
<1>6. /\ stmts[12].op = "index" /\ stmts[12].index.name = "idx_git_context_scope_path"
      /\ stmts[12].index.table = "git_context" /\ stmts[12].columns = {"metadata_scope"}
  <2>1. stmts[12] = BaseIndexes[12 - 9]
    BY BaseStatement
  <2>2. /\ BaseIndexes[3].op = "index" /\ BaseIndexes[3].index.name = "idx_git_context_scope_path"
        /\ BaseIndexes[3].index.table = "git_context" /\ BaseIndexes[3].columns = {"metadata_scope"}
    <3>1. IsIndex(BaseIndexes[3], "idx_git_context_scope_path", "git_context", "scope",
            {"metadata_scope"})
      BY UpIndexes
    <3> QED BY <3>1 DEF IsIndex
  <2> HIDE DEF stmts
  <2> QED BY <2>1, <2>2
<1> HIDE DEF stmts
<1>7. ASSUME NEW k \in 1 .. 11, Bare(A[k - 1]) PROVE Bare(A[k])
  <2> DEFINE q == A[k - 1]
             stmt == stmts[k]
  <2>1. k \in 1 .. 23 /\ k - 1 \in 0 .. 23 /\ k \in 0 .. 23 /\ k # 0
    OBVIOUS
  <2>2. A[k] = Exec(q, stmt) /\ IsSchema(q)
    BY <1>1, <1>2, <2>1, CourseIsSchema DEF Course
  <2>3. ~q.failed /\ ~Throws(q, stmt)
    BY <1>1, <1>2, <1>3, <2>1, CourseNotFailed
  <2>4. \/ stmt.op = "table"
        \/ stmt.op = "index" /\ stmt.index.name # "idx_git_context_scope_path"
    BY <1>4
  <2>5. Bare(q)
    BY <1>7
  <2> HIDE DEF q, stmt
  <2>6. CASE stmt.op = "table"
    <3>1. /\ stmt.table \in q.tables => Exec(q, stmt) = q
          /\ stmt.table \notin q.tables =>
                /\ Exec(q, stmt).tables = q.tables \cup {stmt.table}
                /\ Exec(q, stmt).columns = q.columns \cup Columns(stmt.table, stmt.columns)
                /\ Exec(q, stmt).indexes = q.indexes
      BY <2>2, <2>3, <2>6, ExecTable DEF Becomes
    <3> QED BY <2>2, <2>5, <3>1 DEF Columns, Indexed
  <2>7. CASE stmt.op = "index" /\ stmt.index.name # "idx_git_context_scope_path"
    <3>1. /\ Indexed(q, stmt.index.name) => Exec(q, stmt) = q
          /\ ~Indexed(q, stmt.index.name) =>
                /\ Exec(q, stmt).tables = q.tables
                /\ Exec(q, stmt).columns = q.columns
                /\ Exec(q, stmt).indexes = q.indexes \cup {stmt.index}
      BY <2>2, <2>3, <2>7, ExecIndex DEF Becomes
    <3> QED BY <2>2, <2>5, <2>7, <3>1 DEF Indexed
  <2> QED BY <2>4, <2>6, <2>7
<1>8. Bare(A[11])
  <2> DEFINE T == {k \in 0 .. 11 : Bare(A[k])}
  <2>1. 0 \in T
    BY <1>2 DEF Course, Unscoped
  <2>2. \A k \in 1 .. 11 : k - 1 \in T => k \in T
    BY <1>7
  <2>3. 11 \in Nat /\ 11 \in 0 .. 11
    OBVIOUS
  <2> HIDE DEF T, Bare
  <2>4. \A k \in 0 .. 11 : k \in T
    BY <2>1, <2>2, <2>3, UpTo
  <2> QED BY <2>3, <2>4 DEF T
<1>9. Throws(A[11], stmts[12])
  <2>1. <<"git_context", "metadata_scope">> \in Columns("git_context", {"metadata_scope"})
    BY DEF Columns
  <2> QED BY <1>6, <1>8, <2>1 DEF Throws
<1>10. ~Throws(A[12 - 1], stmts[12])
  <2>1. 12 \in 0 .. Len(stmts) /\ 12 # 0
    BY <1>1
  <2> QED BY <1>1, <1>2, <1>3, <2>1, CourseNotFailed
<1> QED BY <1>9, <1>10

----------------------------------------------------------------------------
(* Migrating one version down *)

\* What may be said of every statement of down() of version v.
DownSound(v, stmt) ==
    /\ stmt.op \in Op
    /\ ~(stmt.op \in {"table", "column"})
    /\ stmt.op = "drop table" => TableSince(stmt.table) = v
    /\ stmt.op = "drop index" => Entry(stmt.name).since \notin 1 .. (v - 1)
    /\ stmt.op = "index" => /\ v = 12 /\ stmt.index \in Superseded
                            /\ stmt.index.table = "dependencies" /\ stmt.columns = {}

LEMMA DropTableSound ==
    ASSUME NEW v, NEW t, NEW stmt, IsDropTable(stmt, t), TableSince(t) = v
    PROVE  DownSound(v, stmt)
BY DEF IsDropTable, DownSound, Op

LEMMA DropIndexSound ==
    ASSUME NEW v, NEW n, NEW stmt, IsDropIndex(stmt, n), Entry(n).since \notin 1 .. (v - 1)
    PROVE  DownSound(v, stmt)
BY DEF IsDropIndex, DownSound, Op

LEMMA DownSound1 ==
    LET s == DownStatements[1] IN
    Len(s) = 8 /\ \A k \in 1 .. Len(s) : DownSound(1, s[k])
<1> DEFINE s == DownStatements[1]
<1>1. Len(s) = 8
  BY Down1
<1>2. DownSound(1, s[1])
  <2>1. IsDropTable(s[1], "sync_conflicts")
    BY Down1
  <2>2. TableSince("sync_conflicts") = 1
    BY TheTables
  <2> HIDE DEF s
  <2> QED BY <2>1, <2>2, DropTableSound
<1>3. DownSound(1, s[2])
  <2>1. IsDropTable(s[2], "sync_cursors")
    BY Down1
  <2>2. TableSince("sync_cursors") = 1
    BY TheTables
  <2> HIDE DEF s
  <2> QED BY <2>1, <2>2, DropTableSound
<1>4. DownSound(1, s[3])
  <2>1. IsDropTable(s[3], "git_context")
    BY Down1
  <2>2. TableSince("git_context") = 1
    BY TheTables
  <2> HIDE DEF s
  <2> QED BY <2>1, <2>2, DropTableSound
<1>5. DownSound(1, s[4])
  <2>1. IsDropTable(s[4], "events")
    BY Down1
  <2>2. TableSince("events") = 1
    BY TheTables
  <2> HIDE DEF s
  <2> QED BY <2>1, <2>2, DropTableSound
<1>6. DownSound(1, s[5])
  <2>1. IsDropTable(s[5], "dependencies")
    BY Down1
  <2>2. TableSince("dependencies") = 1
    BY TheTables
  <2> HIDE DEF s
  <2> QED BY <2>1, <2>2, DropTableSound
<1>7. DownSound(1, s[6])
  <2>1. IsDropTable(s[6], "subtasks")
    BY Down1
  <2>2. TableSince("subtasks") = 1
    BY TheTables
  <2> HIDE DEF s
  <2> QED BY <2>1, <2>2, DropTableSound
<1>8. DownSound(1, s[7])
  <2>1. IsDropTable(s[7], "tasks")
    BY Down1
  <2>2. TableSince("tasks") = 1
    BY TheTables
  <2> HIDE DEF s
  <2> QED BY <2>1, <2>2, DropTableSound
<1>9. DownSound(1, s[8])
  <2>1. IsDropTable(s[8], "epics")
    BY Down1
  <2>2. TableSince("epics") = 1
    BY TheTables
  <2> HIDE DEF s
  <2> QED BY <2>1, <2>2, DropTableSound
<1> HIDE DEF s
<1>10. \A k \in 1 .. 8 : DownSound(1, s[k])
  BY <1>2, <1>3, <1>4, <1>5, <1>6, <1>7, <1>8, <1>9
<1> QED BY <1>1, <1>10 DEF s

LEMMA DownSound2 ==
    LET s == DownStatements[2] IN
    Len(s) = 5 /\ \A k \in 1 .. Len(s) : DownSound(2, s[k])
<1> DEFINE s == DownStatements[2]
<1>1. Len(s) = 5
  BY Down2
<1>2. DownSound(2, s[1])
  <2>1. IsDropIndex(s[1], "idx_events_created_at")
    BY Down2
  <2>2. Entry("idx_events_created_at").since = 2
    BY DEF Entry, IndexSince
  <2>3. Entry("idx_events_created_at").since \notin 1 .. (2 - 1)
    BY <2>2
  <2> HIDE DEF s
  <2> QED BY <2>1, <2>3, DropIndexSound
<1>3. DownSound(2, s[2])
  <2>1. IsDropIndex(s[2], "idx_events_git_branch")
    BY Down2
  <2>2. Entry("idx_events_git_branch").since = 2
    BY DEF Entry, IndexSince
  <2>3. Entry("idx_events_git_branch").since \notin 1 .. (2 - 1)
    BY <2>2
  <2> HIDE DEF s
  <2> QED BY <2>1, <2>3, DropIndexSound
<1>4. DownSound(2, s[3])
  <2>1. IsDropIndex(s[3], "idx_events_created_at_id")
    BY Down2
  <2>2. Entry("idx_events_created_at_id").since = 2
    BY DEF Entry, IndexSince
  <2>3. Entry("idx_events_created_at_id").since \notin 1 .. (2 - 1)
    BY <2>2
  <2> HIDE DEF s
  <2> QED BY <2>1, <2>3, DropIndexSound
<1>5. DownSound(2, s[4])
  <2>1. IsDropIndex(s[4], "idx_dependencies_source")
    BY Down2
  <2>2. Entry("idx_dependencies_source").since = 12
    BY DEF Entry, IndexSince
  <2>3. Entry("idx_dependencies_source").since \notin 1 .. (2 - 1)
    BY <2>2
  <2> HIDE DEF s
  <2> QED BY <2>1, <2>3, DropIndexSound
<1>6. DownSound(2, s[5])
  <2>1. IsDropIndex(s[5], "idx_dependencies_depends_on")
    BY Down2
  <2>2. Entry("idx_dependencies_depends_on").since = 0
    BY DEF Entry, IndexSince
  <2>3. Entry("idx_dependencies_depends_on").since \notin 1 .. (2 - 1)
    BY <2>2
  <2> HIDE DEF s
  <2> QED BY <2>1, <2>3, DropIndexSound
<1> HIDE DEF s
<1>7. \A k \in 1 .. 5 : DownSound(2, s[k])
  BY <1>2, <1>3, <1>4, <1>5, <1>6
<1> QED BY <1>1, <1>7 DEF s

LEMMA DownSound3 ==
    LET s == DownStatements[3] IN
    Len(s) = 2 /\ \A k \in 1 .. Len(s) : DownSound(3, s[k])
<1> DEFINE s == DownStatements[3]
<1>1. Len(s) = 2
  BY Down3
<1>2. DownSound(3, s[1])
  <2>1. IsDropIndex(s[1], "idx_event_archive_created_at")
    BY Down3
  <2>2. Entry("idx_event_archive_created_at").since = 3
    BY DEF Entry, IndexSince
  <2>3. Entry("idx_event_archive_created_at").since \notin 1 .. (3 - 1)
    BY <2>2
  <2> HIDE DEF s
  <2> QED BY <2>1, <2>3, DropIndexSound
<1>3. DownSound(3, s[2])
  <2>1. IsDropTable(s[2], "event_archive")
    BY Down3
  <2>2. TableSince("event_archive") = 3
    BY TheTables
  <2> HIDE DEF s
  <2> QED BY <2>1, <2>2, DropTableSound
<1> HIDE DEF s
<1>4. \A k \in 1 .. 2 : DownSound(3, s[k])
  BY <1>2, <1>3
<1> QED BY <1>1, <1>4 DEF s

LEMMA DownSound7 ==
    LET s == DownStatements[7] IN
    Len(s) = 4 /\ \A k \in 1 .. Len(s) : DownSound(7, s[k])
<1> DEFINE s == DownStatements[7]
<1>1. Len(s) = 4
  BY Down7
<1>2. DownSound(7, s[1])
  <2>1. IsDropIndex(s[1], "idx_conflicts_resolution_updated_at")
    BY Down7
  <2>2. Entry("idx_conflicts_resolution_updated_at").since = 7
    BY DEF Entry, IndexSince
  <2>3. Entry("idx_conflicts_resolution_updated_at").since \notin 1 .. (7 - 1)
    BY <2>2
  <2> HIDE DEF s
  <2> QED BY <2>1, <2>3, DropIndexSound
<1>3. DownSound(7, s[2])
  <2>1. IsDropIndex(s[2], "idx_subtasks_owner")
    BY Down7
  <2>2. Entry("idx_subtasks_owner").since = 7
    BY DEF Entry, IndexSince
  <2>3. Entry("idx_subtasks_owner").since \notin 1 .. (7 - 1)
    BY <2>2
  <2> HIDE DEF s
  <2> QED BY <2>1, <2>3, DropIndexSound
<1>4. DownSound(7, s[3])
  <2>1. IsDropIndex(s[3], "idx_tasks_owner")
    BY Down7
  <2>2. Entry("idx_tasks_owner").since = 7
    BY DEF Entry, IndexSince
  <2>3. Entry("idx_tasks_owner").since \notin 1 .. (7 - 1)
    BY <2>2
  <2> HIDE DEF s
  <2> QED BY <2>1, <2>3, DropIndexSound
<1>5. DownSound(7, s[4])
  <2>1. IsDropIndex(s[4], "idx_dependencies_depends_on_kind")
    BY Down7
  <2>2. Entry("idx_dependencies_depends_on_kind").since = 7
    BY DEF Entry, IndexSince
  <2>3. Entry("idx_dependencies_depends_on_kind").since \notin 1 .. (7 - 1)
    BY <2>2
  <2> HIDE DEF s
  <2> QED BY <2>1, <2>3, DropIndexSound
<1> HIDE DEF s
<1>6. \A k \in 1 .. 4 : DownSound(7, s[k])
  BY <1>2, <1>3, <1>4, <1>5
<1> QED BY <1>1, <1>6 DEF s

LEMMA DownSound8 ==
    LET s == DownStatements[8] IN
    Len(s) = 3 /\ \A k \in 1 .. Len(s) : DownSound(8, s[k])
<1> DEFINE s == DownStatements[8]
<1>1. Len(s) = 3
  BY Down8
<1>2. DownSound(8, s[1])
  <2>1. IsDropIndex(s[1], "idx_conflicts_resolution_entity_field_id")
    BY Down8
  <2>2. Entry("idx_conflicts_resolution_entity_field_id").since = 8
    BY DEF Entry, IndexSince
  <2>3. Entry("idx_conflicts_resolution_entity_field_id").since \notin 1 .. (8 - 1)
    BY <2>2
  <2> HIDE DEF s
  <2> QED BY <2>1, <2>3, DropIndexSound
<1>3. DownSound(8, s[2])
  <2>1. IsDropIndex(s[2], "idx_events_entity_branch_cursor")
    BY Down8
  <2>2. Entry("idx_events_entity_branch_cursor").since = 8
    BY DEF Entry, IndexSince
  <2>3. Entry("idx_events_entity_branch_cursor").since \notin 1 .. (8 - 1)
    BY <2>2
  <2> HIDE DEF s
  <2> QED BY <2>1, <2>3, DropIndexSound
<1>4. DownSound(8, s[3])
  <2>1. IsDropIndex(s[3], "idx_events_branch_cursor")
    BY Down8
  <2>2. Entry("idx_events_branch_cursor").since = 8
    BY DEF Entry, IndexSince
  <2>3. Entry("idx_events_branch_cursor").since \notin 1 .. (8 - 1)
    BY <2>2
  <2> HIDE DEF s
  <2> QED BY <2>1, <2>3, DropIndexSound
<1> HIDE DEF s
<1>5. \A k \in 1 .. 3 : DownSound(8, s[k])
  BY <1>2, <1>3, <1>4
<1> QED BY <1>1, <1>5 DEF s

LEMMA DownSound9 ==
    LET s == DownStatements[9] IN
    Len(s) = 2 /\ \A k \in 1 .. Len(s) : DownSound(9, s[k])
<1> DEFINE s == DownStatements[9]
<1>1. Len(s) = 2
  BY Down9
<1>2. DownSound(9, s[1])
  <2>1. IsDropIndex(s[1], "idx_board_idempotency_created_at")
    BY Down9
  <2>2. Entry("idx_board_idempotency_created_at").since = 9
    BY DEF Entry, IndexSince
  <2>3. Entry("idx_board_idempotency_created_at").since \notin 1 .. (9 - 1)
    BY <2>2
  <2> HIDE DEF s
  <2> QED BY <2>1, <2>3, DropIndexSound
<1>3. DownSound(9, s[2])
  <2>1. IsDropTable(s[2], "board_idempotency_keys")
    BY Down9
  <2>2. TableSince("board_idempotency_keys") = 9
    BY TheTables
  <2> HIDE DEF s
  <2> QED BY <2>1, <2>2, DropTableSound
<1> HIDE DEF s
<1>4. \A k \in 1 .. 2 : DownSound(9, s[k])
  BY <1>2, <1>3
<1> QED BY <1>1, <1>4 DEF s

LEMMA DownSound10 ==
    LET s == DownStatements[10] IN
    Len(s) = 1 /\ \A k \in 1 .. Len(s) : DownSound(10, s[k])
<1> DEFINE s == DownStatements[10]
<1>1. Len(s) = 1
  BY Down10
<1>2. DownSound(10, s[1])
  <2>1. IsDropIndex(s[1], "idx_board_idempotency_state_created_at")
    BY Down10
  <2>2. Entry("idx_board_idempotency_state_created_at").since = 10
    BY DEF Entry, IndexSince
  <2>3. Entry("idx_board_idempotency_state_created_at").since \notin 1 .. (10 - 1)
    BY <2>2
  <2> HIDE DEF s
  <2> QED BY <2>1, <2>3, DropIndexSound
<1> HIDE DEF s
<1>3. \A k \in 1 .. 1 : DownSound(10, s[k])
  BY <1>2
<1> QED BY <1>1, <1>3 DEF s

LEMMA DownSound11 ==
    LET s == DownStatements[11] IN
    Len(s) = 2 /\ \A k \in 1 .. Len(s) : DownSound(11, s[k])
<1> DEFINE s == DownStatements[11]
<1>1. Len(s) = 2
  BY Down11
<1>2. DownSound(11, s[1])
  <2>1. IsDropIndex(s[1], "idx_sync_conflicts_scope_entity")
    BY Down11
  <2>2. Entry("idx_sync_conflicts_scope_entity").since = 11
    BY DEF Entry, IndexSince
  <2>3. Entry("idx_sync_conflicts_scope_entity").since \notin 1 .. (11 - 1)
    BY <2>2
  <2> HIDE DEF s
  <2> QED BY <2>1, <2>3, DropIndexSound
<1>3. DownSound(11, s[2])
  <2>1. IsDropIndex(s[2], "idx_sync_conflicts_scope_resolution")
    BY Down11
  <2>2. Entry("idx_sync_conflicts_scope_resolution").since = 11
    BY DEF Entry, IndexSince
  <2>3. Entry("idx_sync_conflicts_scope_resolution").since \notin 1 .. (11 - 1)
    BY <2>2
  <2> HIDE DEF s
  <2> QED BY <2>1, <2>3, DropIndexSound
<1> HIDE DEF s
<1>4. \A k \in 1 .. 2 : DownSound(11, s[k])
  BY <1>2, <1>3
<1> QED BY <1>1, <1>4 DEF s

LEMMA DownSound12 ==
    LET s == DownStatements[12] IN
    Len(s) = 5 /\ \A k \in 1 .. Len(s) : DownSound(12, s[k])
<1> DEFINE s == DownStatements[12]
<1>1. Len(s) = 5
  BY Down12
<1>2. DownSound(12, s[1])
  <2>1. IsDropIndex(s[1], "uniq_dependencies_edge")
    BY Down12
  <2>2. Entry("uniq_dependencies_edge").since = 12
    BY DEF Entry, IndexSince
  <2>3. Entry("uniq_dependencies_edge").since \notin 1 .. (12 - 1)
    BY <2>2
  <2> HIDE DEF s
  <2> QED BY <2>1, <2>3, DropIndexSound
<1>3. DownSound(12, s[2])
  <2>1. IsDropIndex(s[2], "idx_dependencies_target")
    BY Down12
  <2>2. Entry("idx_dependencies_target").since = 12
    BY DEF Entry, IndexSince
  <2>3. Entry("idx_dependencies_target").since \notin 1 .. (12 - 1)
    BY <2>2
  <2> HIDE DEF s
  <2> QED BY <2>1, <2>3, DropIndexSound
<1>4. DownSound(12, s[3])
  <2>1. IsDropIndex(s[3], "idx_dependencies_source")
    BY Down12
  <2>2. Entry("idx_dependencies_source").since = 12
    BY DEF Entry, IndexSince
  <2>3. Entry("idx_dependencies_source").since \notin 1 .. (12 - 1)
    BY <2>2
  <2> HIDE DEF s
  <2> QED BY <2>1, <2>3, DropIndexSound
<1>5. DownSound(12, s[4])
  <2>1. IsIndex(s[4], "idx_dependencies_source", "dependencies", "source", {})
    BY Down12
  <2>2. s[4].index \in Superseded
    BY <2>1 DEF IsIndex, Superseded, Index, IndexOn
  <2>3. s[4].op = "index" /\ s[4].index.table = "dependencies" /\ s[4].columns = {}
    BY <2>1, IndexParts
  <2> HIDE DEF s
  <2> QED BY <2>2, <2>3 DEF DownSound, Op
<1>6. DownSound(12, s[5])
  <2>1. IsIndex(s[5], "idx_dependencies_depends_on", "dependencies", "target", {})
    BY Down12
  <2>2. s[5].index \in Superseded
    BY <2>1 DEF IsIndex, Superseded, Index, IndexOn
  <2>3. s[5].op = "index" /\ s[5].index.table = "dependencies" /\ s[5].columns = {}
    BY <2>1, IndexParts
  <2> HIDE DEF s
  <2> QED BY <2>2, <2>3 DEF DownSound, Op
<1> HIDE DEF s
<1>7. \A k \in 1 .. 5 : DownSound(12, s[k])
  BY <1>2, <1>3, <1>4, <1>5, <1>6
<1> QED BY <1>1, <1>7 DEF s

LEMMA DownSound13 ==
    LET s == DownStatements[13] IN
    Len(s) = 2 /\ \A k \in 1 .. Len(s) : DownSound(13, s[k])
<1> DEFINE s == DownStatements[13]
<1>1. Len(s) = 2
  BY Down13
<1>2. DownSound(13, s[1])
  <2>1. IsDropIndex(s[1], "idx_subtasks_task_created")
    BY Down13
  <2>2. Entry("idx_subtasks_task_created").since = 13
    BY DEF Entry, IndexSince
  <2>3. Entry("idx_subtasks_task_created").since \notin 1 .. (13 - 1)
    BY <2>2
  <2> HIDE DEF s
  <2> QED BY <2>1, <2>3, DropIndexSound
<1>3. DownSound(13, s[2])
  <2>1. IsDropIndex(s[2], "idx_tasks_epic_created")
    BY Down13
  <2>2. Entry("idx_tasks_epic_created").since = 13
    BY DEF Entry, IndexSince
  <2>3. Entry("idx_tasks_epic_created").since \notin 1 .. (13 - 1)
    BY <2>2
  <2> HIDE DEF s
  <2> QED BY <2>1, <2>3, DropIndexSound
<1> HIDE DEF s
<1>4. \A k \in 1 .. 2 : DownSound(13, s[k])
  BY <1>2, <1>3
<1> QED BY <1>1, <1>4 DEF s

LEMMA DownVersion ==
    ASSUME NEW v \in (1 .. 13) \ Irreversible
    PROVE  /\ Statements(DownStatements[v])
           /\ \A k \in 1 .. Len(DownStatements[v]) : DownSound(v, DownStatements[v][k])
<1> DEFINE Goal(u) == /\ Len(DownStatements[u]) \in Nat
                      /\ \A k \in 1 .. Len(DownStatements[u]) : DownSound(u, DownStatements[u][k])
<1>1. Goal(1)
  BY DownSound1
<1>2. Goal(2)
  BY DownSound2
<1>3. Goal(3)
  BY DownSound3
<1>7. Goal(7)
  BY DownSound7
<1>8. Goal(8)
  BY DownSound8
<1>9. Goal(9)
  BY DownSound9
<1>10. Goal(10)
  BY DownSound10
<1>11. Goal(11)
  BY DownSound11
<1>12. Goal(12)
  BY DownSound12
<1>13. Goal(13)
  BY DownSound13
<1>14. Goal(v)
  <2> HIDE DEF Goal
  <2>1. v \in {1, 2, 3, 7, 8, 9, 10, 11, 12, 13}
    BY DEF Irreversible
  <2> QED BY <2>1, <1>1, <1>2, <1>3, <1>7, <1>8, <1>9, <1>10, <1>11, <1>12, <1>13
<1> QED BY <1>14 DEF Statements, DownSound

\* Without a CREATE INDEX nothing throws.
Creates(stmt) == stmt.op = "index"

LEMMA CourseThrowsNot ==
    ASSUME NEW A, NEW s, NEW stmts, Course(A, s, stmts), Statements(stmts), IsSchema(s), ~s.failed,
           \A k \in 1 .. Len(stmts) : ~Creates(stmts[k])
    PROVE  ~A[Len(stmts)].failed
<1> DEFINE N == Len(stmts)
           T == {k \in 0 .. N : ~A[k].failed}
<1>1. N \in Nat
  BY DEF Statements
<1>2. 0 \in T
  BY <1>1 DEF Course
<1>3. ASSUME NEW k \in 1 .. N, k - 1 \in T PROVE k \in T
  <2>1. k - 1 \in 0 .. N /\ k \in 0 .. N
    BY <1>1
  <2>2. A[k] = Exec(A[k - 1], stmts[k]) /\ IsSchema(A[k - 1]) /\ stmts[k].op \in Op
    BY <2>1, CourseIsSchema DEF Course, Statements
  <2>3. ~Throws(A[k - 1], stmts[k])
    BY ThrowsOnlyIndex DEF Creates
  <2>4. ~A[k - 1].failed
    BY <1>3
  <2>5. ~A[k].failed
    BY <2>2, <2>3, <2>4, ExecIsSchema
  <2> QED BY <2>1, <2>5
<1>4. \A k \in 1 .. N : k - 1 \in T => k \in T
  BY <1>3
<1> HIDE DEF T, N
<1>5. \A k \in 0 .. N : k \in T
  BY <1>1, <1>2, <1>4, UpTo
<1>6. N \in T
  BY <1>1, <1>5
<1> QED BY <1>6 DEF T, N

LEMMA NoTableSince12 == \A t : TableSince(t) # 12
BY DEF TableSince

LEMMA DownSucceeds ==
    ASSUME NEW v \in (1 .. 13) \ Irreversible, NEW s \in Schemas, Fits(v, s),
           NEW A, Course(A, s, DownStatements[v])
    PROVE  ~A[Len(DownStatements[v])].failed
<1> DEFINE stmts == DownStatements[v]
<1>1. IsSchema(s) /\ ~s.failed /\ Statements(stmts)
  BY SchemaParts, DownVersion
<1>2. \A k \in 1 .. Len(stmts) : DownSound(v, stmts[k])
  BY DownVersion
<1>3. TablesSince(1) \subseteq s.tables
  <2>1. 1 \in 1 .. v
    OBVIOUS
  <2> QED BY <2>1 DEF Fits
<1>4. v = 12 => \A k \in 1 .. Len(stmts) : ~DropsTable(stmts[k])
  <2> SUFFICES ASSUME v = 12, NEW k \in 1 .. Len(stmts), stmts[k].op = "drop table" PROVE FALSE
    BY DEF DropsTable
  <2>1. DownSound(12, stmts[k])
    BY <1>2
  <2> HIDE DEF stmts
  <2>2. TableSince(stmts[k].table) = 12
    BY <2>1 DEF DownSound
  <2> QED BY <2>2, NoTableSince12
<1>5. \A k \in 1 .. Len(stmts) : stmts[k].op = "index" => Supplied(A, stmts, k)
  <2> SUFFICES ASSUME NEW k \in 1 .. Len(stmts), stmts[k].op = "index" PROVE Supplied(A, stmts, k)
    OBVIOUS
  <2>1. A[0] = s
    BY DEF Course
  <2>2. DownSound(v, stmts[k])
    BY <1>2
  <2> HIDE DEF stmts
  <2>3. stmts[k].index.table = "dependencies" /\ stmts[k].columns = {}
    BY <2>2 DEF DownSound
  <2>4. "dependencies" \in A[0].tables
    BY <1>3, <2>1, TableNames
  <2> QED BY <2>3, <2>4 DEF Supplied
<1>6. v # 12 => \A k \in 1 .. Len(stmts) : ~Creates(stmts[k])
  BY <1>2 DEF DownSound, Creates
<1>7. Course(A, s, stmts)
  OBVIOUS
<1> HIDE DEF stmts
<1>8. ~A[Len(stmts)].failed
  <2>1. CASE v = 12
    BY <1>1, <1>4, <1>5, <1>7, <2>1, CourseSucceeds
  <2>2. CASE v # 12
    BY <1>1, <1>6, <1>7, <2>2, CourseThrowsNot
  <2> QED BY <2>1, <2>2
<1> QED BY <1>8 DEF stmts

\* A rollback of one version leaves the schema of the version below.
LEMMA DownFits ==
    ASSUME NEW v \in (1 .. 13) \ Irreversible, NEW s \in Schemas, Fits(v, s)
    PROVE  LET r == ExecAll(s, DownStatements[v]) IN r \in Schemas /\ Fits(v - 1, r)
<1> DEFINE stmts == DownStatements[v]
           N == Len(stmts)
<1>1. IsSchema(s) /\ ~s.failed /\ Statements(stmts)
  BY SchemaParts, DownVersion
<1>2. N \in Nat /\ 0 \in 0 .. N /\ N \in 0 .. N
  BY <1>1 DEF Statements
<1>3. PICK A : Course(A, s, stmts) /\ ExecAll(s, stmts) = A[N]
  BY <1>2, ExecAllCourse
<1> DEFINE r == A[N]
<1>4. ~r.failed
  BY <1>3, DownSucceeds
<1>5. ASSUME NEW k \in 1 .. N PROVE DownSound(v, stmts[k])
  BY DownVersion
<1>6. A[0] = s
  BY <1>3 DEF Course
<1> HIDE DEF stmts
<1>7. \A k \in 1 .. N : Allowed(stmts[k], AllTables, AllColumns, AllIndexes)
  BY <1>5 DEF DownSound, Allowed, AllIndexes
<1>8. r \in Schemas
  <2>1. Within(s, AllTables, AllColumns, AllIndexes)
    BY SchemaParts
  <2>2. IsSchema(A[N])
    BY <1>1, <1>2, <1>3, CourseIsSchema
  <2>3. Within(A[N], AllTables, AllColumns, AllIndexes)
    BY <1>1, <1>2, <1>3, <1>7, <2>1, CourseWithin
  <2> QED BY <1>4, <2>2, <2>3, SchemaParts
<1>9. /\ \A t \in A[0].tables : (\A k \in (0 + 1) .. N : SparesTable(stmts[k], t)) =>
        t \in A[N].tables
      /\ \A c \in A[0].columns : (\A k \in (0 + 1) .. N : SparesTable(stmts[k], c[1])) =>
        c \in A[N].columns
      /\ \A i \in A[0].indexes : (\A k \in (0 + 1) .. N : SparesIndex(stmts[k], i)) =>
        i \in A[N].indexes
  BY <1>1, <1>2, <1>3, CourseKeeps
<1>10. 0 + 1 = 1
  OBVIOUS
<1>11. ASSUME NEW w \in 1 .. (v - 1)
       PROVE  /\ TablesSince(w) \subseteq r.tables
              /\ ColumnsSince(w) \subseteq r.columns
              /\ IndexesSince(w) \subseteq r.indexes
  <2>1. w \in 1 .. v /\ w \in 1 .. 13 /\ w < v /\ v \in Nat
    OBVIOUS
  <2>2. /\ TablesSince(w) \subseteq s.tables
        /\ ColumnsSince(w) \subseteq s.columns
        /\ IndexesSince(w) \subseteq s.indexes
    BY <2>1 DEF Fits
  <2>3. \A t : TableSince(t) \in Nat
    BY DEF TableSince
  <2>4. ASSUME NEW t, TableSince(t) < v, NEW k \in 1 .. N PROVE SparesTable(stmts[k], t)
    <3>1. TableSince(t) # v
      BY <2>1, <2>3, <2>4
    <3> QED BY <1>5, <3>1 DEF DownSound, SparesTable
  <2>5. ASSUME NEW t \in TablesSince(w) PROVE t \in r.tables
    <3>1. TableSince(t) < v
      BY <2>1, SinceTables
    <3>2. t \in A[0].tables
      BY <1>6, <2>2
    <3> QED BY <1>9, <1>10, <2>4, <3>1, <3>2
  <2>6. ASSUME NEW c \in ColumnsSince(w) PROVE c \in r.columns
    <3>1. TableSince(c[1]) < w
      BY <2>1, SinceColumns
    <3>2. TableSince(c[1]) < v
      BY <2>1, <2>3, <3>1
    <3>3. c \in A[0].columns
      BY <1>6, <2>2
    <3> QED BY <1>9, <1>10, <2>4, <3>2, <3>3
  <2>7. ASSUME NEW i \in IndexesSince(w) PROVE i \in r.indexes
    <3>1. TableSince(i.table) <= w /\ Entry(i.name).since = w
      BY <2>1, SinceIndexes DEF EntryOf
    <3>2. TableSince(i.table) < v
      BY <2>1, <2>3, <3>1
    <3>3. i \in A[0].indexes
      BY <1>6, <2>2
    <3>4. ASSUME NEW k \in 1 .. N PROVE SparesIndex(stmts[k], i)
      <4>1. SparesTable(stmts[k], i.table)
        BY <2>4, <3>2
      <4>2. ~(stmts[k].op = "drop index" /\ stmts[k].name = i.name)
        BY <1>5, <3>1 DEF DownSound
      <4> QED BY <4>1, <4>2 DEF SparesIndex
    <3> QED BY <1>9, <1>10, <3>3, <3>4
  <2> QED BY <2>5, <2>6, <2>7
<1>12. ASSUME v - 1 >= 12 PROVE r.indexes \cap Superseded = {}
  <2>1. v = 13
    BY <1>12
  <2>2. s.indexes \cap Superseded = {}
    BY <2>1 DEF Fits
  <2> SUFFICES ASSUME NEW i \in Superseded PROVE i \notin r.indexes
    OBVIOUS
  <2>3. \A k \in (0 + 1) .. Len(stmts) : ~(stmts[k].op = "index" /\ i = stmts[k].index)
    <3>1. \A k \in 1 .. N : stmts[k].op = "index" => v = 12
      BY <1>5 DEF DownSound
    <3>2. v # 12
      BY <2>1
    <3> QED BY <1>10, <3>1, <3>2
  <2>4. i \notin A[0].indexes
    BY <1>6, <2>2
  <2> QED BY <1>1, <1>2, <1>3, <2>3, <2>4, CourseAdds
<1>13. Fits(v - 1, r)
  BY <1>11, <1>12 DEF Fits
<1> QED BY <1>3, <1>8, <1>13 DEF stmts

----------------------------------------------------------------------------
(* The schema of a database *)

\* A schema of the newest version is determined: it is the one of a new file.
LEMMA OneNewestSchema ==
    ASSUME NEW s \in Schemas, NEW r \in Schemas, Fits(13, s), Fits(13, r)
    PROVE  s = r
<1>1. ASSUME NEW q \in Schemas, Fits(13, q)
      PROVE  /\ q.tables = AllTables /\ q.columns = AllColumns
             /\ q.indexes = AllIndexes \ Superseded
  <2>1. Within(q, AllTables, AllColumns, AllIndexes)
    BY SchemaParts
  <2>2. /\ AllTables \subseteq q.tables /\ AllColumns \subseteq q.columns
        /\ AllIndexes \subseteq q.indexes \cup Superseded
    BY <1>1 DEF Fits, AllTables, AllColumns, AllIndexes, LatestMigrationVersion
  <2>3. q.indexes \cap Superseded = {}
    BY <1>1 DEF Fits
  <2>4. q.indexes = AllIndexes \ Superseded
    BY <2>1, <2>2, <2>3 DEF Within
  <2> QED BY <2>1, <2>2, <2>4 DEF Within
<1>2. IsSchema(s) /\ IsSchema(r) /\ ~s.failed /\ ~r.failed
  BY SchemaParts
<1>3. s.failed = r.failed
  BY <1>2 DEF IsSchema
<1>4. s.tables = r.tables /\ s.columns = r.columns /\ s.indexes = r.indexes
  BY <1>1
<1> QED BY <1>2, <1>3, <1>4 DEF IsSchema

\* migrateBoardIdempotencyState: the column that the board table may lack.
LEMMA BackfillSchema ==
    ASSUME NEW s \in Schemas, NEW r, r = Exec(s, Column("board_idempotency_keys", "state"))
    PROVE  /\ r \in Schemas /\ WithColumn(r, "board_idempotency_keys", "state")
           /\ \A n \in 0 .. 13 : Fits(n, s) => Fits(n, r)
           /\ Unscoped(s) => Unscoped(r)
           /\ Fits(13, s) => r = s
<1> DEFINE stmt == Column("board_idempotency_keys", "state")
<1>1. stmt.op = "column" /\ stmt.table = "board_idempotency_keys" /\ stmt.column = "state"
  BY DEF Column
<1>2. IsSchema(s) /\ ~s.failed /\ Within(s, AllTables, AllColumns, AllIndexes)
  BY SchemaParts
<1>3. r = Exec(s, stmt)
  OBVIOUS
<1> HIDE DEF stmt
<1>4. CASE "board_idempotency_keys" \notin s.tables
  <2>1. r = s
    BY <1>1, <1>2, <1>3, <1>4, ExecColumn
  <2> QED BY <1>4, <2>1 DEF WithColumn
<1>5. CASE "board_idempotency_keys" \in s.tables
  <2>1. Becomes(r, s.tables, s.columns \cup {<<"board_idempotency_keys", "state">>}, s.indexes,
          FALSE)
    BY <1>1, <1>2, <1>3, <1>5, ExecColumn
  <2>2. /\ IsSchema(r) /\ ~r.failed /\ r.tables = s.tables /\ r.indexes = s.indexes
        /\ r.columns = s.columns \cup {<<"board_idempotency_keys", "state">>}
    BY <2>1 DEF Becomes
  <2>3. r \in Schemas
    BY <1>2, <2>2, BaseColumns, SchemaParts DEF Within
  <2>4. WithColumn(r, "board_idempotency_keys", "state")
    BY <2>2 DEF WithColumn
  <2>5. \A n \in 0 .. 13 : Fits(n, s) => Fits(n, r)
    BY <2>2 DEF Fits
  <2>6. Unscoped(s) => Unscoped(r)
    BY <2>2 DEF Unscoped, Indexed
  <2>7. Fits(13, s) => r = s
    <3>1. 13 \in 0 .. 13
      OBVIOUS
    <3> QED BY <2>3, <2>5, <3>1, OneNewestSchema
  <2> QED BY <2>3, <2>4, <2>5, <2>6, <2>7
<1> QED BY <1>4, <1>5

\* After a failure the statements of a migration change nothing.
LEMMA ExecAllFailed ==
    ASSUME NEW s, NEW stmts, Len(stmts) \in Nat, s.failed
    PROVE  ExecAll(s, stmts) = s
<1>1. PICK A : Course(A, s, stmts) /\ ExecAll(s, stmts) = A[Len(stmts)]
  BY ExecAllCourse
<1> DEFINE N == Len(stmts)
           T == {k \in 0 .. N : A[k] = s}
<1>2. 0 \in T
  BY <1>1 DEF Course
<1>3. ASSUME NEW k \in 1 .. N, k - 1 \in T PROVE k \in T
  <2>1. A[k] = Exec(A[k - 1], stmts[k]) /\ A[k - 1] = s
    BY <1>1, <1>3 DEF Course
  <2>2. A[k] = s
    BY <2>1, ExecFailed
  <2> QED BY <2>2
<1>4. \A k \in 1 .. N : k - 1 \in T => k \in T
  BY <1>3
<1>5. N \in Nat /\ N \in 0 .. N
  OBVIOUS
<1> HIDE DEF T, N
<1>6. N \in T
  BY <1>2, <1>4, <1>5, UpTo
<1> QED BY <1>1, <1>6 DEF T, N

LEMMA UpLengths == \A v \in 1 .. 13 : Len(UpStatements[v]) \in Nat
<1>1. Len(UpStatements[1]) \in Nat
  BY BaseIsStatements DEF Statements
<1>2. \A v \in 2 .. 13 : Len(UpStatements[v]) \in Nat
  BY SoundVersion
<1>3. \A v \in 1 .. 13 : v = 1 \/ v \in 2 .. 13
  OBVIOUS
<1> QED BY <1>1, <1>2, <1>3

----------------------------------------------------------------------------
(* The dependency rows *)

LEMMA Oldest ==
    ASSUME NEW rows, \A r \in rows : r.id \in Nat, NEW r \in rows
    PROVE  \E o \in KeepOldest(rows) : o.source = r.source /\ o.target = r.target
<1> DEFINE S == {o.id : o \in {o \in rows : Edge(o) = Edge(r)}}
           Less == OpToRel(<, Nat)
<1>1. S # {} /\ S \subseteq Nat
  OBVIOUS
<1>2. PICK n \in S : \A m \in S : ~(<<m, n>> \in Less)
  <2>1. IsWellFoundedOn(Less, Nat)
    BY NatLessThanWellFounded DEF Less
  <2> HIDE DEF S, Less
  <2> QED BY <1>1, <2>1, WFMin
<1>3. \A m \in S : n <= m
  <2> HIDE DEF S
  <2>1. n \in Nat /\ \A m \in S : m \in Nat
    BY <1>1
  <2>2. \A m \in S : ~(m < n)
    BY <1>2, <2>1 DEF OpToRel
  <2> QED BY <2>1, <2>2
<1>4. PICK o \in rows : Edge(o) = Edge(r) /\ o.id = n
  OBVIOUS
<1>5. \A e \in rows : Edge(e) = Edge(o) => o.id <= e.id
  BY <1>3, <1>4
<1>6. o \in KeepOldest(rows)
  BY <1>5 DEF KeepOldest
<1>7. o.source = r.source /\ o.target = r.target
  BY <1>4 DEF Edge
<1> QED BY <1>6, <1>7

\* Cleaning removes rows, and keeps every edge between items.
LEMMA Cleaning ==
    ASSUME NEW v, NEW rows, \A r \in rows : r.id \in Nat, NEW items
    PROVE  LET clean == CleanedEdges(v, rows, items) IN
           /\ clean \subseteq rows
           /\ {Edge(r) : r \in DropOrphans(clean, items)} = {Edge(r) : r \in DropOrphans(rows,
             items)}
<1> DEFINE clean == CleanedEdges(v, rows, items)
<1>1. CASE v = 5
  <2>1. clean = KeepOldest(DropOrphans(rows, items))
    BY <1>1 DEF CleanedEdges
  <2>2. DropOrphans(rows, items) \subseteq rows
    BY DEF DropOrphans
  <2>3. \A r \in DropOrphans(rows, items) : r.id \in Nat
    BY <2>2
  <2>4. clean \subseteq DropOrphans(rows, items)
    BY <2>1 DEF KeepOldest
  <2>5. \A r \in DropOrphans(rows, items) :
           \E o \in clean : o.source = r.source /\ o.target = r.target
    BY <2>1, <2>3, Oldest
  <2> HIDE DEF clean
  <2>6. \A r \in DropOrphans(rows, items) :
           \E o \in DropOrphans(clean, items) : Edge(o) = Edge(r)
    BY <2>5 DEF DropOrphans, Edge
  <2>7. \A r \in DropOrphans(clean, items) : r \in DropOrphans(rows, items)
    BY <2>2, <2>4 DEF DropOrphans
  <2>8. {Edge(r) : r \in DropOrphans(clean, items)} = {Edge(r) : r \in DropOrphans(rows, items)}
    BY <2>6, <2>7
  <2> QED BY <2>2, <2>4, <2>8 DEF clean
<1>2. CASE v = 12
  <2>1. clean = KeepOldest(rows)
    BY <1>2 DEF CleanedEdges
  <2>2. clean \subseteq rows
    BY <2>1 DEF KeepOldest
  <2>3. \A r \in rows : \E o \in clean : o.source = r.source /\ o.target = r.target
    BY <2>1, Oldest
  <2> HIDE DEF clean
  <2>4. \A r \in DropOrphans(rows, items) :
           \E o \in DropOrphans(clean, items) : Edge(o) = Edge(r)
    BY <2>3 DEF DropOrphans, Edge
  <2>5. \A r \in DropOrphans(clean, items) : r \in DropOrphans(rows, items)
    BY <2>2 DEF DropOrphans
  <2>6. {Edge(r) : r \in DropOrphans(clean, items)} = {Edge(r) : r \in DropOrphans(rows, items)}
    BY <2>4, <2>5
  <2> QED BY <2>2, <2>6 DEF clean
<1>3. CASE v # 5 /\ v # 12
  <2>1. clean = rows
    BY <1>3 DEF CleanedEdges
  <2> QED BY <2>1
<1> QED BY <1>1, <1>2, <1>3

----------------------------------------------------------------------------
(* One database *)

LEMMA Current ==
    ASSUME NEW d, NEW n \in Nat, d.applied = 1 .. n
    PROVE  CurrentVersion(d) = n /\ (d.applied = {} <=> n = 0)
<1>1. CASE n = 0
  BY <1>1 DEF CurrentVersion
<1>2. CASE n # 0
  <2>1. d.applied # {} /\ n \in d.applied
    BY <1>2
  <2>2. CurrentVersion(d) = CHOOSE v \in d.applied : \A u \in d.applied : u <= v
    BY <2>1 DEF CurrentVersion
  <2>3. \A u \in d.applied : u <= n
    OBVIOUS
  <2>4. \A v \in d.applied : (\A u \in d.applied : u <= v) => v = n
    BY <2>1
  <2> QED BY <1>2, <2>1, <2>2, <2>3, <2>4
<1> QED BY <1>1, <1>2

\* The run of versions that a database records.
LEMMA GaplessRun ==
    ASSUME NEW d, DatabaseOK(d), Gapless(d)
    PROVE  CurrentVersion(d) \in 0 .. 13 /\ d.applied = 1 .. CurrentVersion(d)
<1>1. d.applied \subseteq 1 .. 13
  BY DEF DatabaseOK, LatestMigrationVersion
<1>2. d.applied = 1 .. CurrentVersion(d)
  BY DEF Gapless
<1>3. CASE d.applied = {}
  BY <1>2, <1>3 DEF CurrentVersion
<1>4. CASE d.applied # {}
  <2> DEFINE S == {k \in Nat : 13 - k \in d.applied}
             Less == OpToRel(<, Nat)
  <2>1. S # {} /\ S \subseteq Nat
    <3>1. PICK v \in d.applied : TRUE
      BY <1>4
    <3>2. 13 - v \in Nat /\ 13 - (13 - v) = v
      BY <1>1, <3>1
    <3>3. 13 - v \in S
      BY <3>1, <3>2
    <3> QED BY <3>3
  <2>2. PICK k \in S : \A m \in S : ~(<<m, k>> \in Less)
    <3>1. IsWellFoundedOn(Less, Nat)
      BY NatLessThanWellFounded DEF Less
    <3> HIDE DEF S, Less
    <3> QED BY <2>1, <3>1, WFMin
  <2>3. \A m \in S : k <= m
    <3> HIDE DEF S
    <3>1. k \in Nat /\ \A m \in S : m \in Nat
      BY <2>1
    <3>2. \A m \in S : ~(m < k)
      BY <2>2, <3>1 DEF OpToRel
    <3> QED BY <3>1, <3>2
  <2>4. 13 - k \in d.applied
    BY <2>2
  <2>5. \A u \in d.applied : u <= 13 - k
    <3> SUFFICES ASSUME NEW u \in d.applied PROVE u <= 13 - k
      OBVIOUS
    <3>1. u \in 1 .. 13 /\ 13 - u \in Nat /\ 13 - (13 - u) = u /\ k \in Nat
      BY <1>1
    <3>2. 13 - u \in S
      BY <3>1
    <3> HIDE DEF S
    <3>3. k <= 13 - u
      BY <2>3, <3>2
    <3> QED BY <3>1, <3>3
  <2>6. CurrentVersion(d) \in d.applied
    <3>1. CurrentVersion(d) = CHOOSE v \in d.applied : \A u \in d.applied : u <= v
      BY <1>4 DEF CurrentVersion
    <3> QED BY <2>4, <2>5, <3>1
  <2> QED BY <1>1, <1>2, <2>6
<1> QED BY <1>2, <1>3, <1>4

\* A record with the fields of a database.
IsDatabase(d) ==
    d = [applied |-> d.applied, userVersion |-> d.userVersion, unversioned |-> d.unversioned,
         schema |-> d.schema, edges |-> d.edges]

States == {"none", "no column", "null"}

LEMMA DatabaseParts ==
    ASSUME NEW d
    PROVE  DatabaseOK(d) <=> /\ IsDatabase(d)
                             /\ d.applied \subseteq 1 .. 13 /\ d.userVersion \in 0 .. 13
                             /\ d.unversioned \in States /\ d.schema \in Schemas
<1>1. DatabaseOK(d) => /\ IsDatabase(d)
                       /\ d.applied \subseteq 1 .. 13 /\ d.userVersion \in 0 .. 13
                       /\ d.unversioned \in States /\ d.schema \in Schemas
  BY DEF DatabaseOK, LatestMigrationVersion, IsDatabase, States
<1>2. ASSUME IsDatabase(d), d.applied \subseteq 1 .. 13, d.userVersion \in 0 .. 13,
             d.unversioned \in States, d.schema \in Schemas
      PROVE  DatabaseOK(d)
  <2>1. d.edges \in {d.edges}
    OBVIOUS
  <2> QED BY <1>2, <2>1 DEF DatabaseOK, LatestMigrationVersion, IsDatabase, States
<1> QED BY <1>1, <1>2

\* A database at version n, with its base row numbered.
At(n, d) ==
    /\ IsDatabase(d) /\ d.applied = 1 .. n /\ d.unversioned = "none"
    /\ Ready(n, d.schema)
    /\ \A r \in d.edges : r.id \in Nat

LEMMA ApplyParts ==
    ASSUME NEW d, IsDatabase(d), NEW v
    PROVE  LET u == ApplyMigration(d, v) IN
           /\ IsDatabase(u) /\ u.applied = d.applied \cup {v}
           /\ u.userVersion = d.userVersion /\ u.unversioned = d.unversioned
           /\ u.schema = ExecAll(d.schema, UpStatements[v])
           /\ u.edges = CleanedEdges(v, d.edges, Items)
<1> DEFINE u == ApplyMigration(d, v)
           s == ExecAll(d.schema, UpStatements[v])
           rows == CleanedEdges(v, d.edges, Items)
<1>1. u = [d EXCEPT !.schema = s, !.edges = rows, !.applied = d.applied \cup {v}]
  BY DEF ApplyMigration
<1> HIDE DEF u, s, rows
<1>2. u = [applied |-> d.applied \cup {v}, userVersion |-> d.userVersion,
           unversioned |-> d.unversioned, schema |-> s, edges |-> rows]
  BY <1>1 DEF IsDatabase
<1> QED BY <1>2 DEF IsDatabase, u, s, rows

LEMMA RevertParts ==
    ASSUME NEW d, IsDatabase(d), NEW v
    PROVE  LET u == RevertMigration(d, v) IN
           /\ IsDatabase(u) /\ u.applied = d.applied \ {v}
           /\ u.userVersion = d.userVersion /\ u.unversioned = d.unversioned
           /\ u.schema = ExecAll(d.schema, DownStatements[v])
           /\ u.edges = IF v = 1 THEN {} ELSE d.edges
<1> DEFINE u == RevertMigration(d, v)
           s == ExecAll(d.schema, DownStatements[v])
           rows == IF v = 1 THEN {} ELSE d.edges
<1>1. u = [d EXCEPT !.schema = s, !.applied = d.applied \ {v}, !.edges = rows]
  BY DEF RevertMigration
<1> HIDE DEF u, s, rows
<1>2. u = [applied |-> d.applied \ {v}, userVersion |-> d.userVersion,
           unversioned |-> d.unversioned, schema |-> s, edges |-> rows]
  BY <1>1 DEF IsDatabase
<1> QED BY <1>2 DEF IsDatabase, u, s, rows

LEMMA BackfillParts ==
    ASSUME NEW d, IsDatabase(d)
    PROVE  LET u == BackfillState(d) IN
           /\ IsDatabase(u) /\ u.applied = d.applied
           /\ u.userVersion = d.userVersion /\ u.unversioned = d.unversioned
           /\ u.schema = Exec(d.schema, Column("board_idempotency_keys", "state"))
           /\ u.edges = d.edges
BY DEF BackfillState, IsDatabase

LEMMA NumberParts ==
    ASSUME NEW d, IsDatabase(d)
    PROVE  LET u == NumberBaseRow(d) IN
           /\ IsDatabase(u) /\ u.applied = d.applied \cup {1} /\ u.unversioned = "none"
           /\ u.userVersion = d.userVersion /\ u.schema = d.schema /\ u.edges = d.edges
<1> DEFINE u == NumberBaseRow(d)
           a == d.applied \cup {1}
           known == "none"
<1>1. u = [d EXCEPT !.applied = a, !.unversioned = known]
  BY DEF NumberBaseRow
<1> HIDE DEF u, a, known
<1>2. u = [applied |-> a, userVersion |-> d.userVersion, unversioned |-> known,
           schema |-> d.schema, edges |-> d.edges]
  BY <1>1 DEF IsDatabase
<1> QED BY <1>2 DEF IsDatabase, u, a, known

\* schema_migrations without a version column.
Unaltered(d) == d.unversioned = "no column"

LEMMA ColumnParts ==
    ASSUME NEW d, IsDatabase(d), Unaltered(d)
    PROVE  LET u == AddVersionColumn(d) IN
           /\ IsDatabase(u) /\ u.applied = d.applied /\ u.unversioned = "null"
           /\ u.userVersion = d.userVersion /\ u.schema = d.schema /\ u.edges = d.edges
<1> DEFINE u == AddVersionColumn(d)
           null == "null"
<1>1. u = [d EXCEPT !.unversioned = null]
  BY DEF AddVersionColumn, Unaltered
<1> HIDE DEF u, null
<1>2. IsDatabase(u) /\ u.applied = d.applied /\ u.unversioned = null
      /\ u.userVersion = d.userVersion /\ u.schema = d.schema /\ u.edges = d.edges
  <2>1. ASSUME NEW w, w = [d EXCEPT !.unversioned = null]
        PROVE  /\ IsDatabase(w) /\ w.applied = d.applied /\ w.unversioned = null
               /\ w.userVersion = d.userVersion /\ w.schema = d.schema /\ w.edges = d.edges
    BY <2>1 DEF IsDatabase
  <2> QED BY <1>1, <2>1
<1> QED BY <1>2 DEF u, null

\* One migration up.
LEMMA ApplyAt ==
    ASSUME NEW n \in 0 .. 12, NEW d, At(n, d), ~ApplyMigration(d, n + 1).schema.failed
    PROVE  /\ At(n + 1, ApplyMigration(d, n + 1))
           /\ Live(ApplyMigration(d, n + 1)) = Live(d)
           /\ ApplyMigration(d, n + 1).userVersion = d.userVersion
<1> DEFINE u == ApplyMigration(d, n + 1)
<1>1. /\ IsDatabase(u) /\ u.applied = d.applied \cup {n + 1}
      /\ u.userVersion = d.userVersion /\ u.unversioned = d.unversioned
      /\ u.schema = ExecAll(d.schema, UpStatements[n + 1])
      /\ u.edges = CleanedEdges(n + 1, d.edges, Items)
  BY ApplyParts DEF At
<1>2. ~u.schema.failed
  OBVIOUS
<1> HIDE DEF u
<1>3. u.applied = 1 .. (n + 1)
  BY <1>1 DEF At
<1>4. Ready(n + 1, u.schema)
  <2>1. CASE n = 0
    <3>1. n + 1 = 1
      BY <2>1
    <3> QED BY <1>1, <1>2, <2>1, <3>1, BaseReady DEF At
  <2>2. CASE n # 0
    <3> DEFINE v == n + 1
    <3>1. v \in 2 .. 13 /\ v - 1 = n
      BY <2>2
    <3>2. Ready(v - 1, d.schema)
      BY <3>1 DEF At
    <3> HIDE DEF v
    <3>3. Ready(v, ExecAll(d.schema, UpStatements[v]))
      BY <3>1, <3>2, UpReady
    <3> QED BY <1>1, <3>3 DEF v
  <2> QED BY <2>1, <2>2
<1>5. u.edges \subseteq d.edges /\ Live(u) = Live(d)
  <2> DEFINE clean == CleanedEdges(n + 1, d.edges, Items)
  <2>1. /\ clean \subseteq d.edges
        /\ {Edge(r) : r \in DropOrphans(clean, Items)} = {Edge(r) : r \in DropOrphans(d.edges,
          Items)}
    BY Cleaning DEF At
  <2> HIDE DEF clean
  <2>2. u.edges = clean
    BY <1>1 DEF clean
  <2> QED BY <2>1, <2>2 DEF Live
<1> QED BY <1>1, <1>3, <1>4, <1>5 DEF At, u

\* From the second version on it cannot fail.
LEMMA ApplySucceeds ==
    ASSUME NEW n \in 1 .. 12, NEW d, At(n, d)
    PROVE  ~ApplyMigration(d, n + 1).schema.failed
<1> DEFINE v == n + 1
<1>1. v \in 2 .. 13 /\ v - 1 = n
  OBVIOUS
<1>2. Ready(v - 1, d.schema)
  BY <1>1 DEF At
<1> HIDE DEF v
<1>3. Ready(v, ExecAll(d.schema, UpStatements[v]))
  BY <1>1, <1>2, UpReady
<1>4. ~ExecAll(d.schema, UpStatements[v]).failed
  BY <1>3, SchemaParts DEF Ready
<1>5. ApplyMigration(d, v).schema = ExecAll(d.schema, UpStatements[v])
  BY ApplyParts DEF At
<1> QED BY <1>4, <1>5 DEF v

\* One migration down: the header may be ahead until the rollback writes it.
Above(n, d) ==
    /\ IsDatabase(d) /\ d.applied = 1 .. n /\ d.unversioned = "none"
    /\ d.schema \in Schemas /\ Fits(n, d.schema)
    /\ \A r \in d.edges : r.id \in Nat

LEMMA RevertAbove ==
    ASSUME NEW n \in (1 .. 13) \ Irreversible, NEW d, Above(n, d)
    PROVE  Above(n - 1, RevertMigration(d, n))
<1> DEFINE u == RevertMigration(d, n)
<1>1. /\ IsDatabase(u) /\ u.applied = d.applied \ {n}
      /\ u.userVersion = d.userVersion /\ u.unversioned = d.unversioned
      /\ u.schema = ExecAll(d.schema, DownStatements[n])
      /\ u.edges = IF n = 1 THEN {} ELSE d.edges
  BY RevertParts DEF Above
<1>2. u.schema \in Schemas /\ Fits(n - 1, u.schema)
  BY <1>1, DownFits DEF Above
<1> HIDE DEF u
<1>3. u.applied = 1 .. (n - 1)
  BY <1>1 DEF Above
<1>4. \A r \in u.edges : r.id \in Nat
  BY <1>1 DEF Above
<1> QED BY <1>1, <1>2, <1>3, <1>4 DEF Above, u

----------------------------------------------------------------------------
(* Several migrations *)

\* The databases in the course of an upgrade, and of a rollback.
Climb(A, d, versions) ==
    /\ A[0] = d
    /\ \A k \in 1 .. Len(versions) : A[k] = ApplyMigration(A[k - 1], versions[k])

Descent(A, d, versions) ==
    /\ A[0] = d
    /\ \A k \in 1 .. Len(versions) : A[k] = RevertMigration(A[k - 1], versions[k])

LEMMA ApplyAllCourse ==
    ASSUME NEW d, NEW versions, Len(versions) \in Nat
    PROVE  \E A : Climb(A, d, versions) /\ ApplyAll(d, versions) = A[Len(versions)]
<1> DEFINE N == Len(versions)
           Steps(g, n) ==
               g = [i \in 0 .. n |-> IF i = 0 THEN d ELSE ApplyMigration(g[i - 1], versions[i])]
           T == {n \in 0 .. N : \E g : Steps(g, n)}
<1>2. 0 \in T
  <2>1. Steps([i \in 0 .. 0 |-> d], 0)
    OBVIOUS
  <2>2. \E g : Steps(g, 0)
    BY <2>1
  <2> HIDE DEF Steps
  <2> QED BY <2>2
<1>3. ASSUME NEW k \in 1 .. N, k - 1 \in T PROVE k \in T
  <2>1. PICK g : Steps(g, k - 1)
    BY <1>3
  <2> DEFINE h == [i \in 0 .. k |-> IF i < k THEN g[i] ELSE ApplyMigration(g[k - 1], versions[k])]
  <2>2. Steps(h, k)
    <3>1. ASSUME NEW i \in 0 .. k
          PROVE  h[i] = IF i = 0 THEN d ELSE ApplyMigration(h[i - 1], versions[i])
      <4>1. CASE i < k
        BY <4>1, <2>1
      <4>2. CASE i = k
        BY <4>2
      <4> QED BY <4>1, <4>2
    <3> HIDE DEF h
    <3>2. h = [i \in 0 .. k |-> h[i]]
      BY DEF h
    <3> QED BY <3>1, <3>2
  <2> HIDE DEF Steps, h
  <2> QED BY <2>2
<1>4. N \in T
  <2>1. \A k \in 1 .. N : k - 1 \in T => k \in T
    BY <1>3
  <2> HIDE DEF T
  <2>2. \A k \in 0 .. N : k \in T
    BY <1>2, <2>1, UpTo
  <2> QED BY <2>2
<1> DEFINE A == CHOOSE g : Steps(g, N)
<1>5. ApplyAll(d, versions) = A[N]
  BY DEF ApplyAll
<1>6. Steps(A, N)
  <2> HIDE DEF Steps
  <2> QED BY <1>4
<1> HIDE DEF A
<1>7. Climb(A, d, versions)
  <2> HIDE DEF ApplyMigration
  <2> QED BY <1>6 DEF Climb
<1> HIDE DEF Steps
<1> QED BY <1>5, <1>7

LEMMA RevertAllCourse ==
    ASSUME NEW d, NEW versions, Len(versions) \in Nat
    PROVE  \E A : Descent(A, d, versions) /\ RevertAll(d, versions) = A[Len(versions)]
<1> DEFINE N == Len(versions)
           Steps(g, n) ==
               g = [i \in 0 .. n |-> IF i = 0 THEN d ELSE RevertMigration(g[i - 1], versions[i])]
           T == {n \in 0 .. N : \E g : Steps(g, n)}
<1>2. 0 \in T
  <2>1. Steps([i \in 0 .. 0 |-> d], 0)
    OBVIOUS
  <2>2. \E g : Steps(g, 0)
    BY <2>1
  <2> HIDE DEF Steps
  <2> QED BY <2>2
<1>3. ASSUME NEW k \in 1 .. N, k - 1 \in T PROVE k \in T
  <2>1. PICK g : Steps(g, k - 1)
    BY <1>3
  <2> DEFINE h == [i \in 0 .. k |-> IF i < k THEN g[i] ELSE RevertMigration(g[k - 1], versions[k])]
  <2>2. Steps(h, k)
    <3>1. ASSUME NEW i \in 0 .. k
          PROVE  h[i] = IF i = 0 THEN d ELSE RevertMigration(h[i - 1], versions[i])
      <4>1. CASE i < k
        BY <4>1, <2>1
      <4>2. CASE i = k
        BY <4>2
      <4> QED BY <4>1, <4>2
    <3> HIDE DEF h
    <3>2. h = [i \in 0 .. k |-> h[i]]
      BY DEF h
    <3> QED BY <3>1, <3>2
  <2> HIDE DEF Steps, h
  <2> QED BY <2>2
<1>4. N \in T
  <2>1. \A k \in 1 .. N : k - 1 \in T => k \in T
    BY <1>3
  <2> HIDE DEF T
  <2>2. \A k \in 0 .. N : k \in T
    BY <1>2, <2>1, UpTo
  <2> QED BY <2>2
<1> DEFINE A == CHOOSE g : Steps(g, N)
<1>5. RevertAll(d, versions) = A[N]
  BY DEF RevertAll
<1>6. Steps(A, N)
  <2> HIDE DEF Steps
  <2> QED BY <1>4
<1> HIDE DEF A
<1>7. Descent(A, d, versions)
  <2> HIDE DEF RevertMigration
  <2> QED BY <1>6 DEF Descent
<1> HIDE DEF Steps
<1> QED BY <1>5, <1>7

LEMMA AscendingIs ==
    ASSUME NEW n \in Nat, NEW m \in Nat, n <= m
    PROVE  /\ Len(Ascending(n, m)) = m - n
           /\ \A k \in 1 .. (m - n) : Ascending(n, m)[k] = n + k
BY DEF Ascending

LEMMA DescendingIs ==
    ASSUME NEW n \in Nat, NEW m \in Nat, m <= n
    PROVE  /\ Len(Descending(n, m)) = n - m
           /\ \A k \in 1 .. (n - m) : Descending(n, m)[k] = n + 1 - k
BY DEF Descending

\* An upgrade whose first migration throws leaves a schema that it cannot commit.
LEMMA ClimbFails ==
    ASSUME NEW d, IsDatabase(d), NEW m \in 1 .. 13, ExecAll(d.schema, UpStatements[1]).failed
    PROVE  /\ IsDatabase(ApplyAll(d, Ascending(0, m)))
           /\ ApplyAll(d, Ascending(0, m)).schema.failed
<1> DEFINE versions == Ascending(0, m)
           N == Len(versions)
<1>1. N = m /\ \A k \in 1 .. m : versions[k] = k
  <2>1. 0 \in Nat /\ m \in Nat /\ 0 <= m /\ m - 0 = m
    OBVIOUS
  <2>2. Len(versions) = m - 0 /\ \A k \in 1 .. (m - 0) : versions[k] = 0 + k
    BY <2>1, AscendingIs
  <2> HIDE DEF versions
  <2>3. \A k \in 1 .. m : 0 + k = k
    OBVIOUS
  <2> QED BY <2>1, <2>2, <2>3
<1>2. PICK A : Climb(A, d, versions) /\ ApplyAll(d, versions) = A[N]
  BY <1>1, ApplyAllCourse
<1> HIDE DEF versions, N
<1> DEFINE T == {k \in 1 .. m : IsDatabase(A[k]) /\ A[k].schema.failed}
<1>3. 1 \in T
  <2>1. A[1] = ApplyMigration(A[0], 1) /\ A[0] = d
    BY <1>1, <1>2 DEF Climb, N
  <2>2. A[1] = ApplyMigration(d, 1)
    BY <2>1
  <2>3. IsDatabase(A[1]) /\ A[1].schema = ExecAll(d.schema, UpStatements[1])
    BY <2>2, ApplyParts
  <2> QED BY <2>3
<1>4. ASSUME NEW k \in 2 .. m, k - 1 \in T PROVE k \in T
  <2> DEFINE a == A[k - 1]
  <2>1. A[k] = ApplyMigration(a, k) /\ IsDatabase(a) /\ a.schema.failed
    BY <1>1, <1>2, <1>4 DEF Climb, N
  <2> HIDE DEF a
  <2>2. IsDatabase(A[k]) /\ A[k].schema = ExecAll(a.schema, UpStatements[k])
    BY <2>1, ApplyParts
  <2>3. Len(UpStatements[k]) \in Nat
    <3>1. k \in 1 .. 13
      OBVIOUS
    <3> HIDE DEF T
    <3> QED BY <3>1, UpLengths
  <2>4. A[k].schema = a.schema
    BY <2>1, <2>2, <2>3, ExecAllFailed
  <2> QED BY <2>1, <2>2, <2>4
<1>5. 1 \in Nat /\ m \in Nat /\ 1 <= m /\ m \in 1 .. m
  OBVIOUS
<1>6. \A k \in (1 + 1) .. m : k - 1 \in T => k \in T
  BY <1>4
<1> HIDE DEF T
<1>7. \A k \in 1 .. m : k \in T
  BY <1>3, <1>5, <1>6, UpFrom
<1>8. m \in T
  BY <1>5, <1>7
<1> QED BY <1>1, <1>2, <1>8 DEF T, versions, N

\* Otherwise it reaches the newest version of the release, and loses no edge.
LEMMA Climbs ==
    ASSUME NEW n \in 0 .. 13, NEW d, At(n, d), NEW m \in n .. 13,
           n = 0 => ~ExecAll(d.schema, UpStatements[1]).failed
    PROVE  LET u == ApplyAll(d, Ascending(n, m)) IN
           At(m, u) /\ Live(u) = Live(d) /\ u.userVersion = d.userVersion
<1> DEFINE versions == Ascending(n, m)
           N == Len(versions)
<1>0. n \in Nat /\ m \in Nat /\ n <= m /\ m <= 13 /\ m - n \in Nat
  OBVIOUS
<1>1. N = m - n /\ \A k \in 1 .. (m - n) : versions[k] = n + k
  BY <1>0, AscendingIs
<1>2. PICK A : Climb(A, d, versions) /\ ApplyAll(d, versions) = A[N]
  BY <1>0, <1>1, ApplyAllCourse
<1> HIDE DEF versions, N
<1> DEFINE Reached(k) == /\ At(n + k, A[k]) /\ Live(A[k]) = Live(d)
                         /\ A[k].userVersion = d.userVersion
           T == {k \in 0 .. (m - n) : Reached(k)}
<1>3. 0 \in T
  <2>1. A[0] = d /\ n + 0 = n
    BY <1>2 DEF Climb
  <2>2. Reached(0)
    BY <2>1
  <2> QED BY <1>0, <2>2
<1>4. ASSUME NEW k \in 1 .. (m - n), k - 1 \in T PROVE k \in T
  <2> DEFINE a == A[k - 1]
             v == n + (k - 1)
  <2>1. v \in 0 .. 12 /\ v + 1 = n + k
    BY <1>0
  <2>2. A[k] = ApplyMigration(a, n + k)
    BY <1>1, <1>2 DEF Climb, N
  <2>3. At(v, a) /\ Live(a) = Live(d) /\ a.userVersion = d.userVersion
    BY <1>4
  <2>4. v = 0 => a = d
    <3>1. v = 0 => k = 1 /\ k - 1 = 0
      BY <1>0
    <3> QED BY <1>2, <3>1 DEF Climb
  <2>5. v = 0 => n = 0
    BY <1>0
  <2> HIDE DEF a, v
  <2>6. ~ApplyMigration(a, v + 1).schema.failed
    <3>1. CASE v = 0
      <4>1. ApplyMigration(a, v + 1).schema = ExecAll(a.schema, UpStatements[v + 1])
        BY <2>3, ApplyParts DEF At
      <4>2. v + 1 = 1
        BY <3>1
      <4> QED BY <2>4, <2>5, <3>1, <4>1, <4>2
    <3>2. CASE v # 0
      <4>1. v \in 1 .. 12
        BY <2>1, <3>2
      <4> QED BY <2>3, <4>1, ApplySucceeds
    <3> QED BY <3>1, <3>2
  <2>7. /\ At(v + 1, ApplyMigration(a, v + 1))
        /\ Live(ApplyMigration(a, v + 1)) = Live(a)
        /\ ApplyMigration(a, v + 1).userVersion = a.userVersion
    BY <2>1, <2>3, <2>6, ApplyAt
  <2>8. Reached(k)
    BY <2>1, <2>2, <2>3, <2>7
  <2>9. k \in 0 .. (m - n)
    OBVIOUS
  <2> QED BY <2>8, <2>9
<1>5. \A k \in 1 .. (m - n) : k - 1 \in T => k \in T
  BY <1>4
<1>6. m - n \in 0 .. (m - n) /\ n + (m - n) = m
  BY <1>0
<1> HIDE DEF T, Reached
<1>7. m - n \in T
  BY <1>0, <1>3, <1>5, <1>6, UpTo
<1>8. /\ At(n + (m - n), A[m - n]) /\ Live(A[m - n]) = Live(d)
      /\ A[m - n].userVersion = d.userVersion
  BY <1>7 DEF T, Reached
<1> QED BY <1>1, <1>2, <1>6, <1>8 DEF versions, N

\* A rollback reaches its target if no version in between is irreversible.
LEMMA Descends ==
    ASSUME NEW n \in 0 .. 13, NEW d, Above(n, d), NEW t \in 0 .. n,
           Irreversible \cap ((t + 1) .. n) = {}
    PROVE  Above(t, RevertAll(d, Descending(n, t)))
<1> DEFINE versions == Descending(n, t)
           N == Len(versions)
<1>0. n \in Nat /\ t \in Nat /\ t <= n /\ n <= 13 /\ n - t \in Nat
  OBVIOUS
<1>1. N = n - t /\ \A k \in 1 .. (n - t) : versions[k] = n + 1 - k
  BY <1>0, DescendingIs
<1>2. PICK A : Descent(A, d, versions) /\ RevertAll(d, versions) = A[N]
  BY <1>0, <1>1, RevertAllCourse
<1> HIDE DEF versions, N
<1> DEFINE T == {k \in 0 .. (n - t) : Above(n - k, A[k])}
<1>3. 0 \in T
  <2>1. A[0] = d /\ n - 0 = n
    BY <1>2 DEF Descent
  <2> QED BY <1>0, <2>1
<1>4. ASSUME NEW k \in 1 .. (n - t), k - 1 \in T PROVE k \in T
  <2> DEFINE a == A[k - 1]
             v == n - (k - 1)
  <2>1. v \in 1 .. 13 /\ v - 1 = n - k /\ v = n + 1 - k /\ v \in (t + 1) .. n
    BY <1>0
  <2>2. A[k] = RevertMigration(a, n + 1 - k)
    BY <1>1, <1>2 DEF Descent, N
  <2>3. Above(v, a)
    BY <1>4
  <2> HIDE DEF a, v
  <2>4. v \in (1 .. 13) \ Irreversible
    BY <2>1
  <2>5. Above(v - 1, RevertMigration(a, v))
    BY <2>3, <2>4, RevertAbove
  <2>6. Above(n - k, A[k])
    BY <2>1, <2>2, <2>5
  <2>7. k \in 0 .. (n - t)
    OBVIOUS
  <2> QED BY <2>6, <2>7
<1>5. \A k \in 1 .. (n - t) : k - 1 \in T => k \in T
  BY <1>4
<1>6. n - t \in 0 .. (n - t) /\ n - (n - t) = t
  BY <1>0
<1> HIDE DEF T
<1>7. n - t \in T
  BY <1>0, <1>3, <1>5, <1>6, UpTo
<1>8. Above(n - (n - t), A[n - t])
  BY <1>7 DEF T
<1> QED BY <1>1, <1>2, <1>6, <1>8 DEF versions, N

----------------------------------------------------------------------------
(* Numbering, upgrading and rolling back a database that a release has left *)

LEMMA LeftParts ==
    ASSUME NEW d, LeftByRelease(d)
    PROVE  /\ IsDatabase(d) /\ CurrentVersion(d) \in 0 .. 13 /\ SchemaLevel(d) \in 0 .. 13
           /\ d.applied = 1 .. CurrentVersion(d)
           /\ d.userVersion \in 0 .. CurrentVersion(d)
           /\ d.unversioned \in States
           /\ d.schema \in Schemas /\ Fits(SchemaLevel(d), d.schema)
           /\ d.unversioned = "none" => SchemaLevel(d) = CurrentVersion(d)
           /\ d.unversioned # "none" => /\ d.applied = {} /\ CurrentVersion(d) = 0
                                        /\ SchemaLevel(d) = 1 /\ Unscoped(d.schema)
           /\ \A r \in d.edges : r.id \in Nat
<1>1. /\ DatabaseOK(d) /\ Gapless(d) /\ HeaderClaims(d)
      /\ Fits(SchemaLevel(d), d.schema)
      /\ d.unversioned # "none" => d.applied = {} /\ Unscoped(d.schema)
      /\ \A r \in d.edges : r.id \in Nat
  BY DEF LeftByRelease
<1>2. /\ IsDatabase(d) /\ d.userVersion \in 0 .. 13
      /\ d.unversioned \in States /\ d.schema \in Schemas
  BY <1>1, DatabaseParts
<1>3. CurrentVersion(d) \in 0 .. 13 /\ d.applied = 1 .. CurrentVersion(d)
  BY <1>1, GaplessRun
<1>4. d.userVersion \in 0 .. CurrentVersion(d)
  <2> DEFINE n == CurrentVersion(d)
             h == d.userVersion
  <2>1. n \in 0 .. 13 /\ h \in 0 .. 13 /\ 1 .. h \subseteq 1 .. n
    BY <1>1, <1>2, <1>3 DEF HeaderClaims
  <2> HIDE DEF n, h
  <2>2. h # 0 => h \in 1 .. h
    BY <2>1
  <2>3. h \in 0 .. n
    BY <2>1, <2>2
  <2> QED BY <2>3 DEF n, h
<1>5. d.unversioned = "none" => SchemaLevel(d) = CurrentVersion(d)
  BY DEF SchemaLevel
<1>6. d.unversioned # "none" => /\ d.applied = {} /\ CurrentVersion(d) = 0
                                /\ SchemaLevel(d) = 1 /\ Unscoped(d.schema)
  BY <1>1 DEF SchemaLevel, CurrentVersion
<1>7. SchemaLevel(d) \in 0 .. 13
  BY <1>3, <1>5, <1>6
<1> QED BY <1>1, <1>2, <1>3, <1>4, <1>5, <1>6, <1>7

\* Conversely, for a database whose base row is numbered.
LEMMA LeftAt ==
    ASSUME NEW d, NEW n \in 0 .. 13, Above(n, d), d.userVersion \in 0 .. n
    PROVE  LeftByRelease(d) /\ SchemaLevel(d) = n /\ CurrentVersion(d) = n
<1>1. /\ IsDatabase(d) /\ d.applied = 1 .. n /\ d.unversioned = "none"
      /\ d.schema \in Schemas /\ Fits(n, d.schema)
      /\ \A r \in d.edges : r.id \in Nat
  BY DEF Above
<1>2. CurrentVersion(d) = n
  BY <1>1, Current
<1>3. SchemaLevel(d) = n
  BY <1>1, <1>2 DEF SchemaLevel
<1>4. DatabaseOK(d)
  <2>1. d.applied \subseteq 1 .. 13 /\ d.userVersion \in 0 .. 13
    BY <1>1
  <2>2. d.unversioned \in States
    BY <1>1 DEF States
  <2> QED BY <1>1, <2>1, <2>2, DatabaseParts
<1>5. Gapless(d) /\ HeaderClaims(d)
  BY <1>1, <1>2 DEF Gapless, HeaderClaims
<1> QED BY <1>1, <1>2, <1>3, <1>4, <1>5 DEF LeftByRelease

\* ensureMigrationVersionColumn, by the three states of the base row.
LEMMA EnsureParts ==
    ASSUME NEW d, IsDatabase(d), d.unversioned \in States
    PROVE  \/ d.unversioned \in {"none", "null"} /\ EnsureVersionColumn(d) = d
           \/ /\ d.unversioned \notin {"none", "null"}
              /\ IsDatabase(EnsureVersionColumn(d))
              /\ EnsureVersionColumn(d).applied = d.applied \cup {1}
              /\ EnsureVersionColumn(d).unversioned = "none"
              /\ EnsureVersionColumn(d).userVersion = d.userVersion
              /\ EnsureVersionColumn(d).schema = d.schema
              /\ EnsureVersionColumn(d).edges = d.edges
<1>1. CASE d.unversioned \in {"none", "null"}
  BY <1>1 DEF EnsureVersionColumn
<1>2. CASE d.unversioned \notin {"none", "null"}
  <2> DEFINE a == AddVersionColumn(d)
             u == NumberBaseRow(a)
  <2>1. EnsureVersionColumn(d) = u
    BY <1>2 DEF EnsureVersionColumn, States
  <2>2. /\ IsDatabase(a) /\ a.applied = d.applied
        /\ a.userVersion = d.userVersion /\ a.schema = d.schema /\ a.edges = d.edges
    <3>1. Unaltered(d)
      BY <1>2 DEF States, Unaltered
    <3> QED BY <3>1, ColumnParts
  <2> HIDE DEF a
  <2>3. /\ IsDatabase(u) /\ u.applied = a.applied \cup {1} /\ u.unversioned = "none"
        /\ u.userVersion = a.userVersion /\ u.schema = a.schema /\ u.edges = a.edges
    BY <2>2, NumberParts
  <2> HIDE DEF u
  <2> QED BY <1>2, <2>1, <2>2, <2>3
<1> QED BY <1>1, <1>2

LEMMA Numbered ==
    ASSUME NEW d, LeftByRelease(d), d.unversioned # "null"
    PROVE  /\ Above(SchemaLevel(d), EnsureVersionColumn(d))
           /\ EnsureVersionColumn(d).edges = d.edges
           /\ EnsureVersionColumn(d).userVersion = d.userVersion
<1> DEFINE e == EnsureVersionColumn(d)
           n == SchemaLevel(d)
<1>1. /\ IsDatabase(d) /\ CurrentVersion(d) \in 0 .. 13 /\ n \in 0 .. 13
      /\ d.applied = 1 .. CurrentVersion(d)
      /\ d.unversioned \in States
      /\ d.schema \in Schemas /\ Fits(n, d.schema)
      /\ d.unversioned = "none" => n = CurrentVersion(d)
      /\ d.unversioned # "none" => d.applied = {} /\ n = 1
      /\ \A r \in d.edges : r.id \in Nat
  BY LeftParts
<1>2. \/ d.unversioned \in {"none", "null"} /\ e = d
      \/ /\ d.unversioned \notin {"none", "null"}
         /\ IsDatabase(e) /\ e.applied = d.applied \cup {1} /\ e.unversioned = "none"
         /\ e.userVersion = d.userVersion /\ e.schema = d.schema /\ e.edges = d.edges
  BY <1>1, EnsureParts
<1> HIDE DEF e, n
<1>3. CASE d.unversioned = "none"
  BY <1>1, <1>2, <1>3 DEF Above, e, n
<1>4. CASE d.unversioned # "none"
  <2>1. e.applied = 1 .. n
    <3>1. e.applied = d.applied \cup {1}
      BY <1>2, <1>4
    <3>2. d.applied = {} /\ n = 1
      BY <1>1, <1>4
    <3> QED BY <3>1, <3>2
  <2> QED BY <1>1, <1>2, <1>4, <2>1 DEF Above, e, n
<1> QED BY <1>3, <1>4

\* migrateBoardIdempotencyState leaves what it finds, but for one column.
LEMMA BackfillAbove ==
    ASSUME NEW n \in 0 .. 13, NEW d, Above(n, d)
    PROVE  /\ At(n, BackfillState(d)) /\ BackfillState(d).edges = d.edges
           /\ BackfillState(d).userVersion = d.userVersion
<1> DEFINE u == BackfillState(d)
           r == Exec(d.schema, Column("board_idempotency_keys", "state"))
<1>1. /\ IsDatabase(d) /\ d.applied = 1 .. n /\ d.unversioned = "none"
      /\ d.schema \in Schemas /\ Fits(n, d.schema)
      /\ \A e \in d.edges : e.id \in Nat
  BY DEF Above
<1>2. /\ IsDatabase(u) /\ u.applied = d.applied
      /\ u.userVersion = d.userVersion /\ u.unversioned = d.unversioned
      /\ u.schema = r /\ u.edges = d.edges
  BY <1>1, BackfillParts
<1>3. r \in Schemas /\ WithColumn(r, "board_idempotency_keys", "state") /\ Fits(n, r)
  BY <1>1, BackfillSchema
<1> HIDE DEF u, r
<1> QED BY <1>1, <1>2, <1>3 DEF At, Ready, u

LEMMA BackfillLeaves ==
    ASSUME NEW d, LeftByRelease(d)
    PROVE  LET u == BackfillState(d) IN
           /\ LeftByRelease(u) /\ SchemaLevel(u) = SchemaLevel(d)
           /\ u.applied = d.applied /\ u.unversioned = d.unversioned
           /\ u.userVersion = d.userVersion
<1> DEFINE u == BackfillState(d)
           r == Exec(d.schema, Column("board_idempotency_keys", "state"))
           n == SchemaLevel(d)
<1>1. /\ IsDatabase(d) /\ n \in 0 .. 13 /\ d.schema \in Schemas /\ Fits(n, d.schema)
      /\ d.unversioned # "none" => d.applied = {} /\ Unscoped(d.schema)
      /\ \A e \in d.edges : e.id \in Nat
  BY LeftParts
<1>2. /\ IsDatabase(u) /\ u.applied = d.applied
      /\ u.userVersion = d.userVersion /\ u.unversioned = d.unversioned
      /\ u.schema = r /\ u.edges = d.edges
  BY <1>1, BackfillParts
<1>3. r \in Schemas /\ Fits(n, r) /\ (Unscoped(d.schema) => Unscoped(r))
  BY <1>1, BackfillSchema
<1> HIDE DEF u, r
<1>4. CurrentVersion(u) = CurrentVersion(d)
  BY <1>2 DEF CurrentVersion
<1>5. SchemaLevel(u) = n
  BY <1>2, <1>4 DEF SchemaLevel
<1> HIDE DEF n
<1>6. /\ d.applied \subseteq 1 .. 13 /\ d.userVersion \in 0 .. 13 /\ d.unversioned \in States
      /\ Gapless(d) /\ HeaderClaims(d)
  BY DatabaseParts DEF LeftByRelease
<1>7. DatabaseOK(u)
  BY <1>2, <1>3, <1>6, DatabaseParts
<1>8. Gapless(u) /\ HeaderClaims(u)
  BY <1>2, <1>4, <1>6 DEF Gapless, HeaderClaims
<1>9. LeftByRelease(u)
  BY <1>1, <1>2, <1>3, <1>5, <1>7, <1>8 DEF LeftByRelease
<1> QED BY <1>2, <1>5, <1>9 DEF u, n

\* The stamp of the header, at the end of an upgrade and of a rollback.
LEMMA StampParts ==
    ASSUME NEW d, IsDatabase(d), NEW m
    PROVE  LET u == [d EXCEPT !.userVersion = m] IN
           /\ IsDatabase(u) /\ u.applied = d.applied /\ u.userVersion = m
           /\ u.unversioned = d.unversioned /\ u.schema = d.schema /\ u.edges = d.edges
BY DEF IsDatabase

\* The slow path of migrateDatabase: what commits is a database of the newest version
\* that the release knows, or of its own version if that is newer, and the edges between
\* items are those of before.  A base row that another process is numbering makes it fail.
LEMMA UpgradeLeaves ==
    ASSUME NEW d, LeftByRelease(d), NEW m \in 1 .. 13, UpgradeCommits(d, m)
    PROVE  LET u == Upgraded(d, m)
               n == IF SchemaLevel(d) < m THEN m ELSE SchemaLevel(d)
           IN  /\ d.unversioned # "null"
               /\ LeftByRelease(u) /\ SchemaLevel(u) = n
               /\ u.applied = 1 .. n /\ u.unversioned = "none" /\ u.userVersion = m
               /\ Live(u) = Live(d)
<1> DEFINE e == EnsureVersionColumn(d)
           b == BackfillState(e)
           c == CurrentVersion(b)
           a == ApplyAll(b, Ascending(c, m))
           u == Upgraded(d, m)
           s == SchemaLevel(d)
           n == IF s < m THEN m ELSE s
<1>1. u = [a EXCEPT !.userVersion = m] /\ ~u.schema.failed
  BY DEF Upgraded, ApplyPending, UpgradeCommits
<1>2. s \in 0 .. 13
  BY LeftParts
<1>3. d.unversioned # "null"
  <2> SUFFICES ASSUME d.unversioned = "null" PROVE FALSE
    OBVIOUS
  <2>1. e = d
    BY DEF EnsureVersionColumn
  <2>2. d.unversioned # "none"
    OBVIOUS
  <2>3. /\ IsDatabase(d) /\ d.applied = {} /\ d.schema \in Schemas /\ Unscoped(d.schema)
    BY <2>2, LeftParts
  <2>4. /\ IsDatabase(b) /\ b.applied = {}
        /\ b.schema = Exec(d.schema, Column("board_idempotency_keys", "state"))
    BY <2>1, <2>3, BackfillParts
  <2>5. b.schema \in Schemas /\ Unscoped(b.schema)
    BY <2>3, <2>4, BackfillSchema
  <2>6. c = 0
    BY <2>4 DEF CurrentVersion
  <2> HIDE DEF e, b, c, u
  <2>7. ExecAll(b.schema, UpStatements[1]).failed
    BY <2>5, UnscopedFails
  <2>8. IsDatabase(a) /\ a.schema.failed
    BY <2>4, <2>6, <2>7, ClimbFails
  <2> HIDE DEF a
  <2>9. u.schema = a.schema
    BY <1>1, <2>8, StampParts
  <2> QED BY <1>1, <2>8, <2>9
<1> HIDE DEF u, e, s
<1>4. Above(s, e) /\ e.edges = d.edges /\ e.userVersion = d.userVersion
  BY <1>3, Numbered DEF e, s
<1>5. At(s, b) /\ b.edges = d.edges
  BY <1>2, <1>4, BackfillAbove
<1> HIDE DEF b
<1>6. c = s /\ s \in Nat
  BY <1>2, <1>5, Current DEF At
<1>7. Live(b) = Live(d)
  BY <1>5 DEF Live
<1>8. IsDatabase(b) /\ b.schema \in Schemas /\ IsSchema(b.schema)
  BY <1>5, SchemaParts DEF At, Ready
<1>9. CASE s < m
  <2>1. n = m /\ m \in s .. 13
    BY <1>2, <1>9
  <2>2. s = 0 => ~ExecAll(b.schema, UpStatements[1]).failed
    <3> SUFFICES ASSUME s = 0, ExecAll(b.schema, UpStatements[1]).failed PROVE FALSE
      OBVIOUS
    <3>1. IsDatabase(a) /\ a.schema.failed
      BY <1>6, <1>8, ClimbFails
    <3> HIDE DEF a
    <3> QED BY <1>1, <3>1, StampParts
  <2>3. At(m, a) /\ Live(a) = Live(b)
    <3> HIDE DEF c
    <3>1. /\ At(m, ApplyAll(b, Ascending(s, m)))
          /\ Live(ApplyAll(b, Ascending(s, m))) = Live(b)
      BY <1>2, <1>5, <2>1, <2>2, Climbs
    <3> QED BY <1>6, <3>1
  <2> HIDE DEF a
  <2>4. IsDatabase(a)
    BY <2>3 DEF At
  <2>5. /\ IsDatabase(u) /\ u.applied = a.applied /\ u.userVersion = m
        /\ u.unversioned = a.unversioned /\ u.schema = a.schema /\ u.edges = a.edges
    BY <1>1, <2>4, StampParts
  <2>6. Above(m, u)
    BY <2>3, <2>5 DEF At, Above, Ready
  <2>7. Live(u) = Live(d)
    BY <1>7, <2>3, <2>5 DEF Live
  <2>8. u.applied = 1 .. m /\ u.unversioned = "none"
    BY <2>6 DEF Above
  <2>9. LeftByRelease(u) /\ SchemaLevel(u) = m
    <3>1. m \in 0 .. 13 /\ u.userVersion \in 0 .. m
      BY <2>5
    <3> QED BY <2>6, <3>1, LeftAt
  <2> QED BY <1>3, <2>1, <2>5, <2>7, <2>8, <2>9 DEF u, s
<1>10. CASE ~(s < m)
  <2>1. n = s /\ m <= s
    BY <1>2, <1>10
  <2>2. a = b
    <3> DEFINE versions == Ascending(s, m)
    <3>1. Len(versions) = 0
      <4>1. CASE s = m
        BY <4>1 DEF Ascending
      <4>2. CASE s # m
        <5>1. m < s
          BY <1>2, <2>1, <4>2
        <5>2. versions = <<>>
          BY <5>1 DEF Ascending
        <5> QED BY <5>2
      <4> QED BY <4>1, <4>2
    <3>2. PICK A : Climb(A, b, versions) /\ ApplyAll(b, versions) = A[Len(versions)]
      <4> HIDE DEF versions
      <4>1. Len(versions) \in Nat
        BY <3>1
      <4> QED BY <4>1, ApplyAllCourse
    <3> HIDE DEF versions, c
    <3>3. ApplyAll(b, versions) = b
      BY <3>1, <3>2 DEF Climb
    <3> QED BY <1>6, <3>3 DEF versions
  <2>3. /\ IsDatabase(u) /\ u.applied = b.applied /\ u.userVersion = m
        /\ u.unversioned = b.unversioned /\ u.schema = b.schema /\ u.edges = b.edges
    BY <1>1, <1>8, <2>2, StampParts
  <2>4. Above(s, u)
    BY <1>5, <2>3 DEF At, Above, Ready
  <2>5. Live(u) = Live(d)
    BY <1>7, <2>3 DEF Live
  <2>6. u.applied = 1 .. s /\ u.unversioned = "none"
    BY <2>4 DEF Above
  <2>7. LeftByRelease(u) /\ SchemaLevel(u) = s
    <3>1. u.userVersion \in 0 .. s
      BY <1>2, <2>1, <2>3
    <3> QED BY <1>2, <2>4, <3>1, LeftAt
  <2> QED BY <1>3, <2>1, <2>3, <2>5, <2>6, <2>7 DEF u, s
<1> QED BY <1>9, <1>10

\* The transaction of rollbackDatabase.
LEMMA RollbackLeaves ==
    ASSUME NEW d, LeftByRelease(d), NEW t \in Nat, NEW latest, RollbackCommits(d, t, latest)
    PROVE  /\ LeftByRelease(RolledBack(d, t))
           /\ d.unversioned # "null" =>
                 /\ t <= SchemaLevel(d) /\ SchemaLevel(RolledBack(d, t)) = t
                 /\ Irreversible \cap ((t + 1) .. SchemaLevel(d)) = {}
           /\ d.unversioned = "null" =>
                 /\ SchemaLevel(RolledBack(d, t)) = SchemaLevel(d)
                 /\ RolledBack(d, t).unversioned = "null"
<1> DEFINE e == EnsureVersionColumn(d)
           c == CurrentVersion(e)
           a == RevertAll(e, Descending(c, t))
           u == RolledBack(d, t)
           s == SchemaLevel(d)
<1>1. u = [a EXCEPT !.userVersion = t]
  BY DEF RolledBack
<1>2. /\ t <= c /\ \A v \in e.applied : v > t => v \notin Irreversible
  BY DEF RollbackCommits
<1>3. s \in 0 .. 13
  BY LeftParts
<1>4. CASE d.unversioned # "null"
  <2> HIDE DEF s, u
  <2>1. Above(s, e)
    BY <1>4, Numbered DEF s
  <2> HIDE DEF e
  <2>2. c = s /\ s \in Nat /\ e.applied = 1 .. s
    BY <1>3, <2>1, Current DEF Above
  <2> HIDE DEF c
  <2>3. t \in 0 .. s /\ Irreversible \cap ((t + 1) .. s) = {}
    <3>1. ASSUME NEW v \in (t + 1) .. s PROVE v \in 1 .. s /\ v > t
      BY <1>3
    <3> QED BY <1>2, <1>3, <2>2, <3>1
  <2>4. Above(t, a)
    BY <1>3, <2>1, <2>2, <2>3, Descends
  <2> HIDE DEF a
  <2>5. IsDatabase(a)
    BY <2>4 DEF Above
  <2>6. /\ IsDatabase(u) /\ u.applied = a.applied /\ u.userVersion = t
        /\ u.unversioned = a.unversioned /\ u.schema = a.schema /\ u.edges = a.edges
    BY <1>1, <2>5, StampParts
  <2>7. Above(t, u)
    BY <2>4, <2>6 DEF Above
  <2>8. LeftByRelease(u) /\ SchemaLevel(u) = t
    <3>1. t \in 0 .. 13 /\ u.userVersion \in 0 .. t
      BY <1>3, <2>3, <2>6
    <3> QED BY <2>7, <3>1, LeftAt
  <2> QED BY <1>4, <2>3, <2>8 DEF s, u
<1>5. CASE d.unversioned = "null"
  <2>1. e = d
    BY <1>5 DEF EnsureVersionColumn
  <2>2. d.unversioned # "none"
    BY <1>5
  <2>3. /\ IsDatabase(d) /\ d.applied = {} /\ d.userVersion = 0 /\ CurrentVersion(d) = 0
    <3>1. /\ IsDatabase(d) /\ d.applied = {} /\ CurrentVersion(d) = 0
          /\ d.userVersion \in 0 .. CurrentVersion(d)
      BY <2>2, LeftParts
    <3> QED BY <3>1
  <2>4. c = 0 /\ t = 0
    <3>1. c = 0
      BY <2>1, <2>3
    <3> HIDE DEF c
    <3> QED BY <1>2, <3>1
  <2> HIDE DEF e, c, s, u
  <2>5. a = d
    <3> DEFINE versions == Descending(0, 0)
    <3>1. Len(versions) = 0 /\ Len(versions) \in Nat
      <4>1. 0 \in Nat /\ 0 <= 0 /\ 0 - 0 = 0
        OBVIOUS
      <4>2. Len(versions) = 0 - 0
        BY <4>1, DescendingIs
      <4> QED BY <4>2
    <3> HIDE DEF versions
    <3>2. PICK A : Descent(A, d, versions) /\ RevertAll(d, versions) = A[Len(versions)]
      BY <3>1, RevertAllCourse
    <3>3. RevertAll(d, versions) = d
      BY <3>1, <3>2 DEF Descent
    <3> QED BY <2>1, <2>4, <3>3 DEF versions
  <2> HIDE DEF a
  <2>6. u = d
    <3>1. u = [d EXCEPT !.userVersion = 0]
      BY <1>1, <2>4, <2>5
    <3> QED BY <2>3, <3>1 DEF IsDatabase
  <2> QED BY <1>5, <2>6 DEF s, u
<1> QED BY <1>4, <1>5

\* A new file has the objects of the newest version.
LEMMA FreshFits == FreshSchema \in Schemas /\ Fits(13, FreshSchema)
<1> DEFINE b == BackfillState(Empty)
           a == ApplyAll(b, Ascending(CurrentVersion(b), 13))
<1>1. IsDatabase(Empty) /\ Empty.applied = {} /\ Empty.unversioned = "none"
        /\ Empty.schema = EmptySchema
      /\ Empty.edges = {}
  BY DEF IsDatabase, Empty
<1>2. EmptySchema \in Schemas /\ Fits(0, EmptySchema)
  <2>1. IsSchema(EmptySchema) /\ ~EmptySchema.failed /\ Within(EmptySchema, AllTables, AllColumns,
          AllIndexes)
    BY DEF IsSchema, EmptySchema, Within
  <2>2. Fits(0, EmptySchema)
    BY DEF Fits
  <2> QED BY <2>1, <2>2, SchemaParts
<1>3. Above(0, Empty)
  <2>1. 1 .. 0 = {}
    OBVIOUS
  <2> QED BY <1>1, <1>2, <2>1 DEF Above
<1>4. At(0, b)
  <2>1. 0 \in 0 .. 13
    OBVIOUS
  <2> QED BY <1>3, <2>1, BackfillAbove
<1>5. b.schema = EmptySchema
  <2>1. b.schema = Exec(EmptySchema, Column("board_idempotency_keys", "state"))
    BY <1>1, BackfillParts
  <2> DEFINE stmt == Column("board_idempotency_keys", "state")
  <2>2. stmt.op = "column" /\ stmt.table = "board_idempotency_keys"
    BY DEF Column
  <2>3. IsSchema(EmptySchema) /\ ~EmptySchema.failed /\ EmptySchema.tables = {}
    BY DEF IsSchema, EmptySchema
  <2> HIDE DEF stmt
  <2>4. Exec(EmptySchema, stmt) = EmptySchema
    BY <2>2, <2>3, ExecColumn
  <2> QED BY <2>1, <2>4 DEF stmt
<1>6. CurrentVersion(b) = 0
  BY <1>4, Current DEF At
<1>7. At(13, a)
  <2> HIDE DEF b
  <2>1. 0 \in 0 .. 13 /\ 13 \in 0 .. 13
    OBVIOUS
  <2>2. ~ExecAll(b.schema, UpStatements[1]).failed
    BY <1>5, BaseSucceeds
  <2> QED BY <1>4, <1>6, <2>1, <2>2, Climbs
<1>8. FreshSchema = a.schema
  <2>1. EnsureVersionColumn(Empty) = Empty
    BY <1>1 DEF EnsureVersionColumn
  <2>2. Upgraded(Empty, 13) = [a EXCEPT !.userVersion = 13]
    BY <2>1 DEF Upgraded, ApplyPending
  <2> HIDE DEF a
  <2>3. IsDatabase(a)
    BY <1>7 DEF At
  <2>4. [a EXCEPT !.userVersion = 13].schema = a.schema
    BY <2>3, StampParts
  <2> QED BY <2>2, <2>4 DEF FreshSchema, LatestMigrationVersion
<1> HIDE DEF a
<1> QED BY <1>7, <1>8 DEF At, Ready

\* An upgrade of a database whose base row has or gets its number cannot fail: the only
\* migration that can throw on what a release has left is the first.
LEMMA NumberedUpgradeCommits ==
    ASSUME NEW d, LeftByRelease(d), d.unversioned # "null", SchemaLevel(d) >= 1, NEW m \in 1 .. 13
    PROVE  UpgradeCommits(d, m)
<1> DEFINE e == EnsureVersionColumn(d)
           b == BackfillState(e)
           c == CurrentVersion(b)
           a == ApplyAll(b, Ascending(c, m))
           u == Upgraded(d, m)
           s == SchemaLevel(d)
<1>1. u = [a EXCEPT !.userVersion = m]
  BY DEF Upgraded, ApplyPending
<1>2. s \in 1 .. 13 /\ s \in 0 .. 13 /\ s \in Nat
  BY LeftParts
<1> HIDE DEF u, s
<1>3. Above(s, e)
  BY Numbered DEF s
<1> HIDE DEF e
<1>4. At(s, b)
  BY <1>2, <1>3, BackfillAbove
<1>5. c = s
  BY <1>2, <1>4, Current DEF At
<1> HIDE DEF b
<1>6. IsDatabase(a) /\ a.schema \in Schemas
  <2>1. CASE s <= m
    <3> HIDE DEF c
    <3>1. At(m, ApplyAll(b, Ascending(s, m)))
      <4>1. m \in s .. 13 /\ s # 0
        BY <1>2, <2>1
      <4> QED BY <1>2, <1>4, <4>1, Climbs
    <3> QED BY <1>5, <3>1 DEF At, Ready
  <2>2. CASE m < s
    <3>1. Ascending(s, m) = <<>>
      BY <2>2 DEF Ascending
    <3> DEFINE versions == Ascending(s, m)
    <3>2. Len(versions) = 0 /\ Len(versions) \in Nat
      BY <3>1
    <3> HIDE DEF versions, c
    <3>3. PICK A : Climb(A, b, versions) /\ ApplyAll(b, versions) = A[Len(versions)]
      BY <3>2, ApplyAllCourse
    <3>4. a = b
      BY <1>5, <3>2, <3>3 DEF Climb, versions
    <3> HIDE DEF a
    <3> QED BY <1>4, <3>4 DEF At, Ready
  <2> QED BY <1>2, <2>1, <2>2
<1> HIDE DEF a
<1>7. u.schema = a.schema
  BY <1>1, <1>6, StampParts
<1>8. ~u.schema.failed
  BY <1>6, <1>7, SchemaParts
<1> QED BY <1>8 DEF UpgradeCommits, u

----------------------------------------------------------------------------
(* The inductive invariant *)

Jobs == [kind : {"idle", "open", "status", "rollback"}, target : Nat \cup {-1},
         payload : [version : Int, userVersion : Int]]

\* Some release has left every copy.
CopiesOK == /\ \E S : backups \in Seq(S)
            /\ Len(backups) <= Retain
            /\ \A i \in DOMAIN backups : LeftByRelease(backups[i])

\* Between its ALTER and its UPDATE a command is the only one there, and the base row
\* it is to number still has none.
NumberOK ==
    \A p \in Process : pc[p] = "number" =>
        /\ db.unversioned = "null"
        /\ \A q \in Process : pc[q] = "number" => q = p

\* A rollback knows its target by then.
TargetOK == \A p \in Process : pc[p] = "rollback" => job[p].target \in Nat

IInv == /\ pc \in [Process -> Labels] /\ job \in [Process -> Jobs]
        /\ LeftByRelease(db) /\ CopiesOK /\ NumberOK /\ TargetOK

LEMMA IdleIsJob == Idle \in Jobs
BY DEF Idle, None, Jobs

LEMMA InitIInv == Init => IInv
<1> SUFFICES ASSUME Init PROVE IInv
  OBVIOUS
<1>1. LeftByRelease(db)
  BY DatabasesAssumption DEF Init
<1>2. pc \in [Process -> Labels] /\ job \in [Process -> Jobs]
  BY IdleIsJob DEF Init, Labels
<1>3. CopiesOK
  <2>1. backups \in Seq({}) /\ Len(backups) = 0 /\ DOMAIN backups = {}
    BY DEF Init
  <2> QED BY <2>1, RetainAssumption DEF CopiesOK
<1>4. NumberOK /\ TargetOK
  BY DEF Init, NumberOK, TargetOK
<1> QED BY <1>1, <1>2, <1>3, <1>4 DEF IInv

\* A step of one command that takes it to a label and leaves the copies alone.
LEMMA MoveKeeps ==
    ASSUME IInv, NEW p \in Process, NEW label \in Labels, Goto(p, label),
           NEW j \in Jobs, Become(p, j), UNCHANGED backups, LeftByRelease(db'),
           label = "rollback" => j.target \in Nat,
           label = "number" => db'.unversioned = "null",
           \A q \in Process : q # p /\ pc[q] = "number" =>
               label # "number" /\ db'.unversioned = "null"
    PROVE  IInv'
<1>1. /\ pc' \in [Process -> Labels] /\ pc'[p] = label
      /\ \A q \in Process : q # p => pc'[q] = pc[q]
  BY DEF IInv, Goto
<1>2. /\ job' \in [Process -> Jobs] /\ job'[p] = j
      /\ \A q \in Process : q # p => job'[q] = job[q]
  BY DEF IInv, Become
<1>3. CopiesOK'
  <2>1. CopiesOK
    BY DEF IInv
  <2> QED BY <2>1 DEF CopiesOK
<1>4. NumberOK'
  <2>1. NumberOK
    BY DEF IInv
  <2> QED BY <1>1, <2>1 DEF NumberOK
<1>5. TargetOK'
  <2>1. TargetOK
    BY DEF IInv
  <2> QED BY <1>1, <1>2, <2>1 DEF TargetOK
<1> QED BY <1>1, <1>2, <1>3, <1>4, <1>5 DEF IInv

\* The same of a step that leaves the job and the number of the base row as they are.
LEMMA PlainMoveKeeps ==
    ASSUME IInv, NEW p \in Process, NEW label \in Labels, Goto(p, label),
           UNCHANGED <<job, backups>>, LeftByRelease(db'), db'.unversioned = db.unversioned,
           label \notin {"rollback", "number"}
    PROVE  IInv'
<1>1. job[p] \in Jobs /\ Become(p, job[p])
  BY DEF IInv, Become
<1>2. \A q \in Process : q # p /\ pc[q] = "number" => db'.unversioned = "null"
  BY DEF IInv, NumberOK
<1> QED BY <1>1, <1>2, MoveKeeps

\* What each statement or transaction does to the database.
LEMMA ConfirmLeaves ==
    ASSUME NEW d, LeftByRelease(d), NEW m \in 1 .. 13, CurrentVersion(d) = m
    PROVE  LET u == [d EXCEPT !.userVersion = m] IN
           /\ LeftByRelease(u) /\ SchemaLevel(u) = SchemaLevel(d)
           /\ u.unversioned = d.unversioned /\ u.applied = 1 .. m
<1> DEFINE u == [d EXCEPT !.userVersion = m]
<1>1. /\ IsDatabase(d) /\ d.applied = 1 .. m /\ d.unversioned = "none"
      /\ d.schema \in Schemas /\ Fits(m, d.schema) /\ SchemaLevel(d) = m
      /\ \A r \in d.edges : r.id \in Nat
  <2>1. d.unversioned = "none"
    <3>1. d.unversioned # "none" => CurrentVersion(d) = 0
      BY LeftParts
    <3> QED BY <3>1
  <2>2. SchemaLevel(d) = m
    BY <2>1, LeftParts
  <2> QED BY <2>1, <2>2, LeftParts
<1>2. /\ IsDatabase(u) /\ u.applied = d.applied /\ u.userVersion = m
      /\ u.unversioned = d.unversioned /\ u.schema = d.schema /\ u.edges = d.edges
  BY <1>1, StampParts
<1> HIDE DEF u
<1>3. Above(m, u)
  BY <1>1, <1>2 DEF Above
<1>4. LeftByRelease(u) /\ SchemaLevel(u) = m
  <2>1. m \in 0 .. 13 /\ u.userVersion \in 0 .. m
    BY <1>2
  <2> QED BY <1>3, <2>1, LeftAt
<1> QED BY <1>1, <1>2, <1>4 DEF u

LEMMA AlterLeaves ==
    ASSUME NEW d, LeftByRelease(d), Unaltered(d)
    PROVE  LET u == AddVersionColumn(d) IN
           LeftByRelease(u) /\ SchemaLevel(u) = SchemaLevel(d) /\ u.unversioned = "null"
<1> DEFINE u == AddVersionColumn(d)
           numbered == "none"
           null == "null"
<1>1. d.unversioned # numbered /\ null # numbered /\ null \in States
  BY DEF States, Unaltered
<1>2. /\ IsDatabase(d) /\ d.applied = {} /\ CurrentVersion(d) = 0 /\ SchemaLevel(d) = 1
      /\ Unscoped(d.schema) /\ d.schema \in Schemas /\ Fits(1, d.schema)
      /\ d.userVersion \in 0 .. 13 /\ \A r \in d.edges : r.id \in Nat
  <2>1. /\ d.applied = {} /\ CurrentVersion(d) = 0 /\ SchemaLevel(d) = 1
        /\ Unscoped(d.schema)
    BY <1>1, LeftParts
  <2> HIDE DEF numbered, null
  <2>2. /\ IsDatabase(d) /\ d.schema \in Schemas /\ Fits(SchemaLevel(d), d.schema)
        /\ d.userVersion \in 0 .. CurrentVersion(d) /\ \A r \in d.edges : r.id \in Nat
    BY LeftParts
  <2>3. d.userVersion \in 0 .. 13
    BY <2>1, <2>2
  <2> QED BY <2>1, <2>2, <2>3
<1>3. /\ IsDatabase(u) /\ u.applied = d.applied /\ u.unversioned = null
      /\ u.userVersion = d.userVersion /\ u.schema = d.schema /\ u.edges = d.edges
  BY <1>2, ColumnParts
<1>4. Gapless(d) /\ HeaderClaims(d)
  BY DEF LeftByRelease
<1> HIDE DEF u
<1>5. CurrentVersion(u) = CurrentVersion(d)
  BY <1>3 DEF CurrentVersion
<1>6. SchemaLevel(u) = 1
  BY <1>2, <1>3, <1>1 DEF SchemaLevel
<1> HIDE DEF null, numbered
<1>7. DatabaseOK(u)
  <2>1. u.applied \subseteq 1 .. 13 /\ u.userVersion \in 0 .. 13
    BY <1>2, <1>3
  <2> QED BY <1>1, <1>2, <1>3, <2>1, DatabaseParts
<1>8. Gapless(u) /\ HeaderClaims(u)
  BY <1>3, <1>4, <1>5 DEF Gapless, HeaderClaims
<1>9. LeftByRelease(u)
  BY <1>2, <1>3, <1>6, <1>7, <1>8 DEF LeftByRelease
<1> QED BY <1>2, <1>3, <1>6, <1>9 DEF u, null

LEMMA NumberLeaves ==
    ASSUME NEW d, LeftByRelease(d), d.unversioned = "null"
    PROVE  LET u == NumberBaseRow(d) IN
           LeftByRelease(u) /\ SchemaLevel(u) = SchemaLevel(d) /\ 1 \notin d.applied
<1> DEFINE u == NumberBaseRow(d)
<1>1. d.unversioned # "none"
  OBVIOUS
<1>2. /\ IsDatabase(d) /\ d.applied = {} /\ CurrentVersion(d) = 0 /\ SchemaLevel(d) = 1
      /\ d.schema \in Schemas /\ Fits(1, d.schema)
      /\ d.userVersion = 0 /\ \A r \in d.edges : r.id \in Nat
  <2>1. /\ IsDatabase(d) /\ d.applied = {} /\ CurrentVersion(d) = 0 /\ SchemaLevel(d) = 1
        /\ d.schema \in Schemas /\ Fits(SchemaLevel(d), d.schema)
        /\ d.userVersion \in 0 .. CurrentVersion(d) /\ \A r \in d.edges : r.id \in Nat
    BY <1>1, LeftParts
  <2> QED BY <2>1
<1>3. /\ IsDatabase(u) /\ u.applied = d.applied \cup {1} /\ u.unversioned = "none"
      /\ u.userVersion = d.userVersion /\ u.schema = d.schema /\ u.edges = d.edges
  BY <1>2, NumberParts
<1> HIDE DEF u
<1>4. u.applied = 1 .. 1
  BY <1>2, <1>3
<1>5. Above(1, u)
  BY <1>2, <1>3, <1>4 DEF Above
<1>6. LeftByRelease(u) /\ SchemaLevel(u) = 1
  <2>1. 1 \in 0 .. 13 /\ u.userVersion \in 0 .. 1
    BY <1>2, <1>3
  <2> QED BY <1>5, <2>1, LeftAt
<1> QED BY <1>2, <1>6 DEF u

\* The releases are among the versions.
LEMMA ReleaseIs == \A p \in Process : Release[p] \in 1 .. 13
BY ReleaseAssumption DEF LatestMigrationVersion

LEMMA SeqDomain ==
    ASSUME NEW S, NEW s \in Seq(S)
    PROVE  DOMAIN s = 1 .. Len(s)
OBVIOUS

LEMMA Slice ==
    ASSUME NEW S, NEW s, NEW m \in Int, NEW n \in Int, \A i \in m .. n : s[i] \in S,
           NEW t, t = SubSeq(s, m, n)
    PROVE  /\ t \in Seq(S) /\ Len(t) = (IF m <= n THEN n - m + 1 ELSE 0)
           /\ \A i \in 1 .. n - m + 1 : t[i] = s[m + i - 1]
BY SubSeqProperties

\* The copies after a backup are the newest of the copies before and the live database.
LEMMA NewestCopies ==
    ASSUME NEW S, NEW s \in Seq(S), NEW d, NEW n \in Nat
    PROVE  LET all == Append(s, d)
               kept == SubSeq(all, 1 + Len(all) - (IF Len(all) < n THEN Len(all) ELSE n), Len(all))
           IN  /\ kept \in Seq(S \cup {d}) /\ Len(kept) <= n
               /\ \A i \in DOMAIN kept : kept[i] = d \/ \E j \in DOMAIN s : kept[i] = s[j]
<1> DEFINE all == Append(s, d)
           N == Len(all)
           K == IF N < n THEN N ELSE n
           first == 1 + N - K
           kept == SubSeq(all, first, N)
           R == S \cup {d}
<1>1. /\ Len(s) \in Nat /\ N = Len(s) + 1 /\ N \in Nat
      /\ \A k \in 1 .. N : all[k] = IF k <= Len(s) THEN s[k] ELSE d
      /\ \A k \in 1 .. Len(s) : s[k] \in S
      /\ DOMAIN s = 1 .. Len(s)
  OBVIOUS
<1>2. K \in Nat /\ K <= n /\ K <= N
  BY <1>1
<1> HIDE DEF all, N, K
<1>3. first \in 1 .. (N + 1) /\ N - first + 1 = K /\ first \in Int /\ N \in Int
  BY <1>1, <1>2
<1>4. \A k \in first .. N : all[k] \in R
  BY <1>1, <1>2
<1> HIDE DEF first, R
<1>5. /\ kept \in Seq(R) /\ Len(kept) = (IF first <= N THEN N - first + 1 ELSE 0)
      /\ \A i \in 1 .. N - first + 1 : kept[i] = all[first + i - 1]
  <2>1. first \in Int /\ N \in Int
    BY <1>3
  <2> QED BY <1>4, <2>1, Slice
<1> HIDE DEF kept
<1>6. Len(kept) = K
  BY <1>2, <1>3, <1>5
<1>7. DOMAIN kept = 1 .. K
  BY <1>5, <1>6, SeqDomain
<1>8. ASSUME NEW i \in 1 .. K
      PROVE  kept[i] = d \/ \E j \in DOMAIN s : kept[i] = s[j]
  <2>1. first + i - 1 \in 1 .. N
    BY <1>2, <1>3
  <2>2. kept[i] = all[first + i - 1]
    BY <1>3, <1>5
  <2> QED BY <1>1, <2>1, <2>2
<1>9. Len(kept) <= n
  BY <1>2, <1>6
<1> QED BY <1>5, <1>7, <1>8, <1>9 DEF kept, first, K, N, R, all

----------------------------------------------------------------------------
(* The steps *)

\* A step that takes a command to a label, and leaves the database, the jobs and the
\* copies alone.
LEMMA QuietMoveKeeps ==
    ASSUME IInv, NEW p \in Process, NEW label \in Labels, Goto(p, label),
           UNCHANGED <<job, backups, db>>, label \notin {"rollback", "number"}
    PROVE  IInv'
<1>1. LeftByRelease(db')
  BY DEF IInv
<1> QED BY <1>1, PlainMoveKeeps

\* The start and the end of a command.
LEMMA StartKeeps ==
    ASSUME IInv, NEW p \in Process, NEW label \in Labels, label \notin {"rollback", "number"},
           Goto(p, label), NEW j \in Jobs, Become(p, j), UNCHANGED <<backups, db>>
    PROVE  IInv'
<1>1. LeftByRelease(db')
  BY DEF IInv
<1>2. \A q \in Process : q # p /\ pc[q] = "number" => db'.unversioned = "null"
  BY DEF IInv, NumberOK
<1> QED BY <1>1, <1>2, MoveKeeps

LEMMA OpenKeeps ==
    ASSUME IInv, NEW p \in Process, Open(p) PROVE IInv'
<1> DEFINE j == [Idle EXCEPT !.kind = "open"]
<1>1. j \in Jobs
  BY DEF Idle, None, Jobs
<1>2. Goto(p, "marker") /\ Become(p, j) /\ UNCHANGED <<backups, db>>
  BY DEF Open
<1>3. "marker" \in Labels /\ "marker" \notin {"rollback", "number"}
  BY DEF Labels
<1> HIDE DEF j
<1> QED BY <1>1, <1>2, <1>3, StartKeeps

LEMMA OpenForStatusKeeps ==
    ASSUME IInv, NEW p \in Process, OpenForStatus(p) PROVE IInv'
<1> DEFINE j == [Idle EXCEPT !.kind = "status"]
<1>1. j \in Jobs
  BY DEF Idle, None, Jobs
<1>2. Goto(p, "describe") /\ Become(p, j) /\ UNCHANGED <<backups, db>>
  BY DEF OpenForStatus
<1>3. "describe" \in Labels /\ "describe" \notin {"rollback", "number"}
  BY DEF Labels
<1> HIDE DEF j
<1> QED BY <1>1, <1>2, <1>3, StartKeeps

LEMMA OpenForRollbackKeeps ==
    ASSUME IInv, NEW p \in Process, OpenForRollback(p) PROVE IInv'
<1>1. PICK t \in Targets : Become(p, [Idle EXCEPT !.kind = "rollback", !.target = t])
  BY DEF OpenForRollback
<1> DEFINE j == [Idle EXCEPT !.kind = "rollback", !.target = t]
<1>2. j \in Jobs
  <2>1. t \in Nat \cup {-1}
    BY TargetsAssumption
  <2>2. j = [kind |-> "rollback", target |-> t, payload |-> None]
    <3> DEFINE kind == "rollback"
               idle == "idle"
    <3>1. Idle = [kind |-> idle, target |-> 0, payload |-> None]
      BY DEF Idle
    <3>2. j = [Idle EXCEPT !.kind = kind, !.target = t]
      OBVIOUS
    <3> HIDE DEF j, kind, idle
    <3>3. j = [kind |-> kind, target |-> t, payload |-> None]
      BY <3>1, <3>2
    <3> QED BY <3>3 DEF kind
  <2>3. None \in [version : Int, userVersion : Int]
    BY DEF None
  <2> HIDE DEF j
  <2> QED BY <2>1, <2>2, <2>3 DEF Jobs
<1>3. Goto(p, "describe") /\ Become(p, j) /\ UNCHANGED <<backups, db>>
  BY <1>1 DEF OpenForRollback
<1>4. "describe" \in Labels /\ "describe" \notin {"rollback", "number"}
  BY DEF Labels
<1> HIDE DEF j
<1> QED BY <1>2, <1>3, <1>4, StartKeeps

LEMMA EndKeeps ==
    ASSUME IInv, NEW p \in Process, Close(p) \/ Crash(p) PROVE IInv'
<1>1. Goto(p, "idle") /\ Become(p, Idle) /\ UNCHANGED <<backups, db>>
  BY DEF Close, Crash
<1>2. "idle" \in Labels /\ "idle" \notin {"rollback", "number"}
  BY DEF Labels
<1> QED BY <1>1, <1>2, IdleIsJob, StartKeeps

\* The steps that only look, or work on the files beside the database.
LEMMA MarkerStepKeeps ==
    ASSUME IInv, NEW p \in Process,
           \/ ReadMarker(p) \/ WriteFails(p) \/ WriteTmp(p) \/ RenameTmp(p)
           \/ UnlinkMarker(p) \/ LockBusy(p)
    PROVE  IInv'
<1>1. PICK label \in {"header", "probe", "unlink", "ready", "rename", "failed"} : Goto(p, label)
  BY DEF ReadMarker, WriteFails, WriteTmp, RenameTmp, UnlinkMarker, LockBusy
<1>2. UNCHANGED <<job, backups, db>>
  BY DEF ReadMarker, WriteFails, WriteTmp, RenameTmp, UnlinkMarker, LockBusy
<1>3. label \in Labels /\ label \notin {"rollback", "number"}
  BY DEF Labels
<1> QED BY <1>1, <1>2, <1>3, QuietMoveKeeps

LEMMA ReadUserVersionKeeps ==
    ASSUME IInv, NEW p \in Process, ReadUserVersion(p) PROVE IInv'
<1> DEFINE version == IF job[p].kind = "rollback" THEN job[p].target ELSE Release[p]
           j == [job[p] EXCEPT !.payload = Payload(version, db.userVersion)]
<1>1. j \in Jobs
  <2>1. job[p] \in Jobs /\ LeftByRelease(db) /\ Release[p] \in 1 .. 13
    BY ReleaseIs DEF IInv
  <2>2. db.userVersion \in Int
    <3>1. CurrentVersion(db) \in 0 .. 13 /\ db.userVersion \in 0 .. CurrentVersion(db)
      BY <2>1, LeftParts
    <3> QED BY <3>1
  <2>3. version \in Int
    BY <2>1 DEF Jobs
  <2> HIDE DEF version
  <2> QED BY <2>1, <2>2, <2>3 DEF Jobs, Payload
<1>2. Goto(p, "write") /\ Become(p, j) /\ UNCHANGED <<backups, db>>
  BY DEF ReadUserVersion
<1>3. "write" \in Labels /\ "write" \notin {"rollback", "number"}
  BY DEF Labels
<1> HIDE DEF j
<1> QED BY <1>1, <1>2, <1>3, StartKeeps

\* The steps that may add the state column of the board, and nothing else.
LEMMA BackfillKeeps ==
    ASSUME IInv, NEW p \in Process, NEW label \in Labels, Goto(p, label),
           UNCHANGED <<job, backups>>, db' = BackfillState(db) \/ UNCHANGED db,
           label \notin {"rollback", "number"}
    PROVE  IInv'
<1>1. LeftByRelease(db)
  BY DEF IInv
<1>2. LeftByRelease(db') /\ db'.unversioned = db.unversioned
  BY <1>1, BackfillLeaves
<1> QED BY <1>2, PlainMoveKeeps

LEMMA ProbeKeeps ==
    ASSUME IInv, NEW p \in Process, MatchHeader(p) \/ ProbeSchema(p) PROVE IInv'
<1>1. PICK label \in {"ready", "probe", "confirm", "upgrade"} : Goto(p, label)
  BY DEF MatchHeader, ProbeSchema
<1>2. UNCHANGED <<job, backups>> /\ (db' = BackfillState(db) \/ UNCHANGED db)
  BY DEF MatchHeader, ProbeSchema
<1>3. label \in Labels /\ label \notin {"rollback", "number"}
  BY DEF Labels
<1> QED BY <1>1, <1>2, <1>3, BackfillKeeps

LEMMA ConfirmKeeps ==
    ASSUME IInv, NEW p \in Process, ConfirmAndStamp(p) PROVE IInv'
<1>1. LeftByRelease(db) /\ Release[p] \in 1 .. 13
  BY ReleaseIs DEF IInv
<1>2. UNCHANGED <<job, backups>>
  BY DEF ConfirmAndStamp
<1>3. PICK label \in {"stamped", "upgrade"} : Goto(p, label)
  BY DEF ConfirmAndStamp
<1>4. label \in Labels /\ label \notin {"rollback", "number"}
  BY DEF Labels
<1>5. LeftByRelease(db') /\ db'.unversioned = db.unversioned
  <2>1. CASE CurrentVersion(db) = Release[p]
    <3>1. db' = [db EXCEPT !.userVersion = Release[p]]
      BY <2>1 DEF ConfirmAndStamp
    <3> QED BY <1>1, <2>1, <3>1, ConfirmLeaves
  <2>2. CASE CurrentVersion(db) # Release[p]
    BY <1>1, <2>2 DEF ConfirmAndStamp
  <2> QED BY <2>1, <2>2
<1> QED BY <1>2, <1>3, <1>4, <1>5, PlainMoveKeeps

LEMMA UpgradeKeeps ==
    ASSUME IInv, NEW p \in Process, Upgrade(p) PROVE IInv'
<1>1. LeftByRelease(db) /\ Release[p] \in 1 .. 13 /\ job[p] \in Jobs /\ Become(p, job[p])
  BY ReleaseIs DEF IInv, Upgrade, Become
<1>2. UNCHANGED <<job, backups>>
  BY DEF Upgrade
<1>3. CASE UpgradeCommits(db, Release[p])
  <2>1. Goto(p, "stamped") /\ db' = Upgraded(db, Release[p])
    BY <1>3 DEF Upgrade
  <2>2. "stamped" \in Labels
    BY DEF Labels
  <2>3. LeftByRelease(db') /\ db.unversioned # "null"
    BY <1>1, <1>3, <2>1, UpgradeLeaves
  <2>4. \A q \in Process : pc[q] # "number"
    BY <2>3 DEF IInv, NumberOK
  <2> QED BY <1>1, <1>2, <2>1, <2>2, <2>3, <2>4, MoveKeeps
<1>4. CASE ~UpgradeCommits(db, Release[p])
  <2>1. Goto(p, "failed") /\ UNCHANGED db
    BY <1>4 DEF Upgrade
  <2>2. "failed" \in Labels /\ "failed" \notin {"rollback", "number"}
    BY DEF Labels
  <2> QED BY <1>2, <2>1, <2>2, QuietMoveKeeps
<1> QED BY <1>3, <1>4

LEMMA AlterTableKeeps ==
    ASSUME IInv, NEW p \in Process, AlterTable(p) PROVE IInv'
<1>1. LeftByRelease(db) /\ job[p] \in Jobs /\ Become(p, job[p]) /\ UNCHANGED <<job, backups>>
  BY DEF IInv, AlterTable, Become
<1>2. CASE Unaltered(db)
  <2>1. Goto(p, "number") /\ db' = AddVersionColumn(db)
    BY <1>2 DEF AlterTable, Unaltered
  <2>2. LeftByRelease(db') /\ db'.unversioned = "null"
    BY <1>1, <1>2, <2>1, AlterLeaves
  <2>3. db.unversioned # "null"
    BY <1>2 DEF Unaltered
  <2>4. \A q \in Process : pc[q] # "number"
    BY <2>3 DEF IInv, NumberOK
  <2>5. "number" \in Labels /\ "number" # "rollback"
    BY DEF Labels
  <2> QED BY <1>1, <2>1, <2>2, <2>4, <2>5, MoveKeeps
<1>3. CASE ~Unaltered(db)
  <2>1. Goto(p, "described") /\ UNCHANGED db
    BY <1>3 DEF AlterTable, Unaltered
  <2>2. "described" \in Labels /\ "described" \notin {"rollback", "number"}
    BY DEF Labels
  <2> QED BY <1>1, <2>1, <2>2, QuietMoveKeeps
<1> QED BY <1>2, <1>3

LEMMA NumberRowKeeps ==
    ASSUME IInv, NEW p \in Process, NumberRow(p) PROVE IInv'
<1>1. LeftByRelease(db) /\ job[p] \in Jobs /\ Become(p, job[p]) /\ UNCHANGED <<job, backups>>
  BY DEF IInv, NumberRow, Become
<1>2. db.unversioned = "null" /\ \A q \in Process : pc[q] = "number" => q = p
  BY DEF IInv, NumberOK, NumberRow
<1>3. db' = NumberBaseRow(db)
  BY DEF NumberRow
<1>4. LeftByRelease(db')
  BY <1>1, <1>2, <1>3, NumberLeaves
<1>5. PICK label \in {"failed", "described"} : Goto(p, label)
  BY DEF NumberRow
<1>6. label \in Labels /\ label \notin {"rollback", "number"}
  BY DEF Labels
<1> QED BY <1>1, <1>2, <1>4, <1>5, <1>6, MoveKeeps

LEMMA DescribedKeeps ==
    ASSUME IInv, NEW p \in Process, Described(p) PROVE IInv'
<1>1. /\ LeftByRelease(db) /\ job[p] \in Jobs /\ job \in [Process -> Jobs]
      /\ UNCHANGED backups /\ db' = BackfillState(db)
  BY DEF IInv, Described
<1>2. CASE job[p].kind = "status"
  <2>1. Goto(p, "ready") /\ UNCHANGED job
    BY <1>2 DEF Described
  <2>2. "ready" \in Labels /\ "ready" \notin {"rollback", "number"}
    BY DEF Labels
  <2> QED BY <1>1, <2>1, <2>2, BackfillKeeps
<1>3. CASE job[p].kind # "status"
  <2> DEFINE t == IF job[p].target = -1 THEN Predecessor(db) ELSE job[p].target
             j == [job[p] EXCEPT !.target = t]
  <2>1. Goto(p, "rollback") /\ Become(p, j)
    BY <1>3 DEF Described
  <2>2. t \in Nat
    <3>1. CurrentVersion(db) \in 0 .. 13
      BY <1>1, LeftParts
    <3>2. Predecessor(db) \in Nat
      BY <3>1 DEF Predecessor
    <3> QED BY <1>1, <3>2 DEF Jobs
  <2> HIDE DEF t
  <2>3. j \in Jobs /\ j.target \in Nat
    BY <1>1, <2>2 DEF Jobs
  <2>4. LeftByRelease(db') /\ db'.unversioned = db.unversioned
    BY <1>1, BackfillLeaves
  <2>5. \A q \in Process : q # p /\ pc[q] = "number" => db'.unversioned = "null"
    BY <2>4 DEF IInv, NumberOK
  <2>6. "rollback" \in Labels /\ "rollback" # "number"
    BY DEF Labels
  <2> HIDE DEF j
  <2> QED BY <1>1, <2>1, <2>3, <2>4, <2>5, <2>6, MoveKeeps
<1> QED BY <1>2, <1>3

LEMMA RollbackKeeps ==
    ASSUME IInv, NEW p \in Process, Rollback(p) PROVE IInv'
<1>1. LeftByRelease(db) /\ job[p] \in Jobs /\ Become(p, job[p]) /\ UNCHANGED <<job, backups>>
  BY DEF IInv, Rollback, Become
<1> DEFINE t == job[p].target
<1>2. t \in Nat
  BY DEF IInv, TargetOK, Rollback
<1>3. CASE RollbackCommits(db, t, Release[p])
  <2>1. Goto(p, "stamped") /\ db' = RolledBack(db, t)
    BY <1>3 DEF Rollback
  <2> HIDE DEF t
  <2>2. /\ LeftByRelease(RolledBack(db, t))
        /\ db.unversioned = "null" => RolledBack(db, t).unversioned = "null"
    BY <1>1, <1>2, <1>3, RollbackLeaves
  <2>3. \A q \in Process : pc[q] = "number" => db'.unversioned = "null"
    BY <2>1, <2>2 DEF IInv, NumberOK
  <2>4. "stamped" \in Labels /\ "stamped" # "number" /\ "stamped" # "rollback"
    BY DEF Labels
  <2> QED BY <1>1, <2>1, <2>2, <2>3, <2>4, MoveKeeps
<1>4. CASE ~RollbackCommits(db, t, Release[p])
  <2>1. Goto(p, "failed") /\ UNCHANGED db
    BY <1>4 DEF Rollback
  <2>2. "failed" \in Labels /\ "failed" \notin {"rollback", "number"}
    BY DEF Labels
  <2> QED BY <1>1, <2>1, <2>2, QuietMoveKeeps
<1> QED BY <1>3, <1>4

LEMMA BackupKeeps ==
    ASSUME IInv, NEW p \in Process, Backup(p) PROVE IInv'
<1>1. CopiesOK /\ LeftByRelease(db)
  BY DEF IInv
<1>2. PICK S : backups \in Seq(S)
  BY <1>1 DEF CopiesOK
<1>3. /\ \E R : backups' \in Seq(R)
      /\ Len(backups') <= Retain
      /\ \A i \in DOMAIN backups' :
            backups'[i] = db \/ \E j \in DOMAIN backups : backups'[i] = backups[j]
  <2> DEFINE all == Append(backups, db)
             kept == SubSeq(all, 1 + Len(all) - (IF Len(all) < Retain THEN Len(all) ELSE Retain),
                            Len(all))
  <2>1. backups' = kept
    BY DEF Backup
  <2>2. Retain \in Nat
    BY RetainAssumption
  <2>3. /\ kept \in Seq(S \cup {db}) /\ Len(kept) <= Retain
        /\ \A i \in DOMAIN kept : kept[i] = db \/ \E j \in DOMAIN backups : kept[i] = backups[j]
    BY <1>2, <2>2, NewestCopies
  <2> HIDE DEF kept
  <2> QED BY <2>1, <2>3
<1>4. CopiesOK'
  BY <1>1, <1>3 DEF CopiesOK
<1>5. UNCHANGED <<db, pc, job>>
  BY DEF Backup
<1> QED BY <1>4, <1>5 DEF IInv, NumberOK, TargetOK

LEMMA RestoreKeeps ==
    ASSUME IInv, Restore PROVE IInv'
<1>1. /\ \A p \in Process : pc[p] = "idle"
      /\ UNCHANGED <<backups, pc, job>>
  BY DEF Restore
<1>2. LeftByRelease(db')
  BY DEF Restore, IInv, CopiesOK
<1> QED BY <1>1, <1>2 DEF IInv, CopiesOK, NumberOK, TargetOK

LEMMA NextKeepsIInv ==
    ASSUME IInv, [Next]_vars PROVE IInv'
<1>1. ASSUME NEW p \in Process, Step(p) PROVE IInv'
  BY <1>1, MarkerStepKeeps, ProbeKeeps, ConfirmKeeps, UpgradeKeeps, AlterTableKeeps,
     NumberRowKeeps, DescribedKeeps, RollbackKeeps, ReadUserVersionKeeps DEF Step
<1>2. CASE UNCHANGED vars
  BY <1>2 DEF vars, IInv, CopiesOK, NumberOK, TargetOK
<1> QED
  BY <1>1, <1>2, OpenKeeps, OpenForStatusKeeps, OpenForRollbackKeeps, BackupKeeps,
     MarkerStepKeeps, EndKeeps, RestoreKeeps DEF Next

LEMMA Inductive == Spec => []IInv
BY InitIInv, NextKeepsIInv, PTL DEF Spec

----------------------------------------------------------------------------
(* The properties *)

LEMMA StoredIsLeft == IInv => \A d \in Stored : LeftByRelease(d)
BY DEF IInv, CopiesOK, Stored

\* The type invariant: every stored database is one of a gapless run of versions, and no
\* more copies are kept than asked for.
THEOREM TypeCorrect == Spec => []TypeOK
<1>1. IInv => TypeOK
  <2> SUFFICES ASSUME IInv PROVE TypeOK
    OBVIOUS
  <2>1. \A d \in Stored : DatabaseOK(d) /\ Gapless(d)
    BY StoredIsLeft DEF LeftByRelease
  <2>2. pc \in [Process -> Labels] /\ Len(backups) <= Retain
    BY DEF IInv, CopiesOK
  <2> QED BY <2>1, <2>2 DEF TypeOK
<1> QED BY <1>1, Inductive, PTL

\* The header of the live database and of every copy claims nothing that is not there, and
\* a database of the newest version has the schema of a new file, whatever its past.
THEOREM HeadersAreTrue == Spec => []HeaderTruthful
<1>1. IInv => HeaderTruthful
  <2> SUFFICES ASSUME IInv, NEW d \in Stored
               PROVE  /\ HeaderClaims(d)
                      /\ IsSchemaCurrent(d, LatestMigrationVersion) => d.schema = FreshSchema
    BY DEF HeaderTruthful
  <2>1. LeftByRelease(d)
    BY StoredIsLeft
  <2>2. HeaderClaims(d)
    BY <2>1 DEF LeftByRelease
  <2>3. ASSUME IsSchemaCurrent(d, LatestMigrationVersion) PROVE d.schema = FreshSchema
    <3>1. d.unversioned = "none" /\ d.applied = 1 .. 13
      BY <2>3 DEF IsSchemaCurrent, LatestMigrationVersion
    <3>2. CurrentVersion(d) = 13 /\ SchemaLevel(d) = 13
      <4>1. CurrentVersion(d) = 13
        BY <3>1, Current
      <4> QED BY <3>1, <4>1 DEF SchemaLevel
    <3>3. d.schema \in Schemas /\ Fits(13, d.schema)
      BY <2>1, <3>2, LeftParts
    <3> QED BY <3>3, FreshFits, OneNewestSchema
  <2> QED BY <2>2, <2>3
<1> QED BY <1>1, Inductive, PTL

\* Orphaned and repeated dependency rows go, and no dependency between existing items.
THEOREM UpgradesKeepEdges == Spec => EdgesKept
<1>1. IInv /\ [Next]_vars => [\A p \in Process : Upgrade(p) => Live(db') = Live(db)]_vars
  <2> SUFFICES ASSUME IInv, NEW p \in Process, Upgrade(p) PROVE Live(db') = Live(db)
    OBVIOUS
  <2>1. LeftByRelease(db) /\ Release[p] \in 1 .. 13
    BY ReleaseIs DEF IInv
  <2>2. CASE UpgradeCommits(db, Release[p])
    <3>1. db' = Upgraded(db, Release[p])
      BY <2>2 DEF Upgrade
    <3> QED BY <2>1, <2>2, <3>1, UpgradeLeaves
  <2>3. CASE ~UpgradeCommits(db, Release[p])
    BY <2>3 DEF Upgrade
  <2> QED BY <2>2, <2>3
<1> QED BY <1>1, Inductive, PTL DEF Spec, EdgesKept

\* The three ways in: the header that matches the marker, the recheck, the upgrade.
LEMMA LetThroughMigrated ==
    ASSUME IInv, Next, NEW p \in Process, pc[p] \in Opening, pc'[p] \in {"stamped", "ready"}
    PROVE  1 .. Release[p] \subseteq db'.applied
<1>1. LeftByRelease(db) /\ Release[p] \in 1 .. 13 /\ pc \in [Process -> Labels]
  BY ReleaseIs DEF IInv
<1>2. pc[p] \notin {"stamped", "ready", "describe", "number", "described", "rollback", "write",
                    "rename", "unlink", "idle", "failed"}
  BY DEF Opening
<1>3. CASE MatchHeader(p)
  <2>1. db.userVersion = Release[p] /\ db' = BackfillState(db)
    BY <1>1, <1>3 DEF MatchHeader, Goto
  <2>2. HeaderClaims(db)
    BY <1>1 DEF LeftByRelease
  <2>3. db'.applied = db.applied
    BY <1>1, <2>1, BackfillLeaves
  <2> QED BY <2>1, <2>2, <2>3 DEF HeaderClaims
<1>4. CASE ConfirmAndStamp(p)
  <2>1. CurrentVersion(db) = Release[p] /\ db' = [db EXCEPT !.userVersion = Release[p]]
    BY <1>1, <1>4 DEF ConfirmAndStamp, Goto
  <2>2. db'.applied = 1 .. Release[p]
    BY <1>1, <2>1, ConfirmLeaves
  <2> QED BY <2>2
<1>5. CASE Upgrade(p)
  <2>1. UpgradeCommits(db, Release[p]) /\ db' = Upgraded(db, Release[p])
    BY <1>1, <1>5 DEF Upgrade, Goto
  <2> DEFINE s == SchemaLevel(db)
             n == IF s < Release[p] THEN Release[p] ELSE s
  <2>2. db'.applied = 1 .. n
    BY <1>1, <2>1, UpgradeLeaves
  <2>3. s \in 0 .. 13
    BY <1>1, LeftParts
  <2> HIDE DEF s
  <2> QED BY <1>1, <2>2, <2>3
<1>6. ASSUME NEW q \in Process, NEW label, Goto(q, label),
             q = p => label \notin {"stamped", "ready"}
      PROVE  FALSE
  BY <1>1, <1>2, <1>6 DEF Goto
<1>7. ASSUME NEW q \in Process, q # p, Step(q)
      PROVE  FALSE
  <2>1. \E label : Goto(q, label)
    BY <1>7 DEF Step, ReadMarker, MatchHeader, ProbeSchema, ConfirmAndStamp, Upgrade, AlterTable,
       NumberRow, Described, Rollback, ReadUserVersion, WriteTmp, RenameTmp, WriteFails,
         UnlinkMarker
  <2> QED BY <1>6, <1>7, <2>1
<1>8. ASSUME Step(p), ~MatchHeader(p), ~ConfirmAndStamp(p), ~Upgrade(p)
      PROVE  FALSE
  <2>1. ReadMarker(p) \/ ProbeSchema(p)
    BY <1>2, <1>8 DEF Step, AlterTable, NumberRow, Described, Rollback, ReadUserVersion, WriteTmp,
       RenameTmp, WriteFails, UnlinkMarker
  <2>2. \E label : Goto(p, label) /\ label \notin {"stamped", "ready"}
    <3>1. CASE ReadMarker(p)
      BY <3>1 DEF ReadMarker
    <3>2. CASE ProbeSchema(p)
      BY <3>2 DEF ProbeSchema
    <3> QED BY <2>1, <3>1, <3>2
  <2> QED BY <1>6, <2>2
<1>9. ASSUME NEW q \in Process,
             \/ Open(q) \/ OpenForStatus(q) \/ OpenForRollback(q) \/ Backup(q)
             \/ LockBusy(q) \/ Close(q) \/ Crash(q)
      PROVE  FALSE
  <2>1. (\E label : Goto(q, label) /\ label \notin {"stamped", "ready"}) \/ UNCHANGED pc
    <3>1. Backup(q) => UNCHANGED pc
      BY DEF Backup
    <3>2. Open(q) => Goto(q, "marker")
      BY DEF Open
    <3>3. OpenForStatus(q) \/ OpenForRollback(q) => Goto(q, "describe")
      BY DEF OpenForStatus, OpenForRollback
    <3>4. LockBusy(q) => Goto(q, "failed")
      BY DEF LockBusy
    <3>5. Close(q) \/ Crash(q) => Goto(q, "idle")
      BY DEF Close, Crash
    <3> QED BY <1>9, <3>1, <3>2, <3>3, <3>4, <3>5
  <2> QED BY <1>2, <1>6, <2>1
<1>10. ~Restore
  BY <1>2 DEF Restore
<1> QED BY <1>3, <1>4, <1>5, <1>7, <1>8, <1>9, <1>10 DEF Next

\* No command works on the database before the migrations of its release are applied.
THEOREM ServedIsMigrated == Spec => ServedMigrated
<1>1. IInv /\ [Next]_vars =>
         [\A p \in Process : pc[p] \in Opening /\ pc'[p] \in {"stamped", "ready"}
                                => 1 .. Release[p] \subseteq db'.applied]_vars
  BY LetThroughMigrated
<1> QED BY <1>1, Inductive, PTL DEF Spec, ServedMigrated

\* No migration after the first can throw on what a release has left, whatever upgrades,
\* rollbacks, copies and crashes came before: an upgrade of any release commits, but for a
\* database of version 0 and one whose base row another command is numbering.
UpgradesCommit ==
    db.unversioned # "null" /\ SchemaLevel(db) >= 1 => \A p \in Process : UpgradeCommits(db,
      Release[p])

THEOREM OldDatabasesUpgrade == Spec => []UpgradesCommit
<1>1. IInv => UpgradesCommit
  BY ReleaseIs, NumberedUpgradeCommits DEF IInv, UpgradesCommit
<1> QED BY <1>1, Inductive, PTL

----------------------------------------------------------------------------
(* The promise of SchemaVersion *)

Level == SchemaLevel(db)
Saved == {SchemaLevel(backups[i]) : i \in DOMAIN backups}
Promise == [Versions!Next]_<<Level, Saved>>

LEMMA QuietStep ==
    ASSUME UNCHANGED backups, SchemaLevel(db') = SchemaLevel(db)
    PROVE  UNCHANGED <<Level, Saved>>
BY DEF Level, Saved

LEMMA UpgradeIsUpgrade ==
    ASSUME IInv, NEW p \in Process, Upgrade(p)
    PROVE  Versions!Upgrade \/ UNCHANGED <<Level, Saved>>
<1>1. LeftByRelease(db) /\ Release[p] \in 1 .. 13 /\ UNCHANGED backups
  BY ReleaseIs DEF IInv, Upgrade
<1>2. CASE UpgradeCommits(db, Release[p])
  <2>1. db' = Upgraded(db, Release[p])
    BY <1>2 DEF Upgrade
  <2> DEFINE s == SchemaLevel(db)
             n == IF s < Release[p] THEN Release[p] ELSE s
  <2>2. SchemaLevel(db') = n
    BY <1>1, <1>2, <2>1, UpgradeLeaves
  <2>3. s \in 0 .. 13
    BY <1>1, LeftParts
  <2>4. CASE s < Release[p]
    <3>1. SchemaLevel(db') = Release[p]
      BY <2>2, <2>4
    <3>2. UNCHANGED Saved
      BY <1>1 DEF Saved
    <3> QED BY <1>1, <2>3, <2>4, <3>1, <3>2 DEF Versions!Upgrade, Saved
  <2>5. CASE ~(s < Release[p])
    BY <1>1, <2>2, <2>5, QuietStep
  <2> QED BY <2>4, <2>5
<1>3. CASE ~UpgradeCommits(db, Release[p])
  BY <1>1, <1>3, QuietStep DEF Upgrade
<1> QED BY <1>2, <1>3

LEMMA RollbackIsRollback ==
    ASSUME IInv, NEW p \in Process, Rollback(p)
    PROVE  Versions!Rollback \/ UNCHANGED <<Level, Saved>>
<1> DEFINE t == job[p].target
           s == SchemaLevel(db)
<1>1. LeftByRelease(db) /\ t \in Nat /\ UNCHANGED backups
  BY DEF IInv, TargetOK, Rollback
<1>2. CASE RollbackCommits(db, t, Release[p])
  <2>1. db' = RolledBack(db, t)
    BY <1>2 DEF Rollback
  <2> HIDE DEF t
  <2>2. CASE db.unversioned = "null"
    <3>1. SchemaLevel(db') = SchemaLevel(db)
      BY <1>1, <1>2, <2>1, <2>2, RollbackLeaves
    <3> QED BY <1>1, <3>1, QuietStep
  <2>3. CASE db.unversioned # "null"
    <3>1. /\ t <= s /\ SchemaLevel(db') = t
          /\ Irreversible \cap ((t + 1) .. s) = {}
      BY <1>1, <1>2, <2>1, <2>3, RollbackLeaves
    <3>2. s \in 0 .. 13
      BY <1>1, LeftParts
    <3>3. CASE t = s
      BY <1>1, <3>1, <3>3, QuietStep
    <3>4. CASE t # s
      <4>1. t \in 0 .. (s - 1)
        BY <1>1, <3>1, <3>2, <3>4
      <4> HIDE DEF s
      <4> QED BY <1>1, <3>1, <4>1 DEF Versions!Rollback, s
    <3> QED BY <3>3, <3>4
  <2> QED BY <2>2, <2>3
<1>3. CASE ~RollbackCommits(db, t, Release[p])
  BY <1>1, <1>3, QuietStep DEF Rollback
<1> QED BY <1>2, <1>3

LEMMA BackupIsSave ==
    ASSUME IInv, NEW p \in Process, Backup(p)
    PROVE  Versions!Save
<1>1. PICK S : backups \in Seq(S)
  BY DEF IInv, CopiesOK
<1>2. \A i \in DOMAIN backups' :
         backups'[i] = db \/ \E j \in DOMAIN backups : backups'[i] = backups[j]
  <2> DEFINE all == Append(backups, db)
             kept == SubSeq(all, 1 + Len(all) - (IF Len(all) < Retain THEN Len(all) ELSE Retain),
                            Len(all))
  <2>1. backups' = kept
    BY DEF Backup
  <2>2. Retain \in Nat
    BY RetainAssumption
  <2>3. /\ kept \in Seq(S \cup {db}) /\ Len(kept) <= Retain
        /\ \A i \in DOMAIN kept : kept[i] = db \/ \E j \in DOMAIN backups : kept[i] = backups[j]
    BY <1>1, <2>2, NewestCopies
  <2> HIDE DEF kept
  <2> QED BY <2>1, <2>3
<1>3. UNCHANGED db
  BY DEF Backup
<1>4. Saved' \subseteq Saved \cup {Level}
  BY <1>2 DEF Saved, Level
<1> QED BY <1>3, <1>4 DEF Versions!Save, Saved, Level

LEMMA RestoreIsRestore ==
    ASSUME Restore
    PROVE  Versions!Restore
<1>1. PICK i \in DOMAIN backups : db' = backups[i]
  BY DEF Restore
<1>2. UNCHANGED backups
  BY DEF Restore
<1> QED BY <1>1, <1>2 DEF Versions!Restore

\* No other step changes the version.
LEMMA OtherSteps ==
    ASSUME IInv, NEW p \in Process,
           \/ Open(p) \/ OpenForStatus(p) \/ OpenForRollback(p) \/ LockBusy(p) \/ Close(p) \/ Crash(p)
           \/ ReadMarker(p) \/ MatchHeader(p) \/ ProbeSchema(p) \/ ConfirmAndStamp(p)
           \/ AlterTable(p) \/ NumberRow(p) \/ Described(p)
           \/ ReadUserVersion(p) \/ WriteTmp(p) \/ RenameTmp(p) \/ WriteFails(p) \/ UnlinkMarker(p)
    PROVE  UNCHANGED <<Level, Saved>>
<1>1. LeftByRelease(db) /\ Release[p] \in 1 .. 13
  BY ReleaseIs DEF IInv
<1>2. UNCHANGED backups
  BY DEF Open, OpenForStatus, OpenForRollback, LockBusy, Close, Crash, ReadMarker, MatchHeader,
     ProbeSchema, ConfirmAndStamp, AlterTable, NumberRow, Described, ReadUserVersion, WriteTmp,
     RenameTmp, WriteFails, UnlinkMarker
<1>3. CASE \/ Open(p) \/ OpenForStatus(p) \/ OpenForRollback(p) \/ LockBusy(p) \/ Close(p) \/ Crash(p)
           \/ ReadMarker(p) \/ ReadUserVersion(p) \/ WriteTmp(p) \/ RenameTmp(p) \/ WriteFails(p)
           \/ UnlinkMarker(p)
  <2>1. UNCHANGED db
    BY <1>3 DEF Open, OpenForStatus, OpenForRollback, LockBusy, Close, Crash, ReadMarker,
       ReadUserVersion, WriteTmp, RenameTmp, WriteFails, UnlinkMarker
  <2> QED BY <1>2, <2>1, QuietStep
<1>4. CASE MatchHeader(p) \/ ProbeSchema(p) \/ Described(p)
  <2>1. db' = BackfillState(db) \/ UNCHANGED db
    BY <1>4 DEF MatchHeader, ProbeSchema, Described
  <2> QED BY <1>1, <1>2, <2>1, BackfillLeaves, QuietStep
<1>5. CASE ConfirmAndStamp(p)
  <2>1. CASE CurrentVersion(db) = Release[p]
    <3>1. db' = [db EXCEPT !.userVersion = Release[p]]
      BY <1>5, <2>1 DEF ConfirmAndStamp
    <3> QED BY <1>1, <1>2, <2>1, <3>1, ConfirmLeaves, QuietStep
  <2>2. CASE CurrentVersion(db) # Release[p]
    BY <1>2, <1>5, <2>2, QuietStep DEF ConfirmAndStamp
  <2> QED BY <2>1, <2>2
<1>6. CASE AlterTable(p)
  <2>1. CASE Unaltered(db)
    <3>1. db' = AddVersionColumn(db)
      BY <1>6, <2>1 DEF AlterTable, Unaltered
    <3> QED BY <1>1, <1>2, <2>1, <3>1, AlterLeaves, QuietStep
  <2>2. CASE ~Unaltered(db)
    BY <1>2, <1>6, <2>2, QuietStep DEF AlterTable, Unaltered
  <2> QED BY <2>1, <2>2
<1>7. CASE NumberRow(p)
  <2>1. db.unversioned = "null"
    BY <1>7 DEF IInv, NumberOK, NumberRow
  <2>2. db' = NumberBaseRow(db)
    BY <1>7 DEF NumberRow
  <2> QED BY <1>1, <1>2, <2>1, <2>2, NumberLeaves, QuietStep
<1> QED BY <1>3, <1>4, <1>5, <1>6, <1>7

LEMMA StepIsVersion == IInv /\ [Next]_vars => Promise
<1> SUFFICES ASSUME IInv, [Next]_vars
             PROVE  Versions!Next \/ UNCHANGED <<Level, Saved>>
  BY DEF Promise
<1>1. CASE UNCHANGED vars
  <2>1. UNCHANGED <<db, backups>>
    BY <1>1 DEF vars
  <2> QED BY <2>1, QuietStep
<1>2. ASSUME NEW p \in Process, Step(p) PROVE Versions!Next \/ UNCHANGED <<Level, Saved>>
  BY <1>2, OtherSteps, UpgradeIsUpgrade, RollbackIsRollback DEF Step, Versions!Next
<1> QED
  BY <1>1, <1>2, OtherSteps, BackupIsSave, RestoreIsRestore DEF Next, Versions!Next

\* The schema has one version, whichever commands run: it moves by whole upgrades, by
\* rollbacks that no irreversible version stops, and by copies put back.
THEOREM VersionsKeepPromise == Spec => OneVersionAtATime
<1>1. Init => Versions!Init
  <2> SUFFICES ASSUME Init PROVE Versions!Init
    OBVIOUS
  <2>1. LeftByRelease(db)
    BY InitIInv DEF IInv
  <2>2. SchemaLevel(db) \in Nat
    <3>1. SchemaLevel(db) \in 0 .. 13
      BY <2>1, LeftParts
    <3> QED BY <3>1
  <2>3. DOMAIN backups = {}
    BY DEF Init
  <2> QED BY <2>2, <2>3 DEF Versions!Init
<1>2. IInv /\ [Next]_vars => [Versions!Next]_<<SchemaLevel(db),
        {SchemaLevel(backups[i]) : i \in DOMAIN backups}>>
  BY StepIsVersion DEF Promise, Level, Saved
<1> QED BY <1>1, <1>2, Inductive, PTL DEF Spec, OneVersionAtATime, Versions!Spec
=============================================================================
