------------------------------- MODULE HubProofs -------------------------------
(***************************************************************************)
(* Proofs about Hub, for every number of tasks, openers, migrations and    *)
(* mishaps: the schema is whole whoever migrates it, what is posted in     *)
(* Slack is true and in order, and a start reports everything it lists.    *)
(***************************************************************************)
EXTENDS Hub, DeliveryProofs, WellFoundedInduction

USE MigrationsAssumption, NobodyAssumption

-----------------------------------------------------------------------------
(* Migrations: the inductive invariant.                                    *)

\* The versions below v are applied, as the code of o has them.
AppliedBelow(o, v) ==
    \A w \in 1..LATEST_SCHEMA_VERSION(o) :
      w < v => w \in DOMAIN applied /\ applied[w] = MIGRATIONS[o][w]

OpPc == {"closed", "read", "begin", "execute", "commit", "open", "error"}

\* What an opener knows: it has seen nothing at or above the version it is at,
\* everything below is applied, and what it is about to commit is not.
OpenerOK(o) ==
    /\ op[o] = [pc |-> op[o].pc, seen |-> op[o].seen, version |-> op[o].version]
    /\ op[o].pc \in OpPc
    /\ op[o].pc \in {"begin", "execute", "commit"} =>
         /\ op[o].version \in 1..LATEST_SCHEMA_VERSION(o)
         /\ \A v \in DOMAIN op[o].seen : v \in Nat /\ v < op[o].version
         /\ AppliedBelow(o, op[o].version)
    /\ op[o].pc \in {"execute", "commit"} => writer = o
    /\ OpAt(o, "commit") => op[o].version \notin DOMAIN applied
    /\ OpAt(o, "open") => AppliedBelow(o, LATEST_SCHEMA_VERSION(o) + 1)

MigrationsInv ==
    /\ user_version \in Nat
    /\ DOMAIN applied = 1..user_version
    /\ tables = Range(applied)
    /\ op = [o \in Opener |-> op[o]]
    /\ \A o \in Opener : OpenerOK(o)

\* The invariant implies that the schema is whole.
LEMMA MigrationsInvImplies == MigrationsInv => SchemaWhole
<1> SUFFICES ASSUME MigrationsInv PROVE SchemaWhole
  OBVIOUS
<1>1. ASSUME NEW o \in Opener, OpAt(o, "open"), NEW v \in 1..LATEST_SCHEMA_VERSION(o)
      PROVE  v \in DOMAIN applied /\ applied[v] = MIGRATIONS[o][v]
  <2>1. LATEST_SCHEMA_VERSION(o) \in Nat
    BY DEF LATEST_SCHEMA_VERSION
  <2>2. v < LATEST_SCHEMA_VERSION(o) + 1
    BY <2>1
  <2> QED
    BY <1>1, <2>2 DEF MigrationsInv, OpenerOK, AppliedBelow
<1> QED
  BY <1>1 DEF MigrationsInv, SchemaWhole

\* A new file, or one that was migrated completely.
LEMMA MigrationsInitInv == MigrationsInit => MigrationsInv
<1> SUFFICES ASSUME MigrationsInit PROVE MigrationsInv
  OBVIOUS
<1>1. Len(applied) \in Nat /\ DOMAIN applied = 1..Len(applied)
  <2>1. CASE applied = <<>>
    BY <2>1
  <2>2. CASE applied \in Range(MIGRATIONS)
    <3>1. PICK o \in Opener : applied = MIGRATIONS[o]
      BY <2>2 DEF Range
    <3> QED
      BY <3>1
  <2> QED
    BY <2>1, <2>2 DEF MigrationsInit
<1>2. ASSUME NEW o \in Opener PROVE OpenerOK(o)
  BY DEF MigrationsInit, NotOpen, OpenerOK, OpPc, OpAt
<1> QED
  BY <1>1, <1>2 DEF MigrationsInit, MigrationsInv

-----------------------------------------------------------------------------
(* Migrations: one lemma per kind of step.                                 *)

\* Only the opener o moves, to r.
OpenerMoves(o, r) == op' = [op EXCEPT ![o] = r]

\* A step of o that leaves the schema alone: it neither takes the writer's place
\* from another, nor claims more than it has done.
LEMMA OpenerStep ==
  ASSUME MigrationsInv, NEW o \in Opener, NEW r, OpenerMoves(o, r), UNCHANGED schemaVars,
         OpenerOK(o)',
         writer' = writer \/ writer \in {o, Nobody}
  PROVE  MigrationsInv'
<1>1. applied' = applied /\ tables' = tables /\ user_version' = user_version
  BY DEF schemaVars
<1>2. /\ op' = [p \in Opener |-> op'[p]]
      /\ \A p \in Opener : p # o => op'[p] = op[p]
  BY DEF MigrationsInv, OpenerMoves
<1>3. ASSUME NEW p \in Opener, p # o
      PROVE  OpenerOK(p)'
  <2>1. OpenerOK(p) /\ op'[p] = op[p]
    BY <1>2, <1>3 DEF MigrationsInv
  <2>2. op[p].pc \in {"execute", "commit"} => writer' = p
    BY <1>3, <2>1 DEF OpenerOK
  <2>3. \A v : AppliedBelow(p, v)' <=> AppliedBelow(p, v)
    BY <1>1 DEF AppliedBelow, LATEST_SCHEMA_VERSION
  <2>4. AppliedBelow(p, op[p].version) <=> AppliedBelow(p, op[p].version)'
    BY <1>1, <2>1 DEF AppliedBelow, LATEST_SCHEMA_VERSION
  <2> QED
    BY <1>1, <2>1, <2>2, <2>3, <2>4 DEF OpenerOK, OpAt, LATEST_SCHEMA_VERSION
<1> QED
  BY <1>1, <1>2, <1>3 DEF MigrationsInv

\* A step of o that forgets everything: connect, close, and an error.
LEMMA OpenerForgets ==
  ASSUME MigrationsInv, NEW o \in Opener, UNCHANGED schemaVars,
         connect(o) \/ close(o) \/ Raise(o),
         writer' = writer \/ writer = o
  PROVE  MigrationsInv'
<1>1. PICK p \in {"read", "closed", "error"} :
        op' = [op EXCEPT ![o] = [pc |-> p, seen |-> <<>>, version |-> 0]]
  <2>1. ASSUME NEW p PROVE [NotOpen EXCEPT !.pc = p] = [pc |-> p, seen |-> <<>>, version |-> 0]
    BY DEF NotOpen
  <2> QED
    BY <2>1 DEF connect, close, Raise, NotOpen
<1>2. op'[o] = [pc |-> p, seen |-> <<>>, version |-> 0]
  BY <1>1 DEF MigrationsInv
<1>3. OpenerOK(o)'
  BY <1>2 DEF OpenerOK, OpPc, OpAt
<1> QED
  BY <1>1, <1>3, OpenerStep DEF OpenerMoves

\* The next version after m, when exactly the versions above m are pending.
LEMMA AdvanceMoves ==
  ASSUME NEW o \in Opener, NEW seen, NEW version, NEW m \in 0..LATEST_SCHEMA_VERSION(o),
         \A v \in 1..LATEST_SCHEMA_VERSION(o) :
           v > version /\ v \notin DOMAIN seen <=> v > m,
         Advance(o, seen, version)
  PROVE  OpenerMoves(o, IF m = LATEST_SCHEMA_VERSION(o)
                        THEN [pc |-> "open", seen |-> seen, version |-> version]
                        ELSE [pc |-> "begin", seen |-> seen, version |-> m + 1])
<1> DEFINE n == LATEST_SCHEMA_VERSION(o)
           pending == {v \in 1..n : v > version /\ v \notin DOMAIN seen}
<1>1. n \in Nat
  BY DEF LATEST_SCHEMA_VERSION
<1>2. op' = [op EXCEPT ![o] = IF pending = {} THEN [pc |-> "open", seen |-> seen, version |-> version]
                              ELSE [pc |-> "begin", seen |-> seen, version |-> Min(pending)]]
  BY DEF Advance
<1>3. \A v : v \in pending <=> v \in 1..n /\ v > m
  OBVIOUS
<1> HIDE DEF n, pending
<1>4. m \in 0..n
  BY DEF n
<1>5. CASE m = n
  <2>1. pending = {}
    BY <1>1, <1>3, <1>5
  <2> QED
    BY <1>2, <1>5, <2>1 DEF OpenerMoves, n
<1>6. CASE m # n
  <2>1. m + 1 \in pending /\ \A v \in pending : m + 1 <= v
    BY <1>1, <1>3, <1>4, <1>6
  <2>2. ASSUME NEW x \in pending, \A y \in pending : x <= y
        PROVE  x = m + 1
    BY <1>1, <1>3, <1>4, <2>1, <2>2
  <2>3. Min(pending) = m + 1
    BY <2>1, <2>2 DEF Min
  <2> QED
    BY <1>2, <1>6, <2>1, <2>3 DEF OpenerMoves, n
<1> QED
  BY <1>5, <1>6

\* The rows that are read are a prefix of what this code has.
LEMMA ReadAppliedInv ==
  ASSUME MigrationsInv, NEW o \in Opener, read_applied(o)
  PROVE  MigrationsInv'
<1> DEFINE n == LATEST_SCHEMA_VERSION(o)
<1>1. UNCHANGED schemaVars /\ writer' = writer /\ n \in Nat /\ LATEST_SCHEMA_VERSION(o)' = n
  BY DEF read_applied, LATEST_SCHEMA_VERSION
<1>2. CASE Incompatible(o, applied)
  BY <1>1, <1>2, OpenerForgets DEF read_applied
<1>3. CASE ~Incompatible(o, applied)
  <2>1. user_version \in Nat /\ DOMAIN applied = 1..user_version
    BY DEF MigrationsInv
  <2>2. \A v \in DOMAIN applied : v <= n /\ applied[v] = MIGRATIONS[o][v]
    <3>1. ASSUME NEW v \in DOMAIN applied PROVE v <= n
      BY <1>1, <1>3, <2>1 DEF Incompatible
    <3> QED
      BY <1>3, <3>1 DEF Incompatible
  <2>3. user_version \in 0..n
    BY <1>1, <2>1, <2>2
  <2>4. \A v \in 1..n : v > 0 /\ v \notin DOMAIN applied <=> v > user_version
    BY <2>1
  <2> DEFINE r == IF user_version = n
                  THEN [pc |-> "open", seen |-> applied, version |-> 0]
                  ELSE [pc |-> "begin", seen |-> applied, version |-> user_version + 1]
  <2>5. OpenerMoves(o, r)
    BY <1>3, <2>3, <2>4, AdvanceMoves DEF read_applied
  <2>6. op'[o] = r
    BY <2>5 DEF OpenerMoves, MigrationsInv
  <2>7. AppliedBelow(o, user_version + 1)
    <3>1. \A w \in 1..n : w < user_version + 1 => w \in DOMAIN applied
      BY <1>1, <2>1
    <3> QED
      BY <2>2, <3>1 DEF AppliedBelow
  <2>8. OpenerOK(o)'
    <3>1. applied' = applied
      BY <1>1 DEF schemaVars
    <3>2. CASE user_version = n
      <4>1. op'[o] = [pc |-> "open", seen |-> applied, version |-> 0]
        BY <2>6, <3>2
      <4>2. AppliedBelow(o, LATEST_SCHEMA_VERSION(o) + 1)'
        BY <1>1, <2>7, <3>1, <3>2 DEF AppliedBelow
      <4> QED
        BY <4>1, <4>2 DEF OpenerOK, OpPc, OpAt
    <3>3. CASE user_version # n
      <4>1. op'[o] = [pc |-> "begin", seen |-> applied, version |-> user_version + 1]
        BY <2>6, <3>3
      <4>2. user_version + 1 \in 1..n
        BY <1>1, <2>3, <3>3
      <4>3. AppliedBelow(o, op[o].version)'
        BY <1>1, <2>7, <3>1, <4>1 DEF AppliedBelow
      <4>4. \A v \in DOMAIN applied : v \in Nat /\ v < user_version + 1
        BY <2>1
      <4> QED
        BY <1>1, <4>1, <4>2, <4>3, <4>4 DEF OpenerOK, OpPc, OpAt
    <3> QED
      BY <3>2, <3>3
  <2> QED
    BY <1>1, <2>5, <2>8, OpenerStep
<1> QED
  BY <1>2, <1>3

\* An opener that changes its place in the transaction.
LEMMA PlaceInv ==
  ASSUME MigrationsInv, NEW o \in Opener, NEW p \in {"execute", "commit"},
         op' = [op EXCEPT ![o].pc = p], UNCHANGED schemaVars, writer' = o,
         op[o].pc \in {"begin", "execute"}, writer \in {o, Nobody},
         p = "commit" => op[o].version \notin DOMAIN applied
  PROVE  MigrationsInv'
<1> DEFINE r == [pc |-> p, seen |-> op[o].seen, version |-> op[o].version]
<1>1. OpenerOK(o)
  BY DEF MigrationsInv
<1>2. [op[o] EXCEPT !.pc = p] = r
  BY <1>1 DEF OpenerOK
<1>3. OpenerMoves(o, r)
  BY <1>2 DEF OpenerMoves
<1>4. op'[o] = r
  BY <1>3 DEF OpenerMoves, MigrationsInv
<1>5. applied' = applied /\ (AppliedBelow(o, op[o].version) => AppliedBelow(o, op[o].version)')
  BY <1>4 DEF schemaVars, AppliedBelow, LATEST_SCHEMA_VERSION
<1>6. OpenerOK(o)'
  BY <1>1, <1>4, <1>5 DEF OpenerOK, OpPc, OpAt, LATEST_SCHEMA_VERSION
<1> QED
  BY <1>3, <1>6, OpenerStep

\* BEGIN IMMEDIATE, and the statements.
LEMMA TransactionInv ==
  ASSUME MigrationsInv, NEW o \in Opener, begin_immediate(o) \/ execute_statements(o)
  PROVE  MigrationsInv'
<1>1. UNCHANGED schemaVars
  BY DEF begin_immediate, execute_statements
<1>2. CASE begin_immediate(o) /\ writer = Nobody
  <2>1. OpAt(o, "begin") /\ writer' = o /\ op' = [op EXCEPT ![o].pc = "execute"]
    BY <1>2 DEF begin_immediate
  <2> QED
    BY <1>1, <1>2, <2>1, PlaceInv DEF OpAt
<1>3. CASE begin_immediate(o) /\ writer # Nobody
  BY <1>1, <1>3, OpenerForgets DEF begin_immediate
<1>4. CASE execute_statements(o)
  <2>1. OpAt(o, "execute") /\ writer = o
    BY <1>4 DEF execute_statements, MigrationsInv, OpenerOK, OpAt
  <2>2. CASE NameOf(o) \in tables \/ op[o].version \in DOMAIN applied
    BY <1>1, <1>4, <2>1, <2>2, OpenerForgets DEF execute_statements
  <2>3. CASE ~(NameOf(o) \in tables \/ op[o].version \in DOMAIN applied)
    <3>1. op' = [op EXCEPT ![o].pc = "commit"] /\ writer' = o
      BY <1>4, <2>1, <2>3 DEF execute_statements
    <3> QED
      BY <1>1, <2>1, <2>3, <3>1, PlaceInv DEF OpAt
  <2> QED
    BY <2>2, <2>3
<1> QED
  BY <1>2, <1>3, <1>4

\* The commit adds the version after the last one and overwrites none.
LEMMA CommitInv ==
  ASSUME MigrationsInv, NEW o \in Opener, commit_migration(o)
  PROVE  MigrationsInv'
<1>0. PICK w, name, u : w = op[o].version /\ name = NameOf(o) /\ u = user_version
  OBVIOUS
<1> DEFINE n == LATEST_SCHEMA_VERSION(o)
<1>1. /\ OpAt(o, "commit")
      /\ applied' = [v \in DOMAIN applied \cup {w} |-> IF v = w THEN name ELSE applied[v]]
      /\ tables' = tables \cup {name}
      /\ user_version' = w
      /\ writer' = Nobody
      /\ Advance(o, op[o].seen, w)
  BY <1>0 DEF commit_migration
<1>2. /\ n \in Nat /\ w \in 1..n /\ w \notin DOMAIN applied /\ writer = o
      /\ \A v \in DOMAIN op[o].seen : v \in Nat /\ v < w
      /\ AppliedBelow(o, w) /\ name = MIGRATIONS[o][w]
  BY <1>0, <1>1 DEF MigrationsInv, OpenerOK, OpAt, LATEST_SCHEMA_VERSION, NameOf
<1>3. u \in Nat /\ DOMAIN applied = 1..u /\ tables = Range(applied)
  BY <1>0 DEF MigrationsInv
<1>4. w = u + 1
  <2>1. w > u
    BY <1>2, <1>3
  <2>2. w - 1 <= u
    <3>1. CASE w = 1
      BY <1>3, <3>1
    <3>2. CASE w # 1
      <4>1. w - 1 \in 1..n /\ w - 1 < w
        BY <1>2, <3>2
      <4>2. w - 1 \in DOMAIN applied
        BY <1>2, <4>1 DEF AppliedBelow
      <4> QED
        BY <1>3, <4>2
    <3> QED
      BY <3>1, <3>2
  <2> QED
    BY <1>2, <1>3, <2>1, <2>2
<1>5. DOMAIN applied' = 1..w /\ applied'[w] = name
  <2>1. DOMAIN applied' = DOMAIN applied \cup {w}
    BY <1>1
  <2>2. (1..u) \cup {u + 1} = 1..(u + 1)
    BY <1>3
  <2> QED
    BY <1>1, <1>3, <1>4, <2>1, <2>2
<1>6. \A v \in DOMAIN applied : v \in DOMAIN applied' /\ applied'[v] = applied[v]
  BY <1>1, <1>2
<1>7. tables' = Range(applied')
  <2>1. DOMAIN applied' = DOMAIN applied \cup {w}
    BY <1>1
  <2>2. Range(applied') = {applied'[v] : v \in DOMAIN applied \cup {w}}
    BY <2>1 DEF Range
  <2> QED
    BY <1>1, <1>3, <1>5, <1>6, <2>2 DEF Range
<1>8. \A p \in Opener : \A v : AppliedBelow(p, v) => AppliedBelow(p, v)'
  BY <1>6 DEF AppliedBelow, LATEST_SCHEMA_VERSION
<1>9. \A p \in Opener : LATEST_SCHEMA_VERSION(p)' = LATEST_SCHEMA_VERSION(p)
  BY DEF LATEST_SCHEMA_VERSION
<1>10. AppliedBelow(o, w + 1)'
  <2>1. ASSUME NEW v \in 1..n, v < w + 1
        PROVE  v \in DOMAIN applied' /\ applied'[v] = MIGRATIONS[o][v]
    <3>1. CASE v = w
      BY <1>2, <1>5, <3>1
    <3>2. CASE v # w
      <4>1. v < w
        BY <1>2, <2>1, <3>2
      <4> QED
        BY <1>2, <1>6, <4>1 DEF AppliedBelow
    <3> QED
      BY <3>1, <3>2
  <2> QED
    BY <1>9, <2>1 DEF AppliedBelow
<1>11. OpenerMoves(o, IF w = n THEN [pc |-> "open", seen |-> op[o].seen, version |-> w]
                      ELSE [pc |-> "begin", seen |-> op[o].seen, version |-> w + 1])
  <2>1. \A v \in 1..n : v > w /\ v \notin DOMAIN op[o].seen <=> v > w
    BY <1>2
  <2>2. w \in 0..n
    BY <1>2
  <2> QED
    BY <1>1, <2>1, <2>2, AdvanceMoves
<1>12. OpenerOK(o)'
  <2>1. CASE w = n
    <3>1. op'[o] = [pc |-> "open", seen |-> op[o].seen, version |-> w]
      BY <1>11, <2>1 DEF OpenerMoves, MigrationsInv
    <3>2. AppliedBelow(o, LATEST_SCHEMA_VERSION(o) + 1)'
      BY <1>9, <1>10, <2>1 DEF AppliedBelow
    <3> QED
      BY <3>1, <3>2 DEF OpenerOK, OpPc, OpAt
  <2>2. CASE w # n
    <3>1. op'[o] = [pc |-> "begin", seen |-> op[o].seen, version |-> w + 1]
      BY <1>11, <2>2 DEF OpenerMoves, MigrationsInv
    <3>2. w + 1 \in 1..n /\ \A v \in DOMAIN op[o].seen : v \in Nat /\ v < w + 1
      BY <1>2, <2>2
    <3>3. AppliedBelow(o, op[o].version)'
      BY <1>10, <3>1 DEF AppliedBelow
    <3> QED
      BY <1>9, <3>1, <3>2, <3>3 DEF OpenerOK, OpPc, OpAt
  <2> QED
    BY <2>1, <2>2
<1>13. ASSUME NEW p \in Opener, p # o PROVE OpenerOK(p)'
  <2>1. OpenerOK(p) /\ op'[p] = op[p]
    BY <1>11, <1>13 DEF OpenerMoves, MigrationsInv
  <2>2. op[p].pc \notin {"execute", "commit"}
    BY <1>2, <1>13, <2>1 DEF OpenerOK
  <2>3. AppliedBelow(p, op[p].version) => AppliedBelow(p, op[p].version)'
    BY <1>6, <2>1 DEF AppliedBelow, LATEST_SCHEMA_VERSION
  <2>4. AppliedBelow(p, LATEST_SCHEMA_VERSION(p) + 1)
          => AppliedBelow(p, LATEST_SCHEMA_VERSION(p) + 1)'
    BY <1>6 DEF AppliedBelow, LATEST_SCHEMA_VERSION
  <2> QED
    BY <1>9, <2>1, <2>2, <2>3, <2>4 DEF OpenerOK, OpAt
<1>14. op' = [p \in Opener |-> op'[p]]
  BY <1>11 DEF OpenerMoves, MigrationsInv
<1>15. w \in Nat
  BY <1>3, <1>4
<1>16. \A p \in Opener : OpenerOK(p)'
  BY <1>12, <1>13
<1> QED
  BY <1>1, <1>5, <1>7, <1>14, <1>15, <1>16 DEF MigrationsInv

\* Every step of the openers preserves the invariant.
LEMMA MigrationsNextInv ==
  ASSUME MigrationsInv, [MigrationsNext]_migrationVars
  PROVE  MigrationsInv'
<1>1. CASE UNCHANGED migrationVars
  BY <1>1 DEF migrationVars, schemaVars, MigrationsInv, OpenerOK, OpAt, AppliedBelow,
              LATEST_SCHEMA_VERSION
<1>2. ASSUME NEW o \in Opener, connect(o), UNCHANGED <<schemaVars, writer>>
      PROVE  MigrationsInv'
  BY <1>2, OpenerForgets
<1>3. ASSUME NEW o \in Opener, migration_fault(o) \/ process_gone(o)
      PROVE  MigrationsInv'
  BY <1>3, OpenerForgets DEF migration_fault, process_gone, Unlocked
<1>4. ASSUME NEW o \in Opener, apply_migrations(o)
      PROVE  MigrationsInv'
  BY <1>4, ReadAppliedInv, TransactionInv, CommitInv DEF apply_migrations
<1> QED
  BY <1>1, <1>2, <1>3, <1>4 DEF MigrationsNext

\* apply_migrations, for any number of processes with any histories, side by side
\* or one after the other, whoever dies on the way.
THEOREM MigrationsSafe == MigrationsSpec => []SchemaWhole
<1>1. MigrationsInit => MigrationsInv
  BY MigrationsInitInv
<1>2. MigrationsInv /\ [MigrationsNext]_migrationVars => MigrationsInv'
  BY MigrationsNextInv
<1>3. MigrationsInv => SchemaWhole
  BY MigrationsInvImplies
<1> QED
  BY <1>1, <1>2, <1>3, PTL DEF MigrationsSpec

-----------------------------------------------------------------------------
(* Hub runs the migrations.                                                *)

\* The opener of the hub is closed exactly when the hub is down.
HubOpens == hub \in {"down", "stopped"} <=> OpAt(Hub, "closed")

\* Every step of the hub is one of the migrations, or none of their business.
LEMMA HubMigrates ==
  ASSUME HubOpens, [Next]_vars
  PROVE  [MigrationsNext]_migrationVars
<1>0. Hub \in Opener /\ Operator \in Opener
  BY OpenerAssumption
<1>1. CASE UNCHANGED vars
  BY <1>1 DEF vars
<1>2. CASE start /\ hub \in {"down", "stopped"}
  BY <1>0, <1>2 DEF start, MigrationsNext, HubOpens
<1>3. CASE opening \/ start_failed \/ start_fault
  BY <1>0, <1>3
     DEF opening, start_failed, start_fault, Exit, MigrationsNext, OpAt, HubOpens
<1>4. CASE reconcile_interrupted \/ reconcile_receipts \/ reconcile_pending \/ serve
  BY <1>4 DEF reconcile_interrupted, reconcile_receipts, reconcile_pending, serve
<1>5. ASSUME NEW t \in TaskId,
             \/ process_task(t) \/ cancel_task(t) \/ (cancel_read(t) /\ CancelFrame)
             \/ create_task(t)
      PROVE  UNCHANGED migrationVars
  BY <1>5 DEF process_task, WorkFrame, cancel_task, CancelFrame, create_task
<1>6. CASE crash \/ stop
  BY <1>0, <1>6 DEF crash, stop, ProcessLost, MigrationsNext, HubOpens
<1>7. CASE clock_catches_up
  BY <1>7 DEF clock_catches_up
<1>8. CASE operator_begins \/ operator_command \/ operator_killed
  BY <1>0, <1>8
     DEF operator_begins, operator_command, operator_killed, MigrationsNext, OpAt
<1> QED
  BY <1>1, <1>2, <1>3, <1>4, <1>5, <1>6, <1>7, <1>8 DEF Next, Starting, start

\* What an opener does to its own place.
LEMMA OpenerPlaces ==
  ASSUME MigrationsInv, NEW o \in Opener
  PROVE  /\ connect(o) => OpAt(o, "read")'
         /\ close(o) => OpAt(o, "closed")'
         /\ Raise(o) => OpAt(o, "error")'
         /\ apply_migrations(o) => ~OpAt(o, "closed")'
         /\ \A p \in Opener : /\ p # o
                              /\ apply_migrations(o) \/ connect(o) \/ close(o) \/ Raise(o)
                              => op'[p] = op[p]
<1>0. op = [p \in Opener |-> op[p]] /\ OpenerOK(o)
  BY DEF MigrationsInv
<1>1. \A p : [NotOpen EXCEPT !.pc = p].pc = p
  BY DEF NotOpen
<1>2. \A s, v : Advance(o, s, v) => /\ op'[o].pc \in {"open", "begin"}
                                    /\ \A p \in Opener : p # o => op'[p] = op[p]
  BY <1>0 DEF Advance
<1>3. /\ connect(o) => op'[o].pc = "read"
      /\ close(o) => op'[o].pc = "closed"
      /\ Raise(o) => op'[o].pc = "error"
      /\ \A p \in Opener : p # o /\ (connect(o) \/ close(o) \/ Raise(o)) => op'[p] = op[p]
  BY <1>0, <1>1 DEF connect, close, Raise, NotOpen
<1>4. ASSUME NEW p, op' = [op EXCEPT ![o].pc = p]
      PROVE  /\ op'[o].pc = p
             /\ \A q \in Opener : q # o => op'[q] = op[q]
  <2>1. [op[o] EXCEPT !.pc = p].pc = p
    BY <1>0 DEF OpenerOK
  <2> QED
    BY <1>0, <1>4, <2>1
<1>5. apply_migrations(o) =>
        op'[o].pc # "closed" /\ \A p \in Opener : p # o => op'[p] = op[p]
  <2>1. CASE read_applied(o)
    BY <1>2, <1>3, <2>1 DEF read_applied
  <2>2. CASE begin_immediate(o)
    BY <1>3, <1>4, <2>2 DEF begin_immediate
  <2>3. CASE execute_statements(o)
    BY <1>3, <1>4, <2>3 DEF execute_statements
  <2>4. CASE commit_migration(o)
    BY <1>2, <2>4 DEF commit_migration
  <2> QED
    BY <2>1, <2>2, <2>3, <2>4 DEF apply_migrations
<1> QED
  BY <1>3, <1>5 DEF OpAt

\* Starting opens the database, and the end of the process closes it.
LEMMA HubOpensNext ==
  ASSUME HubOpens, MigrationsInv, [Next]_vars
  PROVE  HubOpens'
<1>0. Hub \in Opener /\ Operator \in Opener /\ Hub # Operator
  BY OpenerAssumption
<1>2. ASSUME hub' = hub, op' = op
      PROVE  HubOpens'
  BY <1>2 DEF HubOpens, OpAt
<1>3. CASE start
  BY <1>0, <1>3, OpenerPlaces DEF start, HubOpens, OpAt
<1>4. CASE start_failed \/ crash \/ stop
  <2>1. close(Hub) /\ hub' \in {"down", "stopped"}
    BY <1>4 DEF start_failed, Exit, crash, stop, ProcessLost, process_gone
  <2> QED
    BY <1>0, <2>1, OpenerPlaces DEF HubOpens
<1>5. CASE start_fault
  <2>1. \/ close(Hub) /\ hub' = "down"
        \/ Raise(Hub) /\ hub' = "opening"
    BY <1>5 DEF start_fault, Exit, process_gone, migration_fault
  <2> QED
    BY <1>0, <2>1, OpenerPlaces DEF HubOpens, OpAt
<1>6. CASE opening
  <2>1. apply_migrations(Hub) /\ hub' = "opening"
    BY <1>6 DEF opening
  <2> QED
    BY <1>0, <2>1, OpenerPlaces DEF HubOpens
<1>7. CASE reconcile_interrupted \/ reconcile_receipts \/ serve
  <2>1. op' = op /\ hub \notin {"down", "stopped"} /\ hub' \notin {"down", "stopped"}
    BY <1>7 DEF reconcile_interrupted, reconcile_receipts, serve, migrationVars
  <2> QED
    BY <2>1 DEF HubOpens, OpAt
<1>8. CASE operator_begins \/ operator_command \/ operator_killed
  <2>1. /\ hub' = hub
        /\ connect(Operator) \/ apply_migrations(Operator) \/ close(Operator)
    BY <1>8
       DEF operator_begins, operator_command, operator_killed, process_gone,
           CommandFrame
  <2>2. op'[Hub] = op[Hub]
    BY <1>0, <2>1, OpenerPlaces
  <2> QED
    BY <2>1, <2>2 DEF HubOpens, OpAt
<1>9. CASE reconcile_pending \/ clock_catches_up \/ UNCHANGED vars
  BY <1>2, <1>9 DEF reconcile_pending, clock_catches_up, vars, migrationVars
<1>10. ASSUME NEW t \in TaskId,
              \/ process_task(t) \/ cancel_task(t) \/ (cancel_read(t) /\ CancelFrame)
              \/ create_task(t)
       PROVE  HubOpens'
  BY <1>2, <1>10
  DEF process_task, WorkFrame, cancel_task, CancelFrame, create_task, migrationVars
<1> QED
  BY <1>3, <1>4, <1>5, <1>6, <1>7, <1>8, <1>9, <1>10 DEF Next, Starting

\* The hub's own opening of the store at each start, and the operator's commands
\* beside it, keep the schema whole.
THEOREM HubSchemaWhole == Spec => []SchemaWhole
<1>1. Init => HubOpens /\ MigrationsInv
  <2>1. Init => HubOpens
    BY OpenerAssumption DEF Init, MigrationsInit, NotOpen, HubOpens, OpAt
  <2> QED
    BY <2>1, MigrationsInitInv DEF Init
<1>2. HubOpens /\ MigrationsInv /\ [Next]_vars => (HubOpens /\ MigrationsInv)'
  BY HubOpensNext, HubMigrates, MigrationsNextInv
<1>3. MigrationsInv => SchemaWhole
  BY MigrationsInvImplies
<1> QED
  BY <1>1, <1>2, <1>3, PTL DEF Spec

\* What Hub composes is the specification of the migrations.
THEOREM HubImplementsMigrations == Spec => MigrationsSpec
<1>1. Init => HubOpens /\ MigrationsInv /\ MigrationsInit
  <2>1. Init => HubOpens
    BY OpenerAssumption DEF Init, MigrationsInit, NotOpen, HubOpens, OpAt
  <2> QED
    BY <2>1, MigrationsInitInv DEF Init
<1>2. HubOpens /\ MigrationsInv /\ [Next]_vars => (HubOpens /\ MigrationsInv)'
  BY HubOpensNext, HubMigrates, MigrationsNextInv
<1>3. HubOpens /\ [Next]_vars => [MigrationsNext]_migrationVars
  BY HubMigrates
<1> QED
  BY <1>1, <1>2, <1>3, PTL DEF Spec, MigrationsSpec

-----------------------------------------------------------------------------
(* Updates: the inductive invariant.                                       *)

WkPc == {"none", "prepare", "told", "exec", "check", "finish", "except", "fail", "last"}
CnPc == {"idle", "over", "runtime", "commit", "notify"}
NtPc == {"idle", "notify", "deliver", "skipped", "raised"}

UpdateState == [pc : NtPc, task : TaskId \cup {0},
                status : _REPLAYABLE_STATUSES \cup {"none"}]
WorkerState == [pc : WkPc, result : {"none", "succeeded", "failed", "cancelled"}]

\* Tables, coroutines and the order of the start.
HubTypes ==
    /\ DOMAIN status \subseteq TaskId
    /\ status \in [DOMAIN status -> TaskStatus]
    /\ DOMAIN run \subseteq DOMAIN status
    /\ run \in [DOMAIN run -> RunRow]
    /\ \A r \in DOMAIN run : run[r].task = r
    /\ routes \subseteq DOMAIN status
    /\ replay \subseteq routes
    /\ wk \in [TaskId -> WorkerState]
    /\ cn \in [TaskId -> CnPc]
    /\ nt \in [Deliverer -> UpdateState]
    /\ hub \in {"down", "stopped", "opening", "receipts", "replay", "serving"}
    /\ up <=> hub \in {"replay", "serving"}

\* No run, or one that has ended.
RunClosed(t) == t \in DOMAIN run => run[t].status \in RunTerminal

\* What the worker's place says about the row of its task and about its run.
WorkerFits(t) ==
    /\ wk[t].pc # "none" => hub = "serving" /\ t \in DOMAIN status
    /\ wk[t].pc = "prepare" =>
         status[t] \in {"planning", "cancelled"} /\ t \notin DOMAIN run
    /\ wk[t].pc = "told" =>
         status[t] \in {"running", "cancelled"} /\ t \notin DOMAIN run
    /\ wk[t].pc = "exec" =>
         /\ status[t] \in {"running", "cancelled"}
         /\ t \in DOMAIN run /\ run[t].status = "running"
    /\ wk[t].pc \in {"check", "finish"} =>
         /\ status[t] \in {"running", "cancelled"}
         /\ t \in DOMAIN run /\ run[t].status = wk[t].result
         /\ wk[t].result # "none"
    /\ wk[t].pc \in {"except", "fail"} =>
         status[t] \in {"planning", "running"} \cup Terminal

\* What the row says about the run and the worker.
RowFits(t) ==
    t \in DOMAIN status =>
      /\ status[t] = "queued" => t \notin DOMAIN run /\ wk[t].pc = "none"
      /\ status[t] = "blocked" => wk[t].pc \in {"none", "last"} /\ RunClosed(t)
      /\ status[t] \in {"completed", "failed"} =>
           wk[t].pc \in {"none", "except", "fail", "last"}
      /\ status[t] = "completed" => t \in DOMAIN run /\ run[t].status = "succeeded"
      /\ hub \in {"receipts", "replay"} => status[t] \notin {"planning", "running"}

\* An update of task t with status s may be sent, now and from now on.
Sayable(t, s) ==
    /\ t \in DOMAIN status
    /\ s \in Terminal => status[t] = s
    /\ s = "blocked" => /\ status[t] \in {"blocked", "cancelled"}
                        /\ wk[t].pc \in {"none", "last"}
                        /\ RunClosed(t)

\* The runtime lines that go with a status, calls that failed or not.
RuntimeLine(s) == CASE s = "running"   -> {"none"}
                    [] s = "blocked"   -> RunTerminal \cup {"none"}
                    [] s = "completed" -> {"succeeded"}
                    [] OTHER           -> RunStatus \cup {"none"}

\* A caller of notify_task holds a status that may be said, and what it
\* delivers is that.
CallerFits(x) ==
    /\ nt[x].pc # "idle" =>
         /\ up
         /\ nt[x].status \in _REPLAYABLE_STATUSES
         /\ nt[x].task \in TaskId
         /\ Sayable(nt[x].task, nt[x].status)
         /\ nt[x].status = "running" =>
              x = Worker(nt[x].task) /\ wk[nt[x].task].pc = "told"
    /\ dl[x].pc # "idle" =>
         /\ nt[x].pc = "deliver"
         /\ dl[x].id = notification_id(nt[x].task, nt[x].status)
         /\ dl[x].text.runtime \in RuntimeLine(nt[x].status)

\* Who is not notifying has no call under way.
QuietCallers ==
    /\ \A t \in TaskId : /\ wk[t].pc \notin {"told", "last"} => nt[Worker(t)].pc = "idle"
                         /\ cn[t] # "notify" => nt[Canceller(t)].pc = "idle"
                         /\ hub # "serving" => cn[t] \in {"idle", "over"}
    /\ hub # "replay" => replay = {}
    /\ replay = {} => nt[Startup].pc = "idle"

\* What was posted may be said, with its runtime line.
PostedFits ==
    \A t \in TaskId, s \in _REPLAYABLE_STATUSES :
      \A i \in DOMAIN posted[notification_id(t, s)] :
        /\ Sayable(t, s)
        /\ posted[notification_id(t, s)][i].runtime \in RuntimeLine(s)

UpdatesInv ==
    /\ HubTypes
    /\ \A t \in TaskId : WorkerFits(t) /\ RowFits(t)
    /\ \A x \in Deliverer : CallerFits(x)
    /\ QuietCallers
    /\ PostedFits
    /\ DeliveryInv

USE UpdateAssumption, DelivererAssumption, EarlierAssumption

\* The callers are different from each other.
LEMMA Callers ==
  /\ Startup \in Deliverer
  /\ \A t \in TaskId : Worker(t) \in Deliverer /\ Canceller(t) \in Deliverer
  /\ \A t \in TaskId : Worker(t) # Startup /\ Canceller(t) # Startup
  /\ \A t, u \in TaskId : Worker(t) # Canceller(u)
  /\ \A t, u : Worker(t) = Worker(u) => t = u
  /\ \A t, u : Canceller(t) = Canceller(u) => t = u
BY DEF Worker, Canceller, Startup

\* Every deliverer is one of the callers.
LEMMA CallerKinds ==
  ASSUME NEW x \in Deliverer
  PROVE  x = Startup \/ \E t \in TaskId : x = Worker(t) \/ x = Canceller(t)
OBVIOUS

\* Every nonempty set of task ids has a least one.
LEMMA LeastExists ==
  ASSUME NEW S, S \subseteq Nat, S # {}
  PROVE  \E m \in S : \A n \in S : m <= n
<1> DEFINE R == OpToRel(<, Nat)
<1>1. IsWellFoundedOn(R, Nat)
  BY NatLessThanWellFounded
<1>2. \A m, n \in Nat : m < n => <<m, n>> \in R
  BY DEF OpToRel
<1> HIDE DEF R
<1>3. PICK m \in S : \A n \in S : <<n, m>> \notin R
  BY <1>1, WFMin
<1>4. ASSUME NEW n \in S PROVE m <= n
  <2>1. m \in Nat /\ n \in Nat
    OBVIOUS
  <2>2. ~(n < m)
    BY <1>2, <1>3, <2>1
  <2> QED
    BY <2>1, <2>2
<1> QED
  BY <1>4

\* reconcile_pending visits a route of its list.
LEMMA VisitedIn ==
  ASSUME HubTypes, replay # {}
  PROVE  Visited \in replay
<1>1. replay \subseteq Nat
  BY DEF HubTypes
<1>2. \E m \in replay : \A n \in replay : m <= n
  BY <1>1, LeastExists
<1> QED
  BY <1>2 DEF Visited

\* A task has one run, so the latest is that one.
LEMMA LatestRunIs ==
  ASSUME HubTypes, NEW t \in TaskId
  PROVE  LatestRun(t) = IF t \in DOMAIN run THEN run[t].status ELSE "none"
<1> DEFINE rs == {r \in DOMAIN run : run[r].task = t}
<1>1. CASE t \in DOMAIN run
  <2>1. rs = {t}
    BY <1>1 DEF HubTypes
  <2>2. t <= t
    OBVIOUS
  <2>3. (CHOOSE r \in rs : \A s \in rs : s <= r) = t
    BY <2>1, <2>2
  <2> QED
    BY <1>1, <2>1, <2>3, SMTT(30) DEF LatestRun
<1>2. CASE t \notin DOMAIN run
  <2>1. rs = {}
    BY <1>2 DEF HubTypes
  <2> QED
    BY <1>2, <2>1 DEF LatestRun
<1> QED
  BY <1>1, <1>2

\* What may be said has, when it is composed, a runtime line that goes with it.
LEMMA ComposedLine ==
  ASSUME HubTypes, NEW t \in TaskId, NEW s \in _REPLAYABLE_STATUSES,
         WorkerFits(t), RowFits(t), Sayable(t, s),
         s = "running" => wk[t].pc = "told"
  PROVE  /\ LatestRun(t) \in RuntimeLine(s)
         /\ LatestRun(t) \in RunStatus \cup {"none"}
<1>1. t \in DOMAIN run => run[t].status \in RunStatus
  BY DEF HubTypes, RunRow
<1>2. RunTerminal \subseteq RunStatus
  BY DEF RunTerminal
<1>3. LatestRun(t) \in RunStatus \cup {"none"}
  BY <1>1, LatestRunIs
<1>4. CASE s = "running"
  BY <1>4, LatestRunIs DEF WorkerFits, RuntimeLine
<1>5. CASE s = "blocked"
  BY <1>3, <1>5, LatestRunIs DEF Sayable, RunClosed, RuntimeLine
<1>6. CASE s = "completed"
  BY <1>3, <1>6, LatestRunIs DEF Sayable, RowFits, RuntimeLine, Terminal
<1>7. CASE s = "failed"
  BY <1>3, <1>7, LatestRunIs DEF Sayable, RowFits, RuntimeLine, Terminal
<1>8. CASE s = "cancelled"
  BY <1>3, <1>8 DEF RuntimeLine
<1> QED
  BY <1>3, <1>4, <1>5, <1>6, <1>7, <1>8 DEF _REPLAYABLE_STATUSES

-----------------------------------------------------------------------------
(* Steps of notify_task and reconcile_pending: only their caller moves.    *)

\* Tasks, runs, workers and the hub stay.
TasksStay == UNCHANGED <<status, run, routes, hub, wk, cn, up>>

OnlyCaller(x) ==
    /\ nt' \in [Deliverer -> UpdateState]
    /\ \A y \in Deliverer : y # x => nt'[y] = nt[y] /\ dl'[y] = dl[y]

\* What is said depends on the tasks only.
LEMMA TasksStayFits ==
  ASSUME TasksStay
  PROVE  /\ \A t : WorkerFits(t)' <=> WorkerFits(t)
         /\ \A t : RowFits(t)' <=> RowFits(t)
         /\ \A t, s : Sayable(t, s)' <=> Sayable(t, s)
BY DEF TasksStay, WorkerFits, RowFits, Sayable, RunClosed

\* It is enough to look at the caller that moves.
LEMMA CallerStep ==
  ASSUME UpdatesInv, NEW x \in Deliverer, TasksStay, OnlyCaller(x), replay' \subseteq replay,
         CallerFits(x)', QuietCallers', PostedFits', DeliveryInv'
  PROVE  UpdatesInv'
<1>1. HubTypes'
  BY DEF UpdatesInv, HubTypes, TasksStay, OnlyCaller
<1>2. \A t \in TaskId : WorkerFits(t)' /\ RowFits(t)'
  BY TasksStayFits DEF UpdatesInv
<1>3. ASSUME NEW y \in Deliverer, y # x PROVE CallerFits(y)'
  <2>1. CallerFits(y) /\ nt'[y] = nt[y] /\ dl'[y] = dl[y]
    BY <1>3 DEF UpdatesInv, OnlyCaller
  <2>2. Sayable(nt[y].task, nt[y].status) => Sayable(nt[y].task, nt[y].status)'
    BY <2>1 DEF Sayable, RunClosed, TasksStay
  <2> QED
    BY <2>1, <2>2 DEF CallerFits, TasksStay, RunClosed, Sayable
<1> QED
  BY <1>1, <1>2, <1>3 DEF UpdatesInv

\* Nothing was posted.
LEMMA PostedStays ==
  ASSUME PostedFits, TasksStay, posted' = posted
  PROVE  PostedFits'
BY TasksStayFits DEF PostedFits

\* notify_task composes the update from what the store says, or finds no route.
LEMMA NotifyTaskInv ==
  ASSUME UpdatesInv, NEW x \in Deliverer, notify_task(x), TasksStay, replay' = replay
  PROVE  UpdatesInv'
<1>1. PICK t, s : t = nt[x].task /\ s = nt[x].status
  OBVIOUS
<1>2. /\ HubTypes /\ CallerFits(x) /\ QuietCallers /\ PostedFits /\ DeliveryInv
      /\ nt[x].pc = "notify" /\ nt[x] \in UpdateState
      /\ nt \in [Deliverer -> UpdateState]
  BY DEF UpdatesInv, HubTypes, notify_task
<1>3. /\ up /\ t \in TaskId /\ s \in _REPLAYABLE_STATUSES /\ Sayable(t, s)
      /\ s = "running" => x = Worker(t) /\ wk[t].pc = "told"
      /\ dl[x].pc = "idle"
  BY <1>1, <1>2 DEF CallerFits
<1>4. UNCHANGED <<receipt, posted, up, mishapVars>>
  BY DEF notify_task
<1>5. PostedFits'
  BY <1>2, <1>4, PostedStays
<1>6. Sayable(t, s)'
  BY <1>3 DEF Sayable, RunClosed, TasksStay
<1>7. CASE t \in routes
  <2>1. /\ deliver(x, notification_id(t, s), _task_update(t, s))
        /\ nt' = [nt EXCEPT ![x].pc = "deliver"]
    BY <1>1, <1>7 DEF notify_task
  <2>2. PICK c : c = [nt[x] EXCEPT !.pc = "deliver"]
    OBVIOUS
  <2>3. /\ c \in UpdateState /\ c.pc = "deliver" /\ c.task = t /\ c.status = s
        /\ nt' = [nt EXCEPT ![x] = c]
    BY <1>1, <1>2, <2>1, <2>2 DEF UpdateState, NtPc
  <2>4. WorkerFits(t) /\ RowFits(t)
    BY <1>3 DEF UpdatesInv
  <2>5. LatestRun(t) \in RuntimeLine(s) /\ LatestRun(t) \in RunStatus \cup {"none"}
    BY <1>2, <1>3, <2>4, ComposedLine
  <2>6. PICK text : text = _task_update(t, s)
    OBVIOUS
  <2>7. text \in Text /\ text.runtime \in RuntimeLine(s)
    BY <1>3, <2>5, <2>6 DEF _task_update
  <2>8. notification_id(t, s) \in DeliveryId
    BY <1>3 DEF notification_id
  <2>9. DeliveryInv'
    BY <1>2, <1>3, <1>4, <2>1, <2>6, <2>7, <2>8, DeliverInv
  <2>10. /\ dl' = [dl EXCEPT ![x] = [pc |-> "check", id |-> notification_id(t, s),
                                     text |-> text, attempt |-> 1]]
         /\ dl \in [Deliverer -> Call]
    BY <1>2, <2>1, <2>6 DEF deliver, DeliveryInv, DeliveryTypeOK, Call
  <2>11. CallerFits(x)'
    <3>1. nt'[x] = c /\ dl'[x].id = notification_id(t, s) /\ dl'[x].text = text
      BY <1>2, <2>3, <2>10
    <3> QED
      BY <1>3, <1>6, <2>3, <2>7, <3>1 DEF CallerFits, TasksStay
  <2>12. OnlyCaller(x)
    BY <1>2, <2>3, <2>10 DEF OnlyCaller
  <2>13. QuietCallers'
    <3>1. \A y \in Deliverer : nt[y].pc = "idle" => nt'[y].pc = "idle"
      BY <1>2, <2>3
    <3> QED
      BY <1>2, <3>1, Callers DEF QuietCallers, TasksStay
  <2> QED
    BY <1>5, <2>9, <2>11, <2>12, <2>13, CallerStep
<1>8. CASE t \notin routes
  <2>1. dl' = dl /\ nt' = [nt EXCEPT ![x].pc = "skipped"]
    BY <1>1, <1>8 DEF notify_task
  <2>2. PICK c : c = [nt[x] EXCEPT !.pc = "skipped"]
    OBVIOUS
  <2>3. /\ c \in UpdateState /\ c.pc = "skipped" /\ c.task = t /\ c.status = s
        /\ nt' = [nt EXCEPT ![x] = c]
    BY <1>1, <1>2, <2>1, <2>2 DEF UpdateState, NtPc
  <2>4. DeliveryInv'
    BY <1>2, <1>4, <2>1, ElsewhereInv
  <2>5. CallerFits(x)'
    <3>1. nt'[x] = c /\ dl'[x] = dl[x]
      BY <1>2, <2>1, <2>3
    <3> QED
      BY <1>3, <1>6, <2>3, <3>1 DEF CallerFits, TasksStay
  <2>6. OnlyCaller(x)
    BY <1>2, <2>1, <2>3 DEF OnlyCaller
  <2>7. QuietCallers'
    <3>1. \A y \in Deliverer : nt[y].pc = "idle" => nt'[y].pc = "idle"
      BY <1>2, <2>3
    <3> QED
      BY <1>2, <3>1, Callers DEF QuietCallers, TasksStay
  <2> QED
    BY <1>5, <2>4, <2>5, <2>6, <2>7, CallerStep
<1> QED
  BY <1>7, <1>8

\* A read of notify_task raises.
LEMMA NotifyFaultInv ==
  ASSUME UpdatesInv, NEW x \in Deliverer, notify_fault(x), TasksStay, replay' = replay
  PROVE  UpdatesInv'
<1>1. /\ CallerFits(x) /\ QuietCallers /\ PostedFits /\ DeliveryInv
      /\ nt[x].pc = "notify" /\ nt[x] \in UpdateState
      /\ nt \in [Deliverer -> UpdateState]
      /\ CallFails /\ UNCHANGED <<receipt, posted, dl, up>>
  BY DEF UpdatesInv, HubTypes, notify_fault
<1>2. PICK c : c = [nt[x] EXCEPT !.pc = "raised"]
  OBVIOUS
<1>3. /\ c \in UpdateState /\ c.pc = "raised" /\ c.task = nt[x].task
      /\ c.status = nt[x].status /\ nt' = [nt EXCEPT ![x] = c]
  BY <1>1, <1>2 DEF UpdateState, NtPc, notify_fault
<1>4. DeliveryInv'
  BY <1>1, ElsewhereInv
<1>5. PostedFits'
  BY <1>1, PostedStays
<1>6. nt'[x] = c /\ dl'[x] = dl[x]
  BY <1>1, <1>3
<1>7. Sayable(nt[x].task, nt[x].status) => Sayable(nt[x].task, nt[x].status)'
  BY <1>3, <1>6 DEF Sayable, RunClosed, TasksStay
<1>8. CallerFits(x)'
  BY <1>1, <1>3, <1>6, <1>7 DEF CallerFits, TasksStay, Sayable, RunClosed
<1>9. OnlyCaller(x)
  BY <1>1, <1>3 DEF OnlyCaller
<1>10. QuietCallers'
  <2>1. \A y \in Deliverer : nt[y].pc = "idle" => nt'[y].pc = "idle"
    BY <1>1, <1>3
  <2> QED
    BY <1>1, <2>1, Callers DEF QuietCallers, TasksStay
<1> QED
  BY <1>4, <1>5, <1>8, <1>9, <1>10, CallerStep

\* What a caller that may say it posts, may be said.
LEMMA PostFits ==
  ASSUME UpdatesInv, NEW x \in Deliverer, dl[x].pc # "idle", Post(x), TasksStay
  PROVE  PostedFits'
<1>1. PICK t, s, d, text : /\ t = nt[x].task /\ s = nt[x].status
                           /\ d = dl[x].id /\ text = dl[x].text
  OBVIOUS
<1>2. /\ CallerFits(x) /\ PostedFits /\ DeliveryInv
      /\ posted \in [DeliveryId -> Seq(Text)]
  BY DEF UpdatesInv, DeliveryInv, DeliveryTypeOK
<1>3. /\ t \in TaskId /\ s \in _REPLAYABLE_STATUSES /\ Sayable(t, s)
      /\ d = notification_id(t, s) /\ text.runtime \in RuntimeLine(s)
  BY <1>1, <1>2 DEF CallerFits
<1>4. d \in DeliveryId /\ text \in Text
  BY <1>1, <1>2, CallIsLive
<1>5. posted' = [posted EXCEPT ![d] = Append(posted[d], text)]
  BY <1>1, <1>2, <1>4 DEF Post
<1> SUFFICES ASSUME NEW u \in TaskId, NEW v \in _REPLAYABLE_STATUSES,
                    NEW i \in DOMAIN posted'[notification_id(u, v)]
             PROVE  /\ Sayable(u, v)
                    /\ posted'[notification_id(u, v)][i].runtime \in RuntimeLine(v)
  BY TasksStayFits DEF PostedFits
<1>6. notification_id(u, v) \in DeliveryId
  BY DEF notification_id
<1>7. CASE notification_id(u, v) = d
  <2>1. u = t /\ v = s
    BY <1>3, <1>7 DEF notification_id
  <2>2. posted'[d] = Append(posted[d], text) /\ posted[d] \in Seq(Text)
    BY <1>2, <1>4, <1>5
  <2>3. CASE i \in DOMAIN posted[d]
    <3>1. posted'[d][i] = posted[d][i]
      BY <2>2, <2>3, <1>4
    <3> QED
      BY <1>2, <1>3, <1>7, <2>1, <2>3, <3>1 DEF PostedFits
  <2>4. CASE i \notin DOMAIN posted[d]
    <3>1. posted'[d][i] = text
      BY <1>4, <1>7, <2>2, <2>4
    <3> QED
      BY <1>3, <1>7, <2>1, <3>1
  <2> QED
    BY <2>3, <2>4
<1>8. CASE notification_id(u, v) # d
  <2>1. posted'[notification_id(u, v)] = posted[notification_id(u, v)]
    BY <1>2, <1>5, <1>6, <1>8
  <2> QED
    BY <1>2, <2>1 DEF PostedFits
<1> QED
  BY <1>7, <1>8

\* The delivery of the update goes on.
LEMMA NotifyDeliverInv ==
  ASSUME UpdatesInv, NEW x \in Deliverer, DeliverStep(x), nt' = nt, TasksStay, replay' = replay
  PROVE  UpdatesInv'
<1>1. /\ CallerFits(x) /\ QuietCallers /\ PostedFits /\ DeliveryInv
      /\ nt \in [Deliverer -> UpdateState]
  BY DEF UpdatesInv, HubTypes
<1>2. /\ dl[x].pc # "idle"
      /\ OnlyMoves(x) /\ dl'[x].id = dl[x].id /\ dl'[x].text = dl[x].text
      /\ Post(x) \/ UNCHANGED posted
  BY <1>1, DeliverStepFrame
<1>3. DeliveryInv'
  BY <1>1, DeliverStepInv
<1>4. PostedFits'
  BY <1>1, <1>2, PostFits, PostedStays
<1>5. Sayable(nt[x].task, nt[x].status) => Sayable(nt[x].task, nt[x].status)'
  BY DEF Sayable, RunClosed, TasksStay
<1>6. CallerFits(x)'
  BY <1>1, <1>2, <1>5 DEF CallerFits, TasksStay, Sayable, RunClosed
<1>7. OnlyCaller(x)
  BY <1>1, <1>2 DEF OnlyCaller, OnlyMoves
<1>8. QuietCallers'
  BY <1>1 DEF QuietCallers, TasksStay
<1> QED
  BY <1>3, <1>4, <1>6, <1>7, <1>8, CallerStep

\* A step of notify_task.
LEMMA NotifyStepInv ==
  ASSUME UpdatesInv, NEW x \in Deliverer, NotifyStep(x), TasksStay, replay' = replay
  PROVE  UpdatesInv'
BY NotifyTaskInv, NotifyFaultInv, NotifyDeliverInv DEF NotifyStep

\* The status of a row may be said, unless the task is at work.
LEMMA RowSayable ==
  ASSUME NEW t, t \in DOMAIN status, RowFits(t)
  PROVE  Sayable(t, status[t])
BY DEF RowFits, Sayable, Terminal

\* Who has no update under way has no call of deliver under way either.
LEMMA IdleCaller ==
  ASSUME UpdatesInv, NEW x \in Deliverer, nt[x].pc # "deliver"
  PROVE  dl[x].pc = "idle"
BY DEF UpdatesInv, CallerFits

\* The next route of reconcile_pending.
LEMMA ReplayRouteInv ==
  ASSUME UpdatesInv, hub = "replay", replay_route(Startup), TasksStay
  PROVE  UpdatesInv'
<1>1. PICK t, s : t = Visited /\ s = status[t]
  OBVIOUS
<1>2. /\ HubTypes /\ CallerFits(Startup) /\ QuietCallers /\ PostedFits /\ DeliveryInv
      /\ nt[Startup].pc = "idle" /\ replay # {} /\ up
      /\ nt \in [Deliverer -> UpdateState] /\ Startup \in Deliverer
      /\ UNCHANGED <<receipt, posted, dl, up, mishapVars>>
  BY Callers DEF UpdatesInv, HubTypes, replay_route, deliveryVars
<1>3. t \in replay
  BY <1>1, <1>2, VisitedIn
<1>4. t \in TaskId /\ t \in DOMAIN status
  BY <1>2, <1>3 DEF HubTypes
<1>5. DeliveryInv'
  BY <1>2, ElsewhereInv
<1>6. PostedFits'
  BY <1>2, PostedStays
<1>7. dl[Startup].pc = "idle"
  BY <1>2, IdleCaller
<1>8. CASE s \in _REPLAYABLE_STATUSES /\ receipt[notification_id(t, s)] # "delivered"
  <2>1. _notify(Startup, t, s) /\ replay' = replay
    BY <1>1, <1>8 DEF replay_route
  <2>2. PICK c : c = [pc |-> "notify", task |-> t, status |-> s]
    OBVIOUS
  <2>3. /\ nt' = [nt EXCEPT ![Startup] = c] /\ c \in UpdateState
        /\ c.pc = "notify" /\ c.task = t /\ c.status = s
    BY <1>4, <1>8, <2>1, <2>2 DEF _notify, UpdateState, NtPc
  <2>4. RowFits(t)
    BY <1>4 DEF UpdatesInv
  <2>5. Sayable(t, s) /\ s # "running"
    BY <1>1, <1>4, <2>4, RowSayable DEF RowFits
  <2>6. Sayable(t, s)'
    BY <2>5 DEF Sayable, RunClosed, TasksStay
  <2>7. nt'[Startup] = c /\ dl'[Startup] = dl[Startup]
    BY <1>2, <2>3
  <2>8. CallerFits(Startup)'
    BY <1>2, <1>4, <1>7, <1>8, <2>3, <2>5, <2>6, <2>7 DEF CallerFits
  <2>9. OnlyCaller(Startup)
    BY <1>2, <2>3 DEF OnlyCaller
  <2>10. \A y \in Deliverer : y # Startup => nt'[y] = nt[y]
    BY <1>2, <2>3
  <2>11. QuietCallers'
    BY <1>2, <2>1, <2>10, Callers DEF QuietCallers, TasksStay
  <2> QED
    BY <1>2, <1>5, <1>6, <2>1, <2>8, <2>9, <2>11, CallerStep
<1>9. CASE ~(s \in _REPLAYABLE_STATUSES /\ receipt[notification_id(t, s)] # "delivered")
  <2>1. replay' = replay \ {t} /\ nt' = nt
    BY <1>1, <1>9 DEF replay_route
  <2>2. CallerFits(Startup)'
    BY <1>2, <1>7, <2>1 DEF CallerFits
  <2>3. OnlyCaller(Startup) /\ QuietCallers' /\ replay' \subseteq replay
    BY <1>2, <2>1 DEF OnlyCaller, QuietCallers, TasksStay
  <2> QED
    BY <1>2, <1>5, <1>6, <2>2, <2>3, CallerStep
<1> QED
  BY <1>8, <1>9

\* A route whose reads raise is left.
LEMMA ReplayFaultInv ==
  ASSUME UpdatesInv, hub = "replay", replay_fault(Startup), TasksStay
  PROVE  UpdatesInv'
<1>1. /\ CallerFits(Startup) /\ QuietCallers /\ PostedFits /\ DeliveryInv
      /\ nt[Startup].pc = "idle" /\ nt' = nt /\ Startup \in Deliverer
      /\ nt \in [Deliverer -> UpdateState]
      /\ UNCHANGED <<receipt, posted, dl, up>> /\ CallFails /\ replay' \subseteq replay
  BY Callers DEF UpdatesInv, HubTypes, replay_fault
<1>2. dl[Startup].pc = "idle"
  BY <1>1, IdleCaller
<1>3. DeliveryInv' /\ PostedFits'
  BY <1>1, ElsewhereInv, PostedStays
<1>4. CallerFits(Startup)' /\ OnlyCaller(Startup) /\ QuietCallers'
  BY <1>1, <1>2 DEF CallerFits, OnlyCaller, QuietCallers, TasksStay
<1> QED
  BY <1>1, <1>3, <1>4, CallerStep

\* A caller goes on: it has no update and no call any more.
LEMMA ForgetMoves ==
  ASSUME UpdatesInv, NEW x \in Deliverer, Returned(x), Forget(x),
         UNCHANGED <<receipt, posted, up>>, UNCHANGED mishapVars \/ CallFails
  PROVE  /\ DeliveryInv'
         /\ nt' \in [Deliverer -> UpdateState]
         /\ nt'[x].pc = "idle" /\ dl'[x].pc = "idle"
         /\ \A y \in Deliverer : y # x => nt'[y] = nt[y] /\ dl'[y] = dl[y]
<1>1. /\ DeliveryInv /\ nt \in [Deliverer -> UpdateState] /\ dl \in [Deliverer -> Call]
      /\ nt' = [nt EXCEPT ![x] = NoUpdate] /\ dl' = [dl EXCEPT ![x] = NoCall]
  BY DEF UpdatesInv, HubTypes, DeliveryInv, DeliveryTypeOK, Call, Forget
<1>2. dl[x].pc \in Finished \cup {"idle"}
  BY IdleCaller DEF Returned
<1>3. DeliveryInv'
  BY <1>1, <1>2, DropInv
<1>4. NoUpdate \in UpdateState /\ NoUpdate.pc = "idle" /\ NoCall.pc = "idle"
  BY DEF NoUpdate, NoCall, UpdateState, NtPc
<1> QED
  BY <1>1, <1>3, <1>4

\* The update of a route was sent, or failed; the next one has its turn.
LEMMA ReplayReturnedInv ==
  ASSUME UpdatesInv, hub = "replay", replay_returned(Startup), TasksStay
  PROVE  UpdatesInv'
<1>1. /\ QuietCallers /\ PostedFits /\ Startup \in Deliverer
      /\ Returned(Startup) /\ Forget(Startup)
      /\ UNCHANGED <<receipt, posted, up, mishapVars>> /\ replay' \subseteq replay
  BY Callers DEF UpdatesInv, replay_returned
<1>2. /\ DeliveryInv'
      /\ nt' \in [Deliverer -> UpdateState]
      /\ nt'[Startup].pc = "idle" /\ dl'[Startup].pc = "idle"
      /\ \A y \in Deliverer : y # Startup => nt'[y] = nt[y] /\ dl'[y] = dl[y]
  BY <1>1, ForgetMoves
<1>3. PostedFits'
  BY <1>1, PostedStays
<1>4. CallerFits(Startup)' /\ OnlyCaller(Startup)
  BY <1>2 DEF CallerFits, OnlyCaller
<1>5. QuietCallers'
  BY <1>1, <1>2, Callers DEF QuietCallers, TasksStay
<1> QED
  BY <1>1, <1>2, <1>3, <1>4, <1>5, CallerStep

\* A step of reconcile_pending.
LEMMA ReconcilePendingInv ==
  ASSUME UpdatesInv, reconcile_pending
  PROVE  UpdatesInv'
<1>1. hub = "replay" /\ UNCHANGED <<status, run, routes, hub, wk, cn>> /\ Startup \in Deliverer
  BY Callers DEF reconcile_pending, StartFrame, tableVars, taskVars
<1>2. CASE ReplayStep(Startup)
  <2>1. TasksStay
    BY <1>1, <1>2
    DEF TasksStay, ReplayStep, replay_route, replay_returned, replay_fault, deliveryVars
  <2> QED
    BY <1>1, <1>2, <2>1, ReplayRouteInv, ReplayFaultInv, ReplayReturnedInv DEF ReplayStep
<1>3. CASE NotifyStep(Startup) /\ UNCHANGED <<replay, undelivered>>
  <2>1. UNCHANGED up
    <3>1. CASE DeliverStep(Startup)
      BY <1>1, <3>1, DeliverStepFrame DEF UpdatesInv
    <3>2. CASE ~DeliverStep(Startup)
      BY <1>3, <3>2 DEF NotifyStep, notify_task, notify_fault
    <3> QED
      BY <3>1, <3>2
  <2>2. TasksStay
    BY <1>1, <2>1 DEF TasksStay
  <2> QED
    BY <1>1, <1>3, <2>2, NotifyStepInv
<1> QED
  BY <1>2, <1>3 DEF reconcile_pending

-----------------------------------------------------------------------------
(* Start and end of the process.                                           *)

\* No coroutine of the hub is under way.
Resting ==
    /\ \A t \in TaskId : wk[t].pc = "none" /\ cn[t] \in {"idle", "over"}
    /\ \A x \in Deliverer : nt[x].pc = "idle" /\ dl[x].pc = "idle"

\* Then the tables and what was posted are all there is.
RestState ==
    /\ Resting /\ HubTypes /\ PostedFits /\ DeliveryInv
    /\ \A t \in TaskId : RowFits(t)
    /\ hub # "replay" => replay = {}

\* Nothing else can be wrong with them.
LEMMA RestingInv == RestState => UpdatesInv
<1> SUFFICES ASSUME RestState PROVE UpdatesInv
  OBVIOUS
<1> USE DEF RestState
<1>1. \A t \in TaskId : WorkerFits(t)
  BY DEF Resting, WorkerFits
<1>2. \A x \in Deliverer : CallerFits(x)
  BY DEF Resting, CallerFits
<1>3. QuietCallers
  BY Callers DEF Resting, QuietCallers
<1> QED
  BY <1>1, <1>2, <1>3 DEF UpdatesInv

\* Before the receipts are reconciled nothing is under way.
LEMMA DownRests ==
  ASSUME UpdatesInv, ~up
  PROVE  Resting
<1>1. \A t \in TaskId : wk[t].pc = "none" /\ cn[t] \in {"idle", "over"}
  BY DEF UpdatesInv, HubTypes, WorkerFits, QuietCallers
<1>2. \A x \in Deliverer : nt[x].pc = "idle" /\ dl[x].pc = "idle"
  BY DEF UpdatesInv, CallerFits
<1> QED
  BY <1>1, <1>2 DEF Resting

\* The hub starts, fails to start, or goes up, and nothing else moves.
LEMMA HubMoves ==
  ASSUME UpdatesInv, UNCHANGED <<status, run, routes, wk, cn, nt, replay>>,
         UNCHANGED <<receipt, posted, dl, up>>,
         UNCHANGED mishapVars \/ CallFails \/ HubDies,
         \/ hub' = hub
         \/ /\ hub \in {"down", "stopped", "opening", "receipts"}
            /\ hub' \in {"down", "opening"}
         \/ hub = "replay" /\ hub' = "serving" /\ replay = {}
  PROVE  UpdatesInv'
<1>1. DeliveryInv'
  BY ElsewhereInv DEF UpdatesInv
<1>2. HubTypes'
  BY DEF UpdatesInv, HubTypes
<1>3. ASSUME NEW t \in TaskId PROVE WorkerFits(t)' /\ RowFits(t)'
  <2>1. WorkerFits(t) /\ RowFits(t)
    BY DEF UpdatesInv
  <2> QED
    BY <2>1 DEF WorkerFits, RowFits, RunClosed
<1>4. \A t, s : Sayable(t, s)' <=> Sayable(t, s)
  BY DEF Sayable, RunClosed
<1>5. ASSUME NEW x \in Deliverer PROVE CallerFits(x)'
  <2>1. CallerFits(x)
    BY DEF UpdatesInv
  <2>2. Sayable(nt[x].task, nt[x].status) => Sayable(nt[x].task, nt[x].status)'
    BY DEF Sayable, RunClosed
  <2> QED
    BY <2>1, <2>2 DEF CallerFits, Sayable, RunClosed
<1>6. PostedFits'
  BY <1>4 DEF UpdatesInv, PostedFits
<1>7. QuietCallers'
  BY DEF UpdatesInv, QuietCallers
<1> QED
  BY <1>1, <1>2, <1>3, <1>5, <1>6, <1>7 DEF UpdatesInv

\* The steps of the start, of the clock and of the operator's command that touch
\* neither the tasks nor the updates.
LEMMA StartStepsInv ==
  ASSUME UpdatesInv,
         \/ start \/ start_failed \/ start_fault \/ opening \/ serve
         \/ clock_catches_up \/ operator_begins \/ operator_command \/ operator_killed
  PROVE  UpdatesInv'
<1> USE DEF StartFrame, CommandFrame, Exit, tableVars, taskVars, deliveryVars,
            notificationVars
<1>1. CASE start
  BY <1>1, HubMoves DEF start
<1>2. CASE start_failed
  BY <1>2, HubMoves DEF start_failed
<1>3. CASE start_fault
  BY <1>3, HubMoves DEF start_fault
<1>4. CASE opening
  BY <1>4, HubMoves DEF opening
<1>5. CASE serve
  BY <1>5, HubMoves DEF serve
<1>6. CASE clock_catches_up
  BY <1>6, HubMoves DEF clock_catches_up
<1>7. CASE operator_begins
  BY <1>7, HubMoves DEF operator_begins
<1>8. CASE operator_command
  BY <1>8, HubMoves DEF operator_command
<1>9. CASE operator_killed
  BY <1>9, HubMoves DEF operator_killed
<1> QED
  BY <1>1, <1>2, <1>3, <1>4, <1>5, <1>6, <1>7, <1>8, <1>9

\* reconcile_interrupted_running closes what the previous process left open; what
\* was posted may still be said.
LEMMA ReconcileInterruptedInv ==
  ASSUME UpdatesInv, reconcile_interrupted
  PROVE  UpdatesInv'
<1>1. /\ HubTypes /\ PostedFits /\ QuietCallers /\ DeliveryInv
      /\ hub = "opening" /\ hub' = "receipts"
      /\ UNCHANGED <<receipt, posted, dl, up, mishapVars, routes, nt, replay, wk, cn>>
  BY DEF UpdatesInv, reconcile_interrupted, deliveryVars, notificationVars, taskVars
<1>2. /\ status' = [t \in DOMAIN status |->
                      IF status[t] \in {"planning", "running"} THEN "blocked" ELSE status[t]]
      /\ run' = [r \in DOMAIN run |->
                   IF run[r].status \in RunActive
                   THEN [run[r] EXCEPT !.status = "interrupted"] ELSE run[r]]
  BY DEF reconcile_interrupted, TableReconcile
<1>3. Resting
  BY <1>1, DownRests DEF HubTypes
<1>4. ASSUME NEW r \in DOMAIN run
      PROVE  /\ run'[r] \in RunRow /\ run'[r].task = r
             /\ run'[r].status \in RunTerminal
             /\ run[r].status \in RunTerminal => run'[r] = run[r]
  <2>1. run[r] \in RunRow /\ run[r].task = r
    BY <1>1 DEF HubTypes
  <2> QED
    BY <1>2, <2>1 DEF RunRow, RunTerminal, RunStatus, RunActive
<1>5. DOMAIN run' = DOMAIN run /\ DOMAIN status' = DOMAIN status
  BY <1>2
<1>6. HubTypes'
  <2>1. status' \in [DOMAIN status' -> TaskStatus]
    BY <1>1, <1>2 DEF HubTypes, TaskStatus
  <2>2. run' \in [DOMAIN run' -> RunRow]
    BY <1>2, <1>4, <1>5
  <2> QED
    BY <1>1, <1>4, <1>5, <2>1, <2>2 DEF HubTypes
<1>7. Resting'
  BY <1>1, <1>3 DEF Resting
<1>8. ASSUME NEW t \in TaskId PROVE RowFits(t)'
  <2>1. RowFits(t)
    BY DEF UpdatesInv
  <2>2. RunClosed(t)'
    BY <1>4, <1>5 DEF RunClosed
  <2>3. t \in DOMAIN run => (run[t].status \in {"succeeded", "failed"} => run'[t] = run[t])
    BY <1>4 DEF RunTerminal, RunStatus, RunActive
  <2> QED
    BY <1>1, <1>2, <1>3, <1>5, <2>1, <2>2, <2>3 DEF RowFits, Resting
<1>9. ASSUME NEW t \in TaskId, NEW s, Sayable(t, s) PROVE Sayable(t, s)'
  <2>1. RunClosed(t)'
    BY <1>4, <1>5 DEF RunClosed
  <2> QED
    BY <1>1, <1>2, <1>9, <2>1 DEF Sayable, Terminal
<1>10. PostedFits'
  BY <1>1, <1>9 DEF PostedFits
<1>11. DeliveryInv'
  BY <1>1, ElsewhereInv
<1>12. replay' = {}
  BY <1>1 DEF QuietCallers
<1>13. RestState'
  BY <1>6, <1>7, <1>8, <1>10, <1>11, <1>12 DEF RestState
<1> QED
  BY <1>13, RestingInv, PTL

\* The receipts are reconciled before the first update is sent.
LEMMA ReconcileReceiptsInv ==
  ASSUME UpdatesInv, reconcile_receipts
  PROVE  UpdatesInv'
<1>1. /\ HubTypes /\ PostedFits /\ DeliveryInv
      /\ hub = "receipts" /\ hub' = "replay" /\ ReceiptsReconciled
      /\ UNCHANGED <<posted, dl, mishapVars, status, run, routes, nt, wk, cn>>
      /\ up' = TRUE /\ replay' \subseteq routes
  BY DEF UpdatesInv, reconcile_receipts, StartFrame, tableVars, taskVars,
         ReceiptsReconciled, list_task_routes
<1>2. Resting
  BY <1>1, DownRests DEF HubTypes
<1>3. Resting'
  BY <1>1, <1>2 DEF Resting
<1>4. HubTypes'
  BY <1>1 DEF HubTypes
<1>5. ASSUME NEW t \in TaskId PROVE RowFits(t)'
  <2>1. RowFits(t)
    BY DEF UpdatesInv
  <2> QED
    BY <1>1, <2>1 DEF RowFits, RunClosed
<1>6. \A t, s : Sayable(t, s)' <=> Sayable(t, s)
  BY <1>1 DEF Sayable, RunClosed
<1>7. PostedFits'
  BY <1>1, <1>6 DEF PostedFits
<1>8. DeliveryInv'
  BY <1>1, ReceiptsReconciledInv
<1>9. RestState'
  BY <1>1, <1>3, <1>4, <1>5, <1>7, <1>8 DEF RestState
<1> QED
  BY <1>9, RestingInv, PTL

\* The end of the process, wherever it is.
LEMMA ProcessLostInv ==
  ASSUME UpdatesInv, crash \/ stop
  PROVE  UpdatesInv'
<1>1. /\ HubTypes /\ PostedFits /\ DeliveryInv
      /\ HubDies /\ up' = FALSE /\ hub' \in {"down", "stopped"}
      /\ dl' = [x \in Deliverer |-> NoCall] /\ nt' = [x \in Deliverer |-> NoUpdate]
      /\ replay' = {} /\ wk' = [t \in TaskId |-> NoWorker]
      /\ cn' = [t \in TaskId |-> IF cn[t] = "idle" THEN "idle" ELSE "over"]
      /\ UNCHANGED <<status, run, posted, routes>>
      /\ receipt' = receipt \/ reconcile_reserved_deliveries
  BY DEF UpdatesInv, crash, stop, ProcessLost, tableVars
<1>2. /\ receipt' \in [DeliveryId -> {"none", "reserved", "delivered"}]
      /\ \A d \in DeliveryId : receipt'[d] = "delivered" <=> receipt[d] = "delivered"
  BY <1>1 DEF DeliveryInv, DeliveryTypeOK, reconcile_reserved_deliveries
<1>3. DeliveryInv'
  BY <1>1, <1>2, CallsGoneInv
<1>4. Resting'
  BY <1>1 DEF Resting, NoCall, NoUpdate, NoWorker
<1>5. HubTypes'
  <2>1. NoUpdate \in UpdateState /\ NoWorker \in WorkerState
    BY DEF NoUpdate, NoWorker, UpdateState, WorkerState, NtPc, WkPc
  <2>2. nt' \in [Deliverer -> UpdateState] /\ wk' \in [TaskId -> WorkerState]
        /\ cn' \in [TaskId -> CnPc]
    BY <1>1, <2>1 DEF CnPc
  <2> QED
    BY <1>1, <2>2 DEF HubTypes
<1>6. ASSUME NEW t \in TaskId PROVE RowFits(t)'
  <2>1. RowFits(t)
    BY DEF UpdatesInv
  <2> QED
    BY <1>1, <1>4, <2>1 DEF RowFits, RunClosed, Resting
<1>7. ASSUME NEW t \in TaskId, NEW s, Sayable(t, s) PROVE Sayable(t, s)'
  BY <1>1, <1>4, <1>7 DEF Sayable, RunClosed, Resting
<1>8. PostedFits'
  BY <1>1, <1>7 DEF PostedFits
<1>9. RestState'
  BY <1>1, <1>3, <1>4, <1>5, <1>6, <1>8 DEF RestState
<1> QED
  BY <1>9, RestingInv, PTL

-----------------------------------------------------------------------------
(* Steps of one task: process_task, cancel_task and new tasks.             *)

\* The other tasks, and the callers that serve them, stay.
OthersStay(t) ==
    /\ UNCHANGED <<hub, up, posted, replay>>
    /\ \A u \in TaskId : u # t =>
         /\ (u \in DOMAIN status') <=> (u \in DOMAIN status)
         /\ (u \in DOMAIN run') <=> (u \in DOMAIN run)
         /\ u \in DOMAIN status => status'[u] = status[u]
         /\ u \in DOMAIN run => run'[u] = run[u]
         /\ wk'[u] = wk[u] /\ cn'[u] = cn[u]
    /\ \A x \in Deliverer : x \notin {Worker(t), Canceller(t)} =>
         nt'[x] = nt[x] /\ dl'[x] = dl[x]

\* Caller x of task t is as it was, and if it waits for an update, so does its task.
SameCaller(x, t) ==
    /\ nt'[x] = nt[x] /\ dl'[x] = dl[x]
    /\ nt[x].pc = "idle" \/ wk'[t].pc = wk[t].pc

\* It is enough to look at the task that moves.
LEMMA TaskStepInv ==
  ASSUME UpdatesInv, NEW t \in TaskId, hub = "serving", OthersStay(t), HubTypes',
         WorkerFits(t)', RowFits(t)', DeliveryInv',
         \A s \in _REPLAYABLE_STATUSES : Sayable(t, s) => Sayable(t, s)',
         CallerFits(Worker(t))' \/ SameCaller(Worker(t), t),
         CallerFits(Canceller(t))' \/ SameCaller(Canceller(t), t),
         wk'[t].pc \notin {"told", "last"} => nt'[Worker(t)].pc = "idle",
         cn'[t] # "notify" => nt'[Canceller(t)].pc = "idle"
  PROVE  UpdatesInv'
<1>1. ASSUME NEW u \in TaskId PROVE WorkerFits(u)' /\ RowFits(u)'
  <2>1. WorkerFits(u) /\ RowFits(u)
    BY DEF UpdatesInv
  <2> QED
    BY <2>1 DEF OthersStay, WorkerFits, RowFits, RunClosed
<1>2. ASSUME NEW u \in TaskId, NEW s \in _REPLAYABLE_STATUSES, Sayable(u, s)
      PROVE  Sayable(u, s)'
  BY <1>2 DEF OthersStay, Sayable, RunClosed
<1>3. ASSUME NEW x \in Deliverer PROVE CallerFits(x)'
  <2>1. CASE x = Worker(t) /\ CallerFits(Worker(t))'
    BY <2>1
  <2>2. CASE x = Canceller(t) /\ CallerFits(Canceller(t))'
    BY <2>2
  <2>3. CASE /\ nt'[x] = nt[x] /\ dl'[x] = dl[x]
             /\ x = Worker(t) => nt[x].pc = "idle" \/ wk'[t].pc = wk[t].pc
    <3>1. PICK u, s : u = nt[x].task /\ s = nt[x].status
      OBVIOUS
    <3>2. CallerFits(x) /\ up' = up
      BY DEF UpdatesInv, OthersStay
    <3>3. ASSUME nt[x].pc # "idle"
          PROVE  /\ up' /\ s \in _REPLAYABLE_STATUSES /\ u \in TaskId /\ Sayable(u, s)'
                 /\ s = "running" => x = Worker(u) /\ wk'[u].pc = "told"
      <4>1. /\ up /\ s \in _REPLAYABLE_STATUSES /\ u \in TaskId /\ Sayable(u, s)
            /\ s = "running" => x = Worker(u) /\ wk[u].pc = "told"
        BY <3>1, <3>2, <3>3 DEF CallerFits
      <4>2. Sayable(u, s)'
        BY <1>2, <4>1
      <4>3. s = "running" => wk'[u].pc = "told"
        BY <2>3, <3>3, <4>1 DEF OthersStay
      <4> QED
        BY <3>2, <4>1, <4>2, <4>3
    <3> QED
      BY <2>3, <3>1, <3>2, <3>3 DEF CallerFits
  <2> QED
    BY <2>1, <2>2, <2>3 DEF OthersStay, SameCaller
<1>4. PostedFits'
  <2>1. PostedFits /\ posted' = posted
    BY DEF UpdatesInv, OthersStay
  <2> QED
    BY <1>2, <2>1 DEF PostedFits
<1>5. QuietCallers'
  <2>1. QuietCallers
    BY DEF UpdatesInv
  <2>2. ASSUME NEW u \in TaskId, u # t
        PROVE  nt'[Worker(u)] = nt[Worker(u)] /\ nt'[Canceller(u)] = nt[Canceller(u)]
    BY <2>2, Callers DEF OthersStay
  <2>3. nt'[Startup] = nt[Startup]
    BY Callers DEF OthersStay
  <2> QED
    BY <2>1, <2>2, <2>3 DEF QuietCallers, OthersStay
<1> QED
  BY <1>1, <1>3, <1>4, <1>5 DEF UpdatesInv

\* What a transition does to the table.
LEMMA TransitionMoves ==
  ASSUME HubTypes, NEW t \in TaskId, NEW s \in TaskStatus, TableTransition(t, s)
  PROVE  /\ t \in DOMAIN status /\ DOMAIN status' = DOMAIN status
         /\ status' \in [DOMAIN status' -> TaskStatus]
         /\ status'[t] = s /\ \A u : u # t => status'[u] = status[u]
         /\ run' = run
         /\ status[t] \notin Terminal
<1>1. /\ t \in DOMAIN status /\ can_transition(status[t], s) /\ run' = run
      /\ status' = [status EXCEPT ![t] = s] /\ status \in [DOMAIN status -> TaskStatus]
  BY DEF TableTransition, HubTypes
<1>2. status[t] \notin Terminal
  BY <1>1 DEF can_transition, LEGAL_TASK_TRANSITIONS, Terminal, TaskStatus
<1> QED
  BY <1>1, <1>2

\* What _notify does to its caller.
LEMMA NotifyMoves ==
  ASSUME HubTypes, NEW x \in Deliverer, NEW t \in TaskId, NEW s \in _REPLAYABLE_STATUSES,
         _notify(x, t, s)
  PROVE  /\ nt' \in [Deliverer -> UpdateState]
         /\ nt'[x].pc = "notify" /\ nt'[x].task = t /\ nt'[x].status = s
         /\ \A y \in Deliverer : y # x => nt'[y] = nt[y]
<1>1. PICK c : c = [pc |-> "notify", task |-> t, status |-> s]
  OBVIOUS
<1>2. /\ nt' = [nt EXCEPT ![x] = c] /\ c \in UpdateState
      /\ c.pc = "notify" /\ c.task = t /\ c.status = s /\ nt \in [Deliverer -> UpdateState]
  BY <1>1 DEF _notify, UpdateState, NtPc, HubTypes
<1> QED
  BY <1>2

\* What Goto does to the worker.
LEMMA GotoMoves ==
  ASSUME HubTypes, NEW t \in TaskId, NEW p \in WkPc, Goto(t, p)
  PROVE  /\ wk' \in [TaskId -> WorkerState]
         /\ wk'[t].pc = p /\ wk'[t].result = wk[t].result
         /\ \A u \in TaskId : u # t => wk'[u] = wk[u]
<1>1. PICK c : c = [wk[t] EXCEPT !.pc = p]
  OBVIOUS
<1>2. wk \in [TaskId -> WorkerState] /\ wk[t] \in WorkerState
  BY DEF HubTypes
<1>3. /\ wk' = [wk EXCEPT ![t] = c] /\ c \in WorkerState
      /\ c.pc = p /\ c.result = wk[t].result
  BY <1>1, <1>2 DEF Goto, WorkerState
<1> QED
  BY <1>2, <1>3

\* A step of the worker of t, or of another caller of notify_task for t: only its
\* row, its run and the caller x move.
TaskMoves(t, x) ==
    /\ UNCHANGED <<routes, hub, up, posted, replay>>
    /\ DOMAIN status' = DOMAIN status
    /\ status' \in [DOMAIN status' -> TaskStatus]
    /\ DOMAIN run \subseteq DOMAIN run' /\ DOMAIN run' \subseteq DOMAIN status
    /\ run' \in [DOMAIN run' -> RunRow]
    /\ t \in DOMAIN run' => run'[t].task = t
    /\ wk' \in [TaskId -> WorkerState] /\ cn' \in [TaskId -> CnPc]
    /\ \A u \in TaskId : u # t =>
         /\ status'[u] = status[u] /\ wk'[u] = wk[u] /\ cn'[u] = cn[u]
         /\ u \in DOMAIN run => run'[u] = run[u]
         /\ u \in DOMAIN run' => u \in DOMAIN run
    /\ nt' \in [Deliverer -> UpdateState]
    /\ \A y \in Deliverer : y # x => nt'[y] = nt[y] /\ dl'[y] = dl[y]

\* Then the others stay.
LEMMA TaskMovesFrame ==
  ASSUME UpdatesInv, NEW t \in TaskId, NEW x \in {Worker(t), Canceller(t)}, TaskMoves(t, x)
  PROVE  HubTypes' /\ OthersStay(t)
<1>1. HubTypes
  BY DEF UpdatesInv
<1>2. DOMAIN run' \subseteq TaskId
  BY <1>1 DEF TaskMoves, HubTypes
<1>3. \A r \in DOMAIN run' : run'[r].task = r
  BY <1>1, <1>2 DEF TaskMoves, HubTypes
<1>4. HubTypes'
  BY <1>1, <1>3 DEF TaskMoves, HubTypes
<1>5. OthersStay(t)
  BY <1>1 DEF TaskMoves, OthersStay, HubTypes
<1> QED
  BY <1>4, <1>5

\* While its worker is between claim and report, nobody has reported a task blocked.
LEMMA BusyNotBlocked ==
  ASSUME NEW t, wk[t].pc \notin {"none", "last"}, NEW s \in _REPLAYABLE_STATUSES,
         Sayable(t, s), t \in DOMAIN status',
         status'[t] = status[t] \/ status[t] \notin Terminal
  PROVE  Sayable(t, s)'
BY DEF Sayable

\* A step of the worker of t that calls nobody, or leaves an update behind.
LEMMA WorkerStepInv ==
  ASSUME UpdatesInv, NEW t \in TaskId, hub = "serving", TaskMoves(t, Worker(t)), cn' = cn,
         WorkerFits(t)', RowFits(t)', DeliveryInv',
         \A s \in _REPLAYABLE_STATUSES : Sayable(t, s) => Sayable(t, s)',
         \/ CallerFits(Worker(t))' /\ wk'[t].pc \in {"told", "last"}
         \/ nt'[Worker(t)].pc = "idle" /\ dl'[Worker(t)].pc = "idle"
  PROVE  UpdatesInv'
<1>1. HubTypes' /\ OthersStay(t)
  BY TaskMovesFrame
<1>2. Worker(t) \in Deliverer /\ Canceller(t) \in Deliverer /\ Worker(t) # Canceller(t)
  BY Callers
<1>3. /\ nt'[Canceller(t)] = nt[Canceller(t)] /\ dl'[Canceller(t)] = dl[Canceller(t)]
      /\ CallerFits(Canceller(t)) /\ QuietCallers
  BY <1>2 DEF TaskMoves, UpdatesInv
<1>4. CallerFits(Canceller(t))'
  <2>1. PICK u, s : u = nt[Canceller(t)].task /\ s = nt[Canceller(t)].status
    OBVIOUS
  <2>2. ASSUME nt[Canceller(t)].pc # "idle"
        PROVE  /\ up' /\ s \in _REPLAYABLE_STATUSES /\ u \in TaskId /\ Sayable(u, s)'
               /\ s # "running"
    <3>1. /\ up /\ s \in _REPLAYABLE_STATUSES /\ u \in TaskId /\ Sayable(u, s)
          /\ s = "running" => Canceller(t) = Worker(u)
      BY <1>3, <2>1, <2>2 DEF CallerFits
    <3>2. s # "running"
      BY <3>1, Callers
    <3>3. Sayable(u, s)'
      BY <1>1, <3>1 DEF OthersStay, Sayable, RunClosed
    <3> QED
      BY <1>1, <3>1, <3>2, <3>3 DEF OthersStay
  <2> QED
    BY <1>3, <2>1, <2>2 DEF CallerFits
<1>5. CallerFits(Worker(t))'
  BY DEF CallerFits
<1>6. /\ wk'[t].pc \notin {"told", "last"} => nt'[Worker(t)].pc = "idle"
      /\ cn'[t] # "notify" => nt'[Canceller(t)].pc = "idle"
  BY <1>3 DEF QuietCallers
<1> QED
  BY <1>1, <1>4, <1>5, <1>6, TaskStepInv

\* The worker of t is not notifying.
LEMMA IdleWorker ==
  ASSUME UpdatesInv, NEW t \in TaskId, wk[t].pc \notin {"told", "last"}
  PROVE  nt[Worker(t)].pc = "idle" /\ dl[Worker(t)].pc = "idle"
<1>1. nt[Worker(t)].pc = "idle"
  BY DEF UpdatesInv, QuietCallers
<1> QED
  BY <1>1, IdleCaller, Callers

\* The tables with the transition of t.
LEMMA TransitionTables ==
  ASSUME HubTypes, NEW t \in TaskId, NEW s \in TaskStatus, TableTransition(t, s),
         NEW x, UNCHANGED <<routes, hub, up, posted, replay>>,
         wk' \in [TaskId -> WorkerState], cn' \in [TaskId -> CnPc],
         \A u \in TaskId : u # t => wk'[u] = wk[u] /\ cn'[u] = cn[u],
         nt' \in [Deliverer -> UpdateState],
         \A y \in Deliverer : y # x => nt'[y] = nt[y] /\ dl'[y] = dl[y]
  PROVE  TaskMoves(t, x)
BY TransitionMoves DEF TaskMoves, HubTypes

\* The tables as they are.
LEMMA SameTables ==
  ASSUME HubTypes, NEW t \in TaskId, UNCHANGED tableVars,
         NEW x, UNCHANGED <<routes, hub, up, posted, replay>>,
         wk' \in [TaskId -> WorkerState], cn' \in [TaskId -> CnPc],
         \A u \in TaskId : u # t => wk'[u] = wk[u] /\ cn'[u] = cn[u],
         nt' \in [Deliverer -> UpdateState],
         \A y \in Deliverer : y # x => nt'[y] = nt[y] /\ dl'[y] = dl[y]
  PROVE  TaskMoves(t, x)
BY DEF TaskMoves, HubTypes, tableVars

\* The worker claims a queued task: nothing has been said about it.
LEMMA ClaimInv ==
  ASSUME UpdatesInv, NEW t \in TaskId, claim(t), WorkFrame
  PROVE  UpdatesInv'
<1>1. /\ HubTypes /\ RowFits(t) /\ DeliveryInv /\ hub = "serving"
      /\ wk[t].pc = "none" /\ status[t] = "queued" /\ t \in DOMAIN status
      /\ TableTransition(t, "planning") /\ Goto(t, "prepare")
      /\ UNCHANGED <<receipt, posted, dl, up, mishapVars, nt>>
      /\ UNCHANGED <<routes, replay, hub, cn>>
  BY DEF UpdatesInv, claim, WorkFrame, At, deliveryVars
<1>2. /\ wk' \in [TaskId -> WorkerState] /\ wk'[t].pc = "prepare"
      /\ \A u \in TaskId : u # t => wk'[u] = wk[u]
  BY <1>1, GotoMoves DEF WkPc
<1>3. status'[t] = "planning" /\ DOMAIN status' = DOMAIN status /\ run' = run
  BY <1>1, TransitionMoves DEF TaskStatus
<1>4. TaskMoves(t, Worker(t))
  BY <1>1, <1>2, TransitionTables DEF TaskStatus, HubTypes
<1>5. WorkerFits(t)' /\ RowFits(t)'
  BY <1>1, <1>2, <1>3 DEF WorkerFits, RowFits
<1>6. \A s \in _REPLAYABLE_STATUSES : Sayable(t, s) => Sayable(t, s)'
  BY <1>1, <1>3 DEF Sayable, Terminal, _REPLAYABLE_STATUSES
<1>7. nt'[Worker(t)].pc = "idle" /\ dl'[Worker(t)].pc = "idle"
  BY <1>1, IdleWorker
<1>8. DeliveryInv'
  BY <1>1, ElsewhereInv
<1> QED
  BY <1>1, <1>4, <1>5, <1>6, <1>7, <1>8, WorkerStepInv

\* A worker that was not notifying reports the status it has just stored.
LEMMA ReportInv ==
  ASSUME UpdatesInv, NEW t \in TaskId, hub = "serving", NEW s \in _REPLAYABLE_STATUSES,
         NEW p \in {"told", "last"}, wk[t].pc \notin {"none", "told", "last"},
         Report(t, s, p), WorkFrame, WorkerFits(t)', RowFits(t)',
         s = "blocked" => RunClosed(t),
         s = "running" => p = "told",
         s # "running" => p = "last"
  PROVE  UpdatesInv'
<1>1. /\ HubTypes /\ DeliveryInv /\ up /\ Worker(t) \in Deliverer
      /\ TableTransition(t, s) /\ _notify(Worker(t), t, s) /\ Goto(t, p)
      /\ UNCHANGED <<receipt, posted, dl, up, mishapVars>>
      /\ UNCHANGED <<routes, replay, hub, cn>>
  BY Callers DEF UpdatesInv, Report, WorkFrame, deliveryVars, HubTypes
<1>2. s \in TaskStatus /\ p \in WkPc
  BY DEF TaskStatus, _REPLAYABLE_STATUSES, WkPc
<1>3. /\ wk' \in [TaskId -> WorkerState] /\ wk'[t].pc = p
      /\ \A u \in TaskId : u # t => wk'[u] = wk[u]
  BY <1>1, <1>2, GotoMoves
<1>4. /\ status'[t] = s /\ t \in DOMAIN status /\ DOMAIN status' = DOMAIN status
      /\ run' = run /\ status[t] \notin Terminal
  BY <1>1, <1>2, TransitionMoves
<1>5. /\ nt' \in [Deliverer -> UpdateState]
      /\ nt'[Worker(t)].pc = "notify"
      /\ nt'[Worker(t)].task = t /\ nt'[Worker(t)].status = s
      /\ \A y \in Deliverer : y # Worker(t) => nt'[y] = nt[y]
  BY <1>1, NotifyMoves
<1>6. TaskMoves(t, Worker(t))
  BY <1>1, <1>2, <1>3, <1>5, TransitionTables DEF HubTypes
<1>7. \A v \in _REPLAYABLE_STATUSES : Sayable(t, v) => Sayable(t, v)'
  BY <1>4, BusyNotBlocked
<1>8. Sayable(t, s)'
  BY <1>3, <1>4 DEF Sayable, RunClosed
<1>9. dl'[Worker(t)].pc = "idle"
  BY <1>1, IdleWorker
<1>10. CallerFits(Worker(t))'
  BY <1>1, <1>3, <1>5, <1>8, <1>9 DEF CallerFits
<1>11. DeliveryInv'
  BY <1>1, ElsewhereInv
<1> QED
  BY <1>1, <1>3, <1>6, <1>7, <1>10, <1>11, WorkerStepInv

\* A worker that is not notifying ends, and leaves the tables as they are.
LEMMA EndsInv ==
  ASSUME UpdatesInv, NEW t \in TaskId, hub = "serving", Ends(t), WorkFrame,
         UNCHANGED mishapVars \/ CallFails, wk[t].pc \notin {"none", "told", "last"}
  PROVE  UpdatesInv'
<1>1. /\ HubTypes /\ DeliveryInv /\ RowFits(t)
      /\ wk' = [wk EXCEPT ![t] = NoWorker] /\ UNCHANGED tableVars
      /\ UNCHANGED <<receipt, posted, dl, up, nt>>
      /\ UNCHANGED <<routes, replay, hub, cn>>
  BY DEF UpdatesInv, Ends, WorkFrame
<1>2. /\ wk' \in [TaskId -> WorkerState] /\ wk'[t].pc = "none"
      /\ \A u \in TaskId : u # t => wk'[u] = wk[u]
  BY <1>1 DEF HubTypes, NoWorker, WorkerState, WkPc
<1>3. TaskMoves(t, Worker(t))
  BY <1>1, <1>2, SameTables DEF HubTypes
<1>4. WorkerFits(t)' /\ RowFits(t)'
  BY <1>1, <1>2 DEF WorkerFits, RowFits, RunClosed, tableVars
<1>5. \A v \in _REPLAYABLE_STATUSES : Sayable(t, v) => Sayable(t, v)'
  BY <1>1 DEF Sayable, tableVars
<1>6. nt'[Worker(t)].pc = "idle" /\ dl'[Worker(t)].pc = "idle"
  BY <1>1, IdleWorker
<1>7. DeliveryInv'
  BY <1>1, ElsewhereInv
<1> QED
  BY <1>1, <1>3, <1>4, <1>5, <1>6, <1>7, WorkerStepInv

\* A worker that is not notifying goes on to the except clause, or in it, and leaves
\* the tables as they are.
LEMMA ExceptInv ==
  ASSUME UpdatesInv, NEW t \in TaskId, hub = "serving", NEW p \in {"except", "fail"},
         Goto(t, p), WorkFrame, UNCHANGED <<tableVars, receipt, posted, dl, up, nt>>,
         UNCHANGED mishapVars \/ CallFails,
         wk[t].pc \in {"prepare", "exec", "check", "finish", "except"}
  PROVE  UpdatesInv'
<1>1. /\ HubTypes /\ DeliveryInv /\ RowFits(t) /\ WorkerFits(t)
      /\ UNCHANGED tableVars /\ UNCHANGED <<receipt, posted, dl, up, nt>>
      /\ UNCHANGED <<routes, replay, hub, cn>>
  BY DEF UpdatesInv, WorkFrame
<1>2. /\ wk' \in [TaskId -> WorkerState] /\ wk'[t].pc = p
      /\ \A u \in TaskId : u # t => wk'[u] = wk[u]
  BY <1>1, GotoMoves DEF WkPc
<1>3. TaskMoves(t, Worker(t))
  BY <1>1, <1>2, SameTables DEF HubTypes
<1>4. WorkerFits(t)' /\ RowFits(t)'
  BY <1>1, <1>2 DEF WorkerFits, RowFits, RunClosed, tableVars, Terminal
<1>5. \A v \in _REPLAYABLE_STATUSES : Sayable(t, v) => Sayable(t, v)'
  BY <1>1 DEF Sayable, tableVars
<1>6. nt'[Worker(t)].pc = "idle" /\ dl'[Worker(t)].pc = "idle"
  BY <1>1, IdleWorker
<1>7. DeliveryInv'
  BY <1>1, ElsewhereInv
<1> QED
  BY <1>1, <1>3, <1>4, <1>5, <1>6, <1>7, WorkerStepInv

\* A worker whose transition is refused goes on to the except clause.
LEMMA RefusedInv ==
  ASSUME UpdatesInv, NEW t \in TaskId, hub = "serving", NEW s, WorkerRefused(t, s), WorkFrame,
         wk[t].pc \in {"prepare", "finish"}
  PROVE  UpdatesInv'
BY ExceptInv DEF WorkerRefused, Raises

\* A worker that is under way works for a hub that serves, on a stored task.
LEMMA WorkerServes ==
  ASSUME UpdatesInv, NEW t \in TaskId, wk[t].pc # "none"
  PROVE  hub = "serving" /\ t \in DOMAIN status /\ HubTypes /\ WorkerFits(t) /\ RowFits(t)
BY DEF UpdatesInv, WorkerFits

\* The workspace is prepared, or not: reported before anything runs.
LEMMA PreparedInv ==
  ASSUME UpdatesInv, NEW t \in TaskId, prepared(t), WorkFrame
  PROVE  UpdatesInv'
<1>1. /\ wk[t].pc = "prepare" /\ hub = "serving" /\ hub' = hub
      /\ t \in DOMAIN status /\ HubTypes /\ t \notin DOMAIN run
  BY WorkerServes DEF prepared, At, WorkerFits, WorkFrame
<1>2. CASE Report(t, "running", "told")
  <2>1. /\ status'[t] = "running" /\ DOMAIN status' = DOMAIN status /\ run' = run
        /\ wk'[t].pc = "told"
    BY <1>1, <1>2, TransitionMoves, GotoMoves DEF Report, TaskStatus, WkPc
  <2>2. WorkerFits(t)' /\ RowFits(t)'
    BY <1>1, <2>1 DEF WorkerFits, RowFits
  <2> QED
    BY <1>1, <1>2, <2>2, ReportInv DEF _REPLAYABLE_STATUSES
<1>3. ASSUME NEW s \in {"blocked", "failed"}, Report(t, s, "last")
      PROVE  UpdatesInv'
  <2>1. /\ status'[t] = s /\ DOMAIN status' = DOMAIN status /\ run' = run
        /\ wk'[t].pc = "last"
    BY <1>1, <1>3, TransitionMoves, GotoMoves DEF Report, TaskStatus, WkPc
  <2>2. WorkerFits(t)' /\ RowFits(t)'
    BY <1>1, <2>1 DEF WorkerFits, RowFits, RunClosed
  <2>3. RunClosed(t)
    BY <1>1 DEF RunClosed
  <2>4. s \in _REPLAYABLE_STATUSES /\ s # "running"
    BY DEF _REPLAYABLE_STATUSES
  <2> QED
    BY <1>1, <1>3, <2>2, <2>3, <2>4, ReportInv
<1>4. CASE WorkerRefused(t, "running")
  BY <1>1, <1>4, RefusedInv
<1> QED
  BY <1>2, <1>3, <1>4 DEF prepared

\* The running update has been awaited; the run is stored and started.
LEMMA CreateRunInv ==
  ASSUME UpdatesInv, NEW t \in TaskId, create_run(t), WorkFrame
  PROVE  UpdatesInv'
<1>1. /\ wk[t].pc = "told" /\ Worker(t) \in Deliverer
      /\ Returned(Worker(t)) /\ Forget(Worker(t)) /\ Goto(t, "exec")
      /\ run' = Put(run, t, [task |-> t, status |-> "running"])
      /\ UNCHANGED <<status, receipt, posted, up, mishapVars>>
      /\ UNCHANGED <<routes, replay, hub, cn>>
  BY Callers DEF create_run, At, WorkFrame
<1>2. /\ hub = "serving" /\ t \in DOMAIN status /\ HubTypes
      /\ status[t] \in {"running", "cancelled"}
  BY <1>1, WorkerServes DEF WorkerFits
<1>3. /\ wk' \in [TaskId -> WorkerState] /\ wk'[t].pc = "exec"
      /\ \A u \in TaskId : u # t => wk'[u] = wk[u]
  BY <1>1, <1>2, GotoMoves DEF WkPc
<1>4. /\ DeliveryInv' /\ nt' \in [Deliverer -> UpdateState]
      /\ nt'[Worker(t)].pc = "idle" /\ dl'[Worker(t)].pc = "idle"
      /\ \A y \in Deliverer : y # Worker(t) => nt'[y] = nt[y] /\ dl'[y] = dl[y]
  BY <1>1, ForgetMoves
<1>5. PICK row : row = [task |-> t, status |-> "running"]
  OBVIOUS
<1>6. row \in RunRow /\ row.task = t /\ row.status = "running"
  BY <1>5 DEF RunRow, RunStatus
<1>7. run' = [r \in DOMAIN run \cup {t} |-> IF r = t THEN row ELSE run[r]]
  BY <1>1, <1>5 DEF Put
<1>8. /\ DOMAIN run' = DOMAIN run \cup {t} /\ run'[t] = row
      /\ run' \in [DOMAIN run' -> RunRow]
      /\ \A u \in TaskId : u # t /\ u \in DOMAIN run => run'[u] = run[u]
  BY <1>2, <1>6, <1>7 DEF HubTypes
<1>9. TaskMoves(t, Worker(t))
  BY <1>1, <1>2, <1>3, <1>4, <1>6, <1>8 DEF TaskMoves, HubTypes
<1>10. WorkerFits(t)' /\ RowFits(t)'
  BY <1>1, <1>2, <1>3, <1>6, <1>8 DEF WorkerFits, RowFits
<1>11. \A s \in _REPLAYABLE_STATUSES : Sayable(t, s) => Sayable(t, s)'
  BY <1>1, <1>2, BusyNotBlocked
<1> QED
  BY <1>1, <1>2, <1>4, <1>9, <1>10, <1>11, WorkerStepInv

\* The run ends with the result the worker keeps.
LEMMA FinishRunInv ==
  ASSUME UpdatesInv, NEW t \in TaskId, finish_run(t), WorkFrame
  PROVE  UpdatesInv'
<1>1. /\ wk[t].pc = "exec" /\ UNCHANGED <<receipt, posted, dl, up, mishapVars, nt>>
      /\ UNCHANGED <<routes, replay, hub, cn>>
  BY DEF finish_run, At, WorkFrame, deliveryVars
<1>2. PICK result \in {"succeeded", "failed", "cancelled"} :
         /\ TableFinishRun(t, result)
         /\ wk' = [wk EXCEPT ![t] = [pc |-> "check", result |-> result]]
  BY DEF finish_run
<1>3. /\ hub = "serving" /\ t \in DOMAIN status /\ HubTypes /\ DeliveryInv
      /\ status[t] \in {"running", "cancelled"} /\ t \in DOMAIN run
  BY <1>1, WorkerServes DEF WorkerFits, UpdatesInv
<1>4. PICK w : w = [pc |-> "check", result |-> result]
  OBVIOUS
<1>5. w \in WorkerState /\ w.pc = "check" /\ w.result = result
  BY <1>4 DEF WorkerState, WkPc
<1>6. /\ wk' \in [TaskId -> WorkerState] /\ wk'[t] = w
      /\ \A u \in TaskId : u # t => wk'[u] = wk[u]
  BY <1>2, <1>3, <1>4, <1>5 DEF HubTypes
<1>7. PICK row : row = [run[t] EXCEPT !.status = result]
  OBVIOUS
<1>8. /\ status' = status /\ run' = [run EXCEPT ![t] = row]
      /\ row \in RunRow /\ row.task = t /\ row.status = result
  BY <1>2, <1>3, <1>7, ZenonT(40) DEF TableFinishRun, HubTypes, RunRow, RunStatus
<1>9. /\ DOMAIN run' = DOMAIN run /\ run'[t] = row
      /\ run' \in [DOMAIN run' -> RunRow]
      /\ \A u \in TaskId : u # t => run'[u] = run[u]
  BY <1>3, <1>8 DEF HubTypes
<1>10. TaskMoves(t, Worker(t))
  BY <1>1, <1>3, <1>6, <1>8, <1>9 DEF TaskMoves, HubTypes
<1>11. WorkerFits(t)' /\ RowFits(t)'
  BY <1>1, <1>3, <1>5, <1>6, <1>8, <1>9 DEF WorkerFits, RowFits
<1>12. \A s \in _REPLAYABLE_STATUSES : Sayable(t, s) => Sayable(t, s)'
  BY <1>1, <1>3, <1>8, BusyNotBlocked
<1>13. nt'[Worker(t)].pc = "idle" /\ dl'[Worker(t)].pc = "idle"
  BY <1>1, IdleWorker
<1>14. DeliveryInv'
  BY <1>1, <1>3, ElsewhereInv
<1> QED
  BY <1>1, <1>3, <1>10, <1>11, <1>12, <1>13, <1>14, WorkerStepInv

\* A task that was cancelled meanwhile is reported once more.
LEMMA CheckCancelledInv ==
  ASSUME UpdatesInv, NEW t \in TaskId, check_cancelled(t), WorkFrame
  PROVE  UpdatesInv'
<1>1. /\ wk[t].pc = "check" /\ UNCHANGED <<receipt, posted, dl, up, mishapVars>>
      /\ UNCHANGED <<routes, replay, hub, cn>> /\ UNCHANGED tableVars
      /\ Worker(t) \in Deliverer
  BY Callers DEF check_cancelled, At, WorkFrame, deliveryVars
<1>2. /\ hub = "serving" /\ t \in DOMAIN status /\ HubTypes /\ DeliveryInv /\ up
      /\ WorkerFits(t) /\ RowFits(t)
  BY <1>1, WorkerServes DEF UpdatesInv, HubTypes
<1>3. \A s \in _REPLAYABLE_STATUSES : Sayable(t, s) => Sayable(t, s)'
  BY <1>1, <1>2, BusyNotBlocked DEF tableVars
<1>4. DeliveryInv'
  BY <1>1, <1>2, ElsewhereInv
<1>5. nt[Worker(t)].pc = "idle" /\ dl[Worker(t)].pc = "idle"
  BY <1>1, IdleWorker
<1>6. CASE status[t] = "cancelled"
  <2>1. _notify(Worker(t), t, "cancelled") /\ Goto(t, "last")
    BY <1>6 DEF check_cancelled
  <2>2. /\ wk' \in [TaskId -> WorkerState] /\ wk'[t].pc = "last"
        /\ \A u \in TaskId : u # t => wk'[u] = wk[u]
    BY <1>2, <2>1, GotoMoves DEF WkPc
  <2>3. /\ nt' \in [Deliverer -> UpdateState]
        /\ nt'[Worker(t)].pc = "notify"
        /\ nt'[Worker(t)].task = t /\ nt'[Worker(t)].status = "cancelled"
        /\ \A y \in Deliverer : y # Worker(t) => nt'[y] = nt[y]
    BY <1>1, <1>2, <2>1, NotifyMoves DEF _REPLAYABLE_STATUSES
  <2>4. TaskMoves(t, Worker(t))
    BY <1>1, <1>2, <2>2, <2>3, SameTables DEF HubTypes
  <2>5. Sayable(t, "cancelled")'
    BY <1>1, <1>2, <1>6 DEF Sayable, tableVars
  <2>6. CallerFits(Worker(t))'
    BY <1>1, <1>2, <1>5, <2>3, <2>5 DEF CallerFits, _REPLAYABLE_STATUSES
  <2>7. WorkerFits(t)' /\ RowFits(t)'
    BY <1>1, <1>2, <1>6, <2>2 DEF WorkerFits, RowFits, tableVars
  <2> QED
    BY <1>1, <1>2, <1>3, <1>4, <2>2, <2>4, <2>6, <2>7, WorkerStepInv
<1>7. CASE status[t] # "cancelled"
  <2>1. Goto(t, "finish") /\ nt' = nt
    BY <1>7 DEF check_cancelled
  <2>2. /\ wk' \in [TaskId -> WorkerState]
        /\ wk'[t].pc = "finish" /\ wk'[t].result = wk[t].result
        /\ \A u \in TaskId : u # t => wk'[u] = wk[u]
    BY <1>2, <2>1, GotoMoves DEF WkPc
  <2>3. TaskMoves(t, Worker(t))
    BY <1>1, <1>2, <2>1, <2>2, SameTables DEF HubTypes
  <2>4. WorkerFits(t)' /\ RowFits(t)'
    BY <1>1, <1>2, <2>2 DEF WorkerFits, RowFits, tableVars
  <2>5. nt'[Worker(t)].pc = "idle" /\ dl'[Worker(t)].pc = "idle"
    BY <1>1, <1>5, <2>1
  <2> QED
    BY <1>1, <1>2, <1>3, <1>4, <2>3, <2>4, <2>5, WorkerStepInv
<1> QED
  BY <1>6, <1>7

\* The outcome of the run becomes that of the task, and is reported.
LEMMA FinishTaskInv ==
  ASSUME UpdatesInv, NEW t \in TaskId, finish_task(t), WorkFrame
  PROVE  UpdatesInv'
<1>1. PICK s : s = Outcome(wk[t].result)
  OBVIOUS
<1>2. /\ wk[t].pc = "finish" /\ hub = "serving" /\ hub' = hub
      /\ t \in DOMAIN status /\ HubTypes /\ t \in DOMAIN run
      /\ run[t].status = wk[t].result /\ wk[t].result \in {"succeeded", "failed", "cancelled"}
  <2>1. wk[t].pc = "finish" /\ hub' = hub
    BY DEF finish_task, At, WorkFrame
  <2>2. hub = "serving" /\ t \in DOMAIN status /\ HubTypes /\ WorkerFits(t)
    BY <2>1, WorkerServes
  <2>3. wk[t] \in WorkerState
    BY <2>2 DEF HubTypes
  <2> QED
    BY <2>1, <2>2, <2>3 DEF WorkerFits, WorkerState
<1>3. /\ s \in _REPLAYABLE_STATUSES /\ s \in TaskStatus
      /\ s \notin {"running", "blocked", "queued"}
      /\ s = "completed" => run[t].status = "succeeded"
      /\ s = "failed" => run[t].status = "failed"
  BY <1>1, <1>2 DEF Outcome, _REPLAYABLE_STATUSES, TaskStatus
<1>4. run[t].status \in RunTerminal
  BY <1>2 DEF RunTerminal, RunStatus, RunActive
<1>5. CASE Report(t, s, "last")
  <2>1. /\ status'[t] = s /\ DOMAIN status' = DOMAIN status /\ run' = run
        /\ wk'[t].pc = "last"
    BY <1>2, <1>3, <1>5, TransitionMoves, GotoMoves DEF Report, WkPc
  <2>2. WorkerFits(t)' /\ RowFits(t)'
    BY <1>2, <1>3, <1>4, <2>1 DEF WorkerFits, RowFits, RunClosed
  <2> QED
    BY <1>2, <1>3, <1>5, <2>2, ReportInv
<1>6. CASE WorkerRefused(t, s)
  BY <1>2, <1>6, RefusedInv
<1> QED
  BY <1>1, <1>5, <1>6 DEF finish_task

\* A call fails before the workspace is there.
LEMMA PrepareFaultInv ==
  ASSUME UpdatesInv, NEW t \in TaskId, prepare_fault(t), WorkFrame
  PROVE  UpdatesInv'
<1>1. wk[t].pc = "prepare" /\ hub = "serving" /\ CallFails
  BY WorkerServes DEF prepare_fault, At
<1> QED
  BY <1>1, EndsInv, ExceptInv DEF prepare_fault, Raises

\* The run is not stored, or not started.
LEMMA CreateRunFaultInv ==
  ASSUME UpdatesInv, NEW t \in TaskId, create_run_fault(t), WorkFrame
  PROVE  UpdatesInv'
<1>1. /\ wk[t].pc = "told" /\ Worker(t) \in Deliverer
      /\ Returned(Worker(t)) /\ Forget(Worker(t)) /\ Goto(t, "except") /\ CallFails
      /\ run' \in {run, Put(run, t, [task |-> t, status |-> "queued"])}
      /\ UNCHANGED <<status, receipt, posted, up>>
      /\ UNCHANGED <<routes, replay, hub, cn>>
  BY Callers DEF create_run_fault, At, WorkFrame, Raises
<1>2. /\ hub = "serving" /\ t \in DOMAIN status /\ HubTypes
      /\ status[t] \in {"running", "cancelled"}
  BY <1>1, WorkerServes DEF WorkerFits
<1>3. /\ wk' \in [TaskId -> WorkerState] /\ wk'[t].pc = "except"
      /\ \A u \in TaskId : u # t => wk'[u] = wk[u]
  BY <1>1, <1>2, GotoMoves DEF WkPc
<1>4. /\ DeliveryInv' /\ nt' \in [Deliverer -> UpdateState]
      /\ nt'[Worker(t)].pc = "idle" /\ dl'[Worker(t)].pc = "idle"
      /\ \A y \in Deliverer : y # Worker(t) => nt'[y] = nt[y] /\ dl'[y] = dl[y]
  BY <1>1, ForgetMoves
<1>5. PICK row : row = [task |-> t, status |-> "queued"]
  OBVIOUS
<1>6. row \in RunRow /\ row.task = t
  BY <1>5 DEF RunRow, RunStatus
<1>7. \/ run' = run
      \/ run' = [r \in DOMAIN run \cup {t} |-> IF r = t THEN row ELSE run[r]]
  BY <1>1, <1>5 DEF Put
<1>8. /\ DOMAIN run \subseteq DOMAIN run' /\ DOMAIN run' \subseteq DOMAIN run \cup {t}
      /\ run' \in [DOMAIN run' -> RunRow]
      /\ t \in DOMAIN run' => run'[t].task = t
      /\ \A u \in TaskId : u # t /\ u \in DOMAIN run => run'[u] = run[u]
  BY <1>2, <1>6, <1>7 DEF HubTypes
<1>9. TaskMoves(t, Worker(t))
  BY <1>1, <1>2, <1>3, <1>4, <1>8 DEF TaskMoves, HubTypes
<1>10. WorkerFits(t)' /\ RowFits(t)'
  BY <1>1, <1>2, <1>3 DEF WorkerFits, RowFits, Terminal
<1>11. \A s \in _REPLAYABLE_STATUSES : Sayable(t, s) => Sayable(t, s)'
  BY <1>1, <1>2, BusyNotBlocked
<1> QED
  BY <1>1, <1>2, <1>4, <1>9, <1>10, <1>11, WorkerStepInv

\* execute, or the store call after it, raises.
LEMMA FinishRunFaultInv ==
  ASSUME UpdatesInv, NEW t \in TaskId, finish_run_fault(t), WorkFrame
  PROVE  UpdatesInv'
<1>1. wk[t].pc = "exec" /\ hub = "serving"
  BY WorkerServes DEF finish_run_fault, At
<1> QED
  BY <1>1, ExceptInv DEF finish_run_fault, Raises

\* The outcome is not stored, or it is stored and not reported.
LEMMA FinishTaskFaultInv ==
  ASSUME UpdatesInv, NEW t \in TaskId, finish_task_fault(t), WorkFrame
  PROVE  UpdatesInv'
<1>1. /\ wk[t].pc \in {"check", "finish"} /\ CallFails /\ Goto(t, "except")
      /\ UNCHANGED <<receipt, posted, dl, up, nt>> /\ UNCHANGED <<routes, replay, hub, cn>>
  BY DEF finish_task_fault, Raises, WorkFrame
<1>2. /\ hub = "serving" /\ t \in DOMAIN status /\ HubTypes /\ DeliveryInv
      /\ WorkerFits(t) /\ RowFits(t)
  BY <1>1, WorkerServes DEF UpdatesInv
<1>3. CASE UNCHANGED tableVars
  BY <1>1, <1>2, <1>3, ExceptInv
<1>4. CASE TableTransition(t, Outcome(wk[t].result))
  <2>1. PICK s : s = Outcome(wk[t].result)
    OBVIOUS
  <2>2. /\ t \in DOMAIN run /\ run[t].status = wk[t].result
        /\ wk[t].result \in {"succeeded", "failed", "cancelled"}
    BY <1>1, <1>2 DEF WorkerFits, HubTypes, WorkerState
  <2>3. /\ s \in {"completed", "cancelled", "failed"} /\ s \in TaskStatus
        /\ s = "completed" => run[t].status = "succeeded"
    BY <2>1, <2>2 DEF Outcome, TaskStatus
  <2>4. /\ wk' \in [TaskId -> WorkerState] /\ wk'[t].pc = "except"
        /\ \A u \in TaskId : u # t => wk'[u] = wk[u]
    BY <1>1, <1>2, GotoMoves DEF WkPc
  <2>5. /\ status'[t] = s /\ DOMAIN status' = DOMAIN status /\ run' = run
        /\ status[t] \notin Terminal
    BY <1>2, <1>4, <2>1, <2>3, TransitionMoves
  <2>6. TaskMoves(t, Worker(t))
    BY <1>1, <1>2, <1>4, <2>1, <2>3, <2>4, TransitionTables DEF HubTypes
  <2>7. WorkerFits(t)' /\ RowFits(t)'
    BY <1>1, <1>2, <2>2, <2>3, <2>4, <2>5 DEF WorkerFits, RowFits, Terminal
  <2>8. \A v \in _REPLAYABLE_STATUSES : Sayable(t, v) => Sayable(t, v)'
    BY <1>1, <1>2, <2>5, BusyNotBlocked
  <2>9. nt'[Worker(t)].pc = "idle" /\ dl'[Worker(t)].pc = "idle"
    BY <1>1, IdleWorker
  <2>10. DeliveryInv'
    BY <1>1, <1>2, ElsewhereInv
  <2> QED
    BY <1>1, <1>2, <2>6, <2>7, <2>8, <2>9, <2>10, WorkerStepInv
<1> QED
  BY <1>3, <1>4 DEF finish_task_fault

\* The except clause closes the run, if it can.
LEMMA CloseRunInv ==
  ASSUME UpdatesInv, NEW t \in TaskId, close_run(t), WorkFrame
  PROVE  UpdatesInv'
<1>1. /\ wk[t].pc = "except" /\ (UNCHANGED mishapVars \/ CallFails)
      /\ Goto(t, "fail") /\ UNCHANGED <<receipt, posted, dl, up, nt>>
      /\ UNCHANGED <<routes, replay, hub, cn>>
      /\ UNCHANGED tableVars \/ TableFinishRun(t, "failed")
  BY DEF close_run, At, WorkFrame
<1>2. /\ hub = "serving" /\ t \in DOMAIN status /\ HubTypes /\ DeliveryInv
      /\ WorkerFits(t) /\ RowFits(t)
  BY <1>1, WorkerServes DEF UpdatesInv
<1>3. CASE UNCHANGED tableVars
  BY <1>1, <1>2, <1>3, ExceptInv
<1>4. CASE TableFinishRun(t, "failed")
  <2>1. /\ wk' \in [TaskId -> WorkerState] /\ wk'[t].pc = "fail"
        /\ \A u \in TaskId : u # t => wk'[u] = wk[u]
    BY <1>1, <1>2, GotoMoves DEF WkPc
  <2>2. PICK row : row = [run[t] EXCEPT !.status = "failed"]
    OBVIOUS
  <2>3. /\ status' = status /\ run' = [run EXCEPT ![t] = row]
        /\ t \in DOMAIN run /\ run[t].status \in RunActive
    BY <1>4, <2>2 DEF TableFinishRun
  <2>4. row \in RunRow /\ row.task = t
    BY <1>2, <2>2, <2>3, ZenonT(40) DEF HubTypes, RunRow, RunStatus
  <2>5. /\ DOMAIN run' = DOMAIN run /\ run'[t] = row
        /\ run' \in [DOMAIN run' -> RunRow]
        /\ \A u \in TaskId : u # t => run'[u] = run[u]
    BY <1>2, <2>3, <2>4 DEF HubTypes
  <2>6. TaskMoves(t, Worker(t))
    BY <1>1, <1>2, <2>1, <2>3, <2>4, <2>5 DEF TaskMoves, HubTypes
  <2>7. status[t] \notin {"blocked", "completed"}
    BY <1>1, <1>2, <2>3 DEF RowFits, RunActive
  <2>8. WorkerFits(t)' /\ RowFits(t)'
    BY <1>1, <1>2, <2>1, <2>3, <2>5, <2>7 DEF WorkerFits, RowFits, Terminal
  <2>9. \A s \in _REPLAYABLE_STATUSES : Sayable(t, s) => Sayable(t, s)'
    BY <1>1, <1>2, <2>3, BusyNotBlocked
  <2>10. nt'[Worker(t)].pc = "idle" /\ dl'[Worker(t)].pc = "idle"
    BY <1>1, IdleWorker
  <2>11. DeliveryInv'
    BY <1>1, <1>2, ElsewhereInv
  <2> QED
    BY <1>1, <1>2, <2>6, <2>8, <2>9, <2>10, <2>11, WorkerStepInv
<1> QED
  BY <1>1, <1>3, <1>4

\* The except clause reports a task that is still open as failed.
LEMMA FailInv ==
  ASSUME UpdatesInv, NEW t \in TaskId, _fail(t), WorkFrame
  PROVE  UpdatesInv'
<1>1. /\ wk[t].pc = "fail" /\ hub = "serving" /\ hub' = hub
      /\ t \in DOMAIN status /\ HubTypes
  BY WorkerServes DEF _fail, At, WorkFrame
<1>2. CASE Report(t, "failed", "last")
  <2>1. /\ status'[t] = "failed" /\ DOMAIN status' = DOMAIN status /\ run' = run
        /\ wk'[t].pc = "last"
    BY <1>1, <1>2, TransitionMoves, GotoMoves DEF Report, TaskStatus, WkPc
  <2>2. WorkerFits(t)' /\ RowFits(t)'
    BY <1>1, <2>1 DEF WorkerFits, RowFits
  <2> QED
    BY <1>1, <1>2, <2>2, ReportInv DEF _REPLAYABLE_STATUSES
<1>3. CASE Ends(t) /\ (UNCHANGED mishapVars \/ CallFails)
  BY <1>1, <1>3, EndsInv
<1> QED
  BY <1>2, <1>3 DEF _fail

\* The last update has been awaited.
LEMMA WorkerReturnedInv ==
  ASSUME UpdatesInv, NEW t \in TaskId, worker_returned(t), WorkFrame
  PROVE  UpdatesInv'
<1>1. /\ wk[t].pc = "last" /\ Worker(t) \in Deliverer
      /\ Returned(Worker(t)) /\ Forget(Worker(t))
      /\ wk' = [wk EXCEPT ![t] = NoWorker] /\ UNCHANGED tableVars
      /\ UNCHANGED <<receipt, posted, up, mishapVars>>
      /\ UNCHANGED <<routes, replay, hub, cn>>
  BY Callers DEF worker_returned, At, WorkFrame
<1>2. hub = "serving" /\ t \in DOMAIN status /\ HubTypes /\ RowFits(t)
  BY <1>1, WorkerServes
<1>3. /\ wk' \in [TaskId -> WorkerState] /\ wk'[t].pc = "none"
      /\ \A u \in TaskId : u # t => wk'[u] = wk[u]
  BY <1>1, <1>2 DEF HubTypes, NoWorker, WorkerState, WkPc
<1>4. /\ DeliveryInv' /\ nt' \in [Deliverer -> UpdateState]
      /\ nt'[Worker(t)].pc = "idle" /\ dl'[Worker(t)].pc = "idle"
      /\ \A y \in Deliverer : y # Worker(t) => nt'[y] = nt[y] /\ dl'[y] = dl[y]
  BY <1>1, ForgetMoves
<1>5. TaskMoves(t, Worker(t))
  BY <1>1, <1>2, <1>3, <1>4, SameTables, ZenonT(40) DEF HubTypes
<1>6. WorkerFits(t)' /\ RowFits(t)'
  BY <1>1, <1>2, <1>3 DEF WorkerFits, RowFits, RunClosed, tableVars
<1>7. \A s \in _REPLAYABLE_STATUSES : Sayable(t, s) => Sayable(t, s)'
  BY <1>1, <1>3 DEF Sayable, RunClosed, tableVars
<1> QED
  BY <1>1, <1>2, <1>4, <1>5, <1>6, <1>7, WorkerStepInv

\* A step of the cancel request of t, which leaves the worker alone.
LEMMA CancelStepInv ==
  ASSUME UpdatesInv, NEW t \in TaskId, hub = "serving", TaskMoves(t, Canceller(t)), wk' = wk,
         WorkerFits(t)', RowFits(t)', DeliveryInv',
         \A s \in _REPLAYABLE_STATUSES : Sayable(t, s) => Sayable(t, s)',
         \/ CallerFits(Canceller(t))' /\ cn'[t] = "notify"
         \/ nt'[Canceller(t)].pc = "idle" /\ dl'[Canceller(t)].pc = "idle"
  PROVE  UpdatesInv'
<1>1. HubTypes' /\ OthersStay(t)
  BY TaskMovesFrame
<1>2. /\ nt'[Worker(t)] = nt[Worker(t)] /\ dl'[Worker(t)] = dl[Worker(t)]
      /\ QuietCallers
  BY Callers DEF TaskMoves, UpdatesInv
<1>3. SameCaller(Worker(t), t)
  BY <1>2 DEF SameCaller
<1>4. CallerFits(Canceller(t))'
  BY DEF CallerFits
<1>5. /\ wk'[t].pc \notin {"told", "last"} => nt'[Worker(t)].pc = "idle"
      /\ cn'[t] # "notify" => nt'[Canceller(t)].pc = "idle"
  BY <1>2 DEF QuietCallers
<1> QED
  BY <1>1, <1>3, <1>4, <1>5, TaskStepInv

\* The cancel request of t is not notifying.
LEMMA IdleCanceller ==
  ASSUME UpdatesInv, NEW t \in TaskId, cn[t] # "notify"
  PROVE  nt[Canceller(t)].pc = "idle" /\ dl[Canceller(t)].pc = "idle"
<1>1. nt[Canceller(t)].pc = "idle"
  BY DEF UpdatesInv, QuietCallers
<1> QED
  BY <1>1, IdleCaller, Callers

\* What CancelGoto does.
LEMMA CancelGotoMoves ==
  ASSUME HubTypes, NEW t \in TaskId, NEW p \in CnPc, CancelGoto(t, p)
  PROVE  /\ cn' \in [TaskId -> CnPc] /\ cn'[t] = p
         /\ \A u \in TaskId : u # t => cn'[u] = cn[u]
BY DEF CancelGoto, HubTypes

\* The request reads the row, or marks the process, and stores nothing.
LEMMA CancelQuietInv ==
  ASSUME UpdatesInv, NEW t \in TaskId, hub = "serving", cn[t] # "notify",
         NEW p \in CnPc, CancelGoto(t, p),
         UNCHANGED <<tableVars, deliveryVars, nt>>, CancelFrame
  PROVE  UpdatesInv'
<1>1. /\ HubTypes /\ DeliveryInv /\ WorkerFits(t) /\ RowFits(t)
      /\ UNCHANGED <<receipt, posted, dl, up, mishapVars, nt>>
      /\ UNCHANGED <<routes, replay, hub, wk>>
  BY DEF UpdatesInv, CancelFrame, deliveryVars
<1>2. cn' \in [TaskId -> CnPc] /\ \A u \in TaskId : u # t => cn'[u] = cn[u]
  BY <1>1, CancelGotoMoves
<1>3. TaskMoves(t, Canceller(t))
  BY <1>1, <1>2, SameTables DEF HubTypes
<1>4. WorkerFits(t)' /\ RowFits(t)'
  BY <1>1 DEF WorkerFits, RowFits, RunClosed, tableVars
<1>5. \A s \in _REPLAYABLE_STATUSES : Sayable(t, s) => Sayable(t, s)'
  BY <1>1 DEF Sayable, RunClosed, tableVars
<1>6. nt'[Canceller(t)].pc = "idle" /\ dl'[Canceller(t)].pc = "idle"
  BY <1>1, IdleCanceller
<1>7. DeliveryInv'
  BY <1>1, ElsewhereInv
<1> QED
  BY <1>1, <1>3, <1>4, <1>5, <1>6, <1>7, CancelStepInv

\* A cancel request is under way in a hub that serves.
LEMMA CancelServes ==
  ASSUME UpdatesInv, NEW t \in TaskId, cn[t] \notin {"idle", "over"}
  PROVE  hub = "serving"
BY DEF UpdatesInv, QuietCallers

\* get_task of the request.
LEMMA CancelReadInv ==
  ASSUME UpdatesInv, NEW t \in TaskId, cancel_read(t), CancelFrame
  PROVE  UpdatesInv'
<1>1. PICK p : p = CASE status[t] \in Terminal -> "over"
                     [] status[t] = "running" -> "runtime"
                     [] OTHER                 -> "commit"
  OBVIOUS
<1>2. CancelGoto(t, p) /\ p \in CnPc
  BY <1>1 DEF cancel_read, CnPc
<1> QED
  BY <1>2, CancelQuietInv DEF cancel_read

\* runtime.cancel.
LEMMA CancelRuntimeInv ==
  ASSUME UpdatesInv, NEW t \in TaskId, cancel_runtime(t), CancelFrame
  PROVE  UpdatesInv'
BY CancelServes, CancelQuietInv DEF cancel_runtime, CnPc

\* The task is cancelled and the update handed over; or the request is refused.
LEMMA CancelCommitInv ==
  ASSUME UpdatesInv, NEW t \in TaskId, cancel_commit(t), CancelFrame
  PROVE  UpdatesInv'
<1>1. /\ cn[t] = "commit" /\ hub = "serving" /\ HubTypes /\ DeliveryInv /\ up
      /\ WorkerFits(t) /\ RowFits(t) /\ Canceller(t) \in Deliverer
      /\ UNCHANGED <<receipt, posted, dl, up, mishapVars>>
      /\ UNCHANGED <<routes, replay, hub, wk>>
  BY CancelServes, Callers
     DEF UpdatesInv, cancel_commit, CancelFrame, deliveryVars, HubTypes
<1>2. CASE /\ TableTransition(t, "cancelled")
           /\ _notify(Canceller(t), t, "cancelled")
           /\ CancelGoto(t, "notify")
  <2>1. /\ status'[t] = "cancelled" /\ t \in DOMAIN status /\ DOMAIN status' = DOMAIN status
        /\ run' = run /\ status[t] \notin Terminal
    BY <1>1, <1>2, TransitionMoves DEF TaskStatus
  <2>2. /\ nt' \in [Deliverer -> UpdateState]
        /\ nt'[Canceller(t)].pc = "notify"
        /\ nt'[Canceller(t)].task = t /\ nt'[Canceller(t)].status = "cancelled"
        /\ \A y \in Deliverer : y # Canceller(t) => nt'[y] = nt[y]
    BY <1>1, <1>2, NotifyMoves DEF _REPLAYABLE_STATUSES
  <2>3. /\ cn' \in [TaskId -> CnPc] /\ cn'[t] = "notify"
        /\ \A u \in TaskId : u # t => cn'[u] = cn[u]
    BY <1>1, <1>2, CancelGotoMoves DEF CnPc
  <2>4. TaskMoves(t, Canceller(t))
    BY <1>1, <1>2, <2>2, <2>3, TransitionTables DEF HubTypes, TaskStatus
  <2>5. WorkerFits(t)' /\ RowFits(t)'
    BY <1>1, <2>1 DEF WorkerFits, RowFits, Terminal
  <2>6. \A s \in _REPLAYABLE_STATUSES : Sayable(t, s) => Sayable(t, s)'
    BY <1>1, <2>1 DEF Sayable, RunClosed
  <2>7. Sayable(t, "cancelled")'
    BY <2>1 DEF Sayable
  <2>8. dl'[Canceller(t)].pc = "idle"
    BY <1>1, IdleCanceller
  <2>9. CallerFits(Canceller(t))'
    BY <1>1, <2>2, <2>7, <2>8 DEF CallerFits, _REPLAYABLE_STATUSES
  <2>10. DeliveryInv'
    BY <1>1, ElsewhereInv
  <2> QED
    BY <1>1, <2>3, <2>4, <2>5, <2>6, <2>9, <2>10, CancelStepInv
<1>3. CASE CancelGoto(t, "over") /\ UNCHANGED <<tableVars, nt>>
  BY <1>1, <1>3, CancelQuietInv DEF CnPc, deliveryVars
<1> QED
  BY <1>2, <1>3 DEF cancel_commit

\* The update of the request has been awaited.
LEMMA CancelReturnedInv ==
  ASSUME UpdatesInv, NEW t \in TaskId, cancel_returned(t), CancelFrame
  PROVE  UpdatesInv'
<1>1. /\ cn[t] = "notify" /\ hub = "serving" /\ HubTypes
      /\ WorkerFits(t) /\ RowFits(t) /\ Canceller(t) \in Deliverer
      /\ Returned(Canceller(t)) /\ Forget(Canceller(t)) /\ CancelGoto(t, "over")
      /\ UNCHANGED tableVars /\ UNCHANGED <<receipt, posted, up, mishapVars>>
      /\ UNCHANGED <<routes, replay, hub, wk>>
  BY CancelServes, Callers DEF UpdatesInv, cancel_returned, CancelFrame
<1>2. cn' \in [TaskId -> CnPc] /\ \A u \in TaskId : u # t => cn'[u] = cn[u]
  BY <1>1, CancelGotoMoves DEF CnPc
<1>3. /\ DeliveryInv' /\ nt' \in [Deliverer -> UpdateState]
      /\ nt'[Canceller(t)].pc = "idle" /\ dl'[Canceller(t)].pc = "idle"
      /\ \A y \in Deliverer : y # Canceller(t) => nt'[y] = nt[y] /\ dl'[y] = dl[y]
  BY <1>1, ForgetMoves
<1>4. TaskMoves(t, Canceller(t))
  BY <1>1, <1>2, <1>3, SameTables DEF HubTypes
<1>5. WorkerFits(t)' /\ RowFits(t)'
  BY <1>1 DEF WorkerFits, RowFits, RunClosed, tableVars
<1>6. \A s \in _REPLAYABLE_STATUSES : Sayable(t, s) => Sayable(t, s)'
  BY <1>1 DEF Sayable, RunClosed, tableVars
<1> QED
  BY <1>1, <1>3, <1>4, <1>5, <1>6, CancelStepInv

\* Nothing has been said about a task that is not stored yet.
LEMMA CreateTaskInv ==
  ASSUME UpdatesInv, NEW t \in TaskId, create_task(t)
  PROVE  UpdatesInv'
<1>1. /\ hub = "serving" /\ TableCreate(t, "queued")
      /\ HubTypes /\ DeliveryInv /\ QuietCallers /\ WorkerFits(t)
      /\ UNCHANGED <<receipt, posted, dl, up, mishapVars, nt, replay, hub, wk, cn>>
      /\ routes \subseteq routes' /\ routes' \subseteq routes \cup {t}
  BY DEF UpdatesInv, create_task, deliveryVars, taskVars
<1>2. /\ t \notin DOMAIN status /\ run' = run
      /\ status' = [u \in DOMAIN status \cup {t} |-> IF u = t THEN "queued" ELSE status[u]]
  BY <1>1 DEF TableCreate, Put
<1>3. t \notin DOMAIN run /\ wk[t].pc = "none"
  BY <1>1, <1>2 DEF HubTypes, WorkerFits
<1>4. HubTypes'
  <2>1. status' \in [DOMAIN status' -> TaskStatus] /\ DOMAIN status' = DOMAIN status \cup {t}
    BY <1>1, <1>2 DEF HubTypes, TaskStatus
  <2> QED
    BY <1>1, <1>2, <2>1 DEF HubTypes
<1>5. OthersStay(t)
  BY <1>1, <1>2 DEF OthersStay
<1>6. WorkerFits(t)' /\ RowFits(t)'
  BY <1>1, <1>2, <1>3 DEF WorkerFits, RowFits
<1>7. \A s \in _REPLAYABLE_STATUSES : Sayable(t, s) => Sayable(t, s)'
  BY <1>2 DEF Sayable
<1>8. DeliveryInv'
  BY <1>1, ElsewhereInv
<1>9. SameCaller(Worker(t), t) /\ SameCaller(Canceller(t), t)
  BY <1>1 DEF SameCaller
<1>10. /\ wk'[t].pc \notin {"told", "last"} => nt'[Worker(t)].pc = "idle"
       /\ cn'[t] # "notify" => nt'[Canceller(t)].pc = "idle"
  BY <1>1 DEF QuietCallers
<1> QED
  BY <1>1, <1>4, <1>5, <1>6, <1>7, <1>8, <1>9, <1>10, TaskStepInv

-----------------------------------------------------------------------------
(* The hub.                                                                *)

\* At the first start there are at most tasks that an earlier hub completed.
LEMMA UpdatesInit == Init => UpdatesInv
<1> SUFFICES ASSUME Init PROVE UpdatesInv
  OBVIOUS
<1>1. PICK old : old = IF applied = <<>> THEN {} ELSE Earlier
  OBVIOUS
<1>2. /\ old \subseteq TaskId
      /\ status = [t \in old |-> "completed"]
      /\ run = [t \in old |-> [task |-> t, status |-> "succeeded"]]
      /\ routes = old
  BY <1>1 DEF Init
<1>3. /\ NothingSent /\ up = FALSE /\ nt = [x \in Deliverer |-> NoUpdate] /\ replay = {}
      /\ hub = "down" /\ wk = [t \in TaskId |-> NoWorker] /\ cn = [t \in TaskId |-> "idle"]
  BY DEF Init, NotificationsInit
<1>4. DeliveryInv
  BY <1>3, NothingSentInv
<1>5. Resting
  BY <1>3 DEF Resting, NothingSent, NoUpdate, NoWorker, NoCall
<1>6. \A t \in old : [task |-> t, status |-> "succeeded"] \in RunRow
  BY <1>2 DEF RunRow, RunStatus
<1>7. HubTypes
  <2>1. NoUpdate \in UpdateState /\ NoWorker \in WorkerState
    BY DEF NoUpdate, NoWorker, UpdateState, WorkerState, NtPc, WkPc
  <2>2. /\ nt \in [Deliverer -> UpdateState] /\ wk \in [TaskId -> WorkerState]
        /\ cn \in [TaskId -> CnPc]
    BY <1>3, <2>1 DEF CnPc
  <2>3. /\ status \in [DOMAIN status -> TaskStatus] /\ DOMAIN status = old
        /\ run \in [DOMAIN run -> RunRow] /\ DOMAIN run = old
        /\ \A r \in DOMAIN run : run[r].task = r
    BY <1>2, <1>6 DEF TaskStatus
  <2> QED
    BY <1>2, <1>3, <2>2, <2>3 DEF HubTypes
<1>8. ASSUME NEW t \in TaskId PROVE RowFits(t)
  BY <1>2, <1>3, <1>5 DEF RowFits, RunClosed, Resting, RunTerminal, RunStatus, RunActive
<1>9. PostedFits
  <2>1. ASSUME NEW t \in TaskId, NEW s \in _REPLAYABLE_STATUSES
        PROVE  posted[notification_id(t, s)] = <<>>
    BY <1>3 DEF notification_id, NothingSent
  <2> QED
    BY <2>1 DEF PostedFits
<1>10. RestState
  BY <1>3, <1>4, <1>5, <1>7, <1>8, <1>9 DEF RestState
<1> QED
  BY <1>10, RestingInv

\* A step of notify_task does not end the process.
LEMMA NotifyStepUp ==
  ASSUME UpdatesInv, NEW x \in Deliverer, NotifyStep(x)
  PROVE  UNCHANGED up
<1>1. CASE DeliverStep(x)
  BY <1>1, DeliverStepFrame DEF UpdatesInv
<1>2. CASE ~DeliverStep(x)
  BY <1>2 DEF NotifyStep, notify_task, notify_fault
<1> QED
  BY <1>1, <1>2

\* A step of process_task.
LEMMA ProcessTaskInv ==
  ASSUME UpdatesInv, NEW t \in TaskId, process_task(t)
  PROVE  UpdatesInv'
<1>1. WorkFrame /\ Worker(t) \in Deliverer
  BY Callers DEF process_task
<1>2. CASE NotifyStep(Worker(t)) /\ UNCHANGED <<tableVars, taskVars>>
  <2>1. TasksStay /\ replay' = replay
    BY <1>1, <1>2, NotifyStepUp DEF TasksStay, WorkFrame, tableVars, taskVars
  <2> QED
    BY <1>1, <1>2, <2>1, NotifyStepInv
<1> QED
  BY <1>1, <1>2, ClaimInv, PreparedInv, CreateRunInv, FinishRunInv, CheckCancelledInv,
     FinishTaskInv, WorkerReturnedInv, CloseRunInv, FailInv, PrepareFaultInv,
     CreateRunFaultInv, FinishRunFaultInv, FinishTaskFaultInv DEF process_task

\* A step of cancel_task.
LEMMA CancelTaskInv ==
  ASSUME UpdatesInv, NEW t \in TaskId, cancel_task(t)
  PROVE  UpdatesInv'
<1>1. CancelFrame /\ Canceller(t) \in Deliverer
  BY Callers DEF cancel_task
<1>2. CASE NotifyStep(Canceller(t)) /\ UNCHANGED <<tableVars, cn, killed>>
  <2>1. TasksStay /\ replay' = replay
    BY <1>1, <1>2, NotifyStepUp DEF TasksStay, CancelFrame, tableVars
  <2> QED
    BY <1>1, <1>2, <2>1, NotifyStepInv
<1> QED
  BY <1>1, <1>2, CancelRuntimeInv, CancelCommitInv, CancelReturnedInv DEF cancel_task

\* Every step of the hub preserves the invariant.
LEMMA UpdatesNext ==
  ASSUME UpdatesInv, [Next]_vars
  PROVE  UpdatesInv'
<1>1. CASE UNCHANGED vars
  BY <1>1, HubMoves DEF vars, tableVars, taskVars, deliveryVars, notificationVars
<1>2. CASE Starting \/ start_fault \/ (hub = "stopped" /\ start)
  BY <1>2, StartStepsInv, ReconcileInterruptedInv, ReconcileReceiptsInv,
     ReconcilePendingInv DEF Starting
<1>3. ASSUME NEW t \in TaskId,
             \/ process_task(t) \/ cancel_task(t)
             \/ (cancel_read(t) /\ CancelFrame) \/ create_task(t)
      PROVE  UpdatesInv'
  BY <1>3, ProcessTaskInv, CancelTaskInv, CancelReadInv, CreateTaskInv
<1>4. CASE \/ crash \/ stop \/ clock_catches_up \/ operator_begins \/ operator_command
           \/ operator_killed
  BY <1>4, ProcessLostInv, StartStepsInv
<1> QED
  BY <1>1, <1>2, <1>3, <1>4 DEF Next

-----------------------------------------------------------------------------
(* What a step of the hub does to receipts and to Slack.                   *)

\* A call of deliver goes on, or the reservations are released, or nothing moves.
LEMMA DeliverySteps ==
  ASSUME UpdatesInv, [Next]_vars
  PROVE  \/ UNCHANGED <<receipt, posted>>
         \/ posted' = posted /\ reconcile_reserved_deliveries
         \/ \E x \in Deliverer : DeliverStep(x)
<1> USE DEF tableVars, taskVars, deliveryVars, notificationVars
<1>1. CASE UNCHANGED vars
  BY <1>1 DEF vars
<1>2. CASE start \/ start_fault \/ opening \/ start_failed \/ serve \/ reconcile_interrupted
  BY <1>2 DEF start, start_fault, opening, start_failed, serve, reconcile_interrupted
<1>3. CASE reconcile_receipts
  BY <1>3 DEF reconcile_receipts, ReceiptsReconciled
<1>4. ASSUME NEW x \in Deliverer, NotifyStep(x)
      PROVE  UNCHANGED <<receipt, posted>> \/ DeliverStep(x)
  BY <1>4 DEF NotifyStep, notify_task, notify_fault
<1>5. CASE reconcile_pending
  BY <1>4, <1>5, Callers
  DEF reconcile_pending, ReplayStep, replay_route, replay_returned, replay_fault
<1>6. ASSUME NEW t \in TaskId, process_task(t)
      PROVE  UNCHANGED <<receipt, posted>> \/ \E x \in Deliverer : DeliverStep(x)
  <2>1. CASE NotifyStep(Worker(t))
    BY <1>4, <2>1, Callers
  <2>2. CASE ~NotifyStep(Worker(t))
    BY <1>6, <2>2
    DEF process_task, claim, prepared, Report, WorkerRefused, Raises, Ends, create_run,
        finish_run, check_cancelled, finish_task, worker_returned, close_run, _fail,
        prepare_fault, create_run_fault, finish_run_fault, finish_task_fault
  <2> QED
    BY <2>1, <2>2
<1>7. ASSUME NEW t \in TaskId, cancel_task(t)
      PROVE  UNCHANGED <<receipt, posted>> \/ \E x \in Deliverer : DeliverStep(x)
  BY <1>4, <1>7, Callers
  DEF cancel_task, cancel_runtime, cancel_commit, cancel_returned
<1>8. ASSUME NEW t \in TaskId, cancel_read(t) \/ create_task(t)
      PROVE  UNCHANGED <<receipt, posted>>
  BY <1>8 DEF cancel_read, create_task
<1>9. CASE crash \/ stop
  BY <1>9 DEF crash, stop, ProcessLost
<1>10. CASE clock_catches_up \/ operator_begins \/ operator_command \/ operator_killed
  BY <1>10 DEF clock_catches_up, operator_begins, operator_command, operator_killed,
               CommandFrame
<1> QED
  BY <1>1, <1>2, <1>3, <1>5, <1>6, <1>7, <1>8, <1>9, <1>10 DEF Next, Starting

-----------------------------------------------------------------------------
(* Failed tasks, as long as no call failed.                                *)

\* No run, or a failed one.
NoneOrFailed(t) == t \in DOMAIN run => run[t].status = "failed"

\* What a failed task, and one on its way there, says about the run.
FailedRow(t) ==
    t \in DOMAIN status =>
      /\ status[t] = "failed" => NoneOrFailed(t)
      /\ wk[t].pc = "except" =>
           status[t] = "cancelled" \/ t \notin DOMAIN run \/ run[t].status \in RunActive
      /\ wk[t].pc = "fail" => status[t] = "cancelled" \/ NoneOrFailed(t)

\* The same of an update that is delivered, and of one that was posted.
FailedCall(x) ==
    dl[x].pc # "idle" =>
      \A t \in TaskId :
        dl[x].id = notification_id(t, "failed") => dl[x].text.runtime \in {"none", "failed"}

FailedPosted ==
    \A t \in TaskId : \A i \in DOMAIN posted[notification_id(t, "failed")] :
      posted[notification_id(t, "failed")][i].runtime \in {"none", "failed"}

CleanInv ==
    failed = 0 => /\ \A t \in TaskId : FailedRow(t)
                  /\ \A x \in Deliverer : FailedCall(x)
                  /\ FailedPosted

\* A step of the worker of t, with no failing call.
LEMMA FailedRowWork ==
  ASSUME UpdatesInv, NEW t \in TaskId, FailedRow(t), process_task(t), ~CallFails
  PROVE  FailedRow(t)'
<1> USE DEF At, NoneOrFailed
<1>1. HubTypes /\ WorkerFits(t) /\ RowFits(t)
  BY DEF UpdatesInv
<1>2. CASE claim(t)
  <2>1. run' = run /\ status'[t] = "planning" /\ wk'[t].pc = "prepare"
    BY <1>1, <1>2, TransitionMoves, GotoMoves DEF claim, TaskStatus, WkPc
  <2> QED
    BY <2>1 DEF FailedRow
<1>3. ASSUME NEW s \in TaskStatus, NEW p \in {"told", "last"}, Report(t, s, p),
             s = "failed" => NoneOrFailed(t)
      PROVE  FailedRow(t)'
  <2>1. run' = run /\ status'[t] = s /\ wk'[t].pc = p
    BY <1>1, <1>3, TransitionMoves, GotoMoves DEF Report, WkPc
  <2> QED
    BY <1>3, <2>1 DEF FailedRow
<1>4. ASSUME NEW p \in WkPc, Goto(t, p), UNCHANGED tableVars,
             /\ p = "except" =>
                  status[t] = "cancelled" \/ t \notin DOMAIN run \/ run[t].status \in RunActive
             /\ p = "fail" => status[t] = "cancelled" \/ NoneOrFailed(t)
      PROVE  FailedRow(t)'
  <2>1. wk'[t].pc = p /\ status' = status /\ run' = run
    BY <1>1, <1>4, GotoMoves DEF tableVars
  <2> QED
    BY <1>4, <2>1 DEF FailedRow
<1>5. CASE prepared(t)
  <2>1. t \notin DOMAIN run
    BY <1>1, <1>5 DEF prepared, WorkerFits
  <2>2. CASE WorkerRefused(t, "running")
    BY <1>4, <2>1, <2>2 DEF WorkerRefused, Raises, WkPc
  <2> QED
    BY <1>3, <1>5, <2>1, <2>2 DEF prepared, TaskStatus
<1>6. CASE create_run(t)
  <2>1. /\ status' = status /\ wk'[t].pc = "exec"
        /\ status[t] \in {"running", "cancelled"} /\ t \in DOMAIN status
    BY <1>1, <1>6, GotoMoves DEF create_run, WkPc, WorkerFits
  <2> QED
    BY <2>1 DEF FailedRow
<1>7. CASE finish_run(t)
  <2>1. /\ status' = status /\ wk'[t].pc = "check"
        /\ status[t] \in {"running", "cancelled"} /\ t \in DOMAIN status
    BY <1>1, <1>7 DEF finish_run, TableFinishRun, WorkerFits, HubTypes
  <2> QED
    BY <2>1 DEF FailedRow
<1>8. CASE check_cancelled(t)
  BY <1>4, <1>8 DEF check_cancelled, WkPc
<1>9. CASE finish_task(t)
  <2>1. PICK s : s = Outcome(wk[t].result)
    OBVIOUS
  <2>2. /\ t \in DOMAIN run /\ run[t].status = wk[t].result
        /\ wk[t].result \in {"succeeded", "failed", "cancelled"}
        /\ status[t] \in {"running", "cancelled"}
    BY <1>1, <1>9 DEF finish_task, WorkerFits, HubTypes, WorkerState
  <2>3. /\ s \in {"completed", "cancelled", "failed"} /\ s \in TaskStatus
        /\ s = "failed" => run[t].status = "failed"
    BY <2>1, <2>2 DEF Outcome, TaskStatus
  <2>4. CASE WorkerRefused(t, s)
    <3>1. status[t] = "cancelled"
      <4>1. s \in LEGAL_TASK_TRANSITIONS["running"]
        BY <2>3 DEF LEGAL_TASK_TRANSITIONS, TaskStatus, Terminal
      <4> QED
        BY <2>2, <2>4, <4>1 DEF WorkerRefused, can_transition
    <3> QED
      BY <1>4, <2>4, <3>1 DEF WorkerRefused, Raises, WkPc
  <2>5. CASE Report(t, s, "last")
    BY <1>3, <2>3, <2>5
  <2> QED
    BY <1>9, <2>1, <2>4, <2>5 DEF finish_task
<1>10. ASSUME wk' = [wk EXCEPT ![t] = NoWorker], UNCHANGED tableVars
       PROVE  FailedRow(t)'
  <2>1. wk'[t].pc = "none" /\ status' = status /\ run' = run
    BY <1>1, <1>10 DEF HubTypes, NoWorker, tableVars
  <2> QED
    BY <2>1 DEF FailedRow
<1>11. CASE worker_returned(t)
  BY <1>10, <1>11 DEF worker_returned
<1>12. CASE close_run(t)
  <2>1. wk[t].pc = "except" /\ Goto(t, "fail") /\ t \in DOMAIN status
    BY <1>1, <1>12 DEF close_run, WorkerFits
  <2>2. CASE t \in DOMAIN run /\ run[t].status \in RunActive
    <3>1. TableFinishRun(t, "failed")
      BY <1>12, <2>2 DEF close_run
    <3>2. run[t] \in RunRow /\ run' = [run EXCEPT ![t].status = "failed"]
      BY <1>1, <2>2, <3>1 DEF HubTypes, TableFinishRun
    <3>3. run'[t].status = "failed" /\ status' = status /\ wk'[t].pc = "fail"
      BY <1>1, <2>1, <2>2, <3>1, <3>2, GotoMoves DEF TableFinishRun, RunRow, WkPc
    <3> QED
      BY <3>3 DEF FailedRow
  <2>3. CASE ~(t \in DOMAIN run /\ run[t].status \in RunActive)
    <3>1. UNCHANGED tableVars
      BY <1>12, <2>3 DEF close_run
    <3>2. status[t] = "cancelled" \/ NoneOrFailed(t)
      BY <2>1, <2>3 DEF FailedRow
    <3> QED
      BY <1>4, <2>1, <3>1, <3>2 DEF WkPc
  <2> QED
    BY <2>2, <2>3
<1>13. CASE _fail(t)
  <2>1. wk[t].pc = "fail" /\ t \in DOMAIN status
    BY <1>1, <1>13 DEF _fail, WorkerFits
  <2>2. CASE Report(t, "failed", "last")
    <3>1. status[t] \notin Terminal
      BY <1>1, <2>2, TransitionMoves DEF Report, TaskStatus
    <3>2. NoneOrFailed(t)
      BY <2>1, <3>1 DEF FailedRow, Terminal
    <3> QED
      BY <1>3, <2>2, <3>2 DEF TaskStatus
  <2>3. CASE Ends(t)
    BY <1>10, <2>3 DEF Ends
  <2> QED
    BY <1>13, <2>2, <2>3 DEF _fail
<1>14. CASE finish_run_fault(t)
  <2>1. run[t].status \in RunActive
    BY <1>1, <1>14 DEF finish_run_fault, WorkerFits, RunActive
  <2> QED
    BY <1>4, <1>14, <2>1 DEF finish_run_fault, Raises, WkPc
<1>15. CASE UNCHANGED <<tableVars, taskVars>>
  BY <1>15 DEF tableVars, taskVars, FailedRow
<1> QED
  BY <1>2, <1>5, <1>6, <1>7, <1>8, <1>9, <1>11, <1>12, <1>13, <1>14, <1>15
  DEF process_task, prepare_fault, create_run_fault, finish_task_fault

\* The worker of u leaves the other tasks alone.
LEMMA FailedRowOther ==
  ASSUME UpdatesInv, NEW t \in TaskId, NEW u \in TaskId, u # t, FailedRow(t), process_task(u)
  PROVE  FailedRow(t)'
<1>1. wk \in [TaskId -> WorkerState] /\ status \in [DOMAIN status -> TaskStatus]
      /\ run \in [DOMAIN run -> RunRow]
  BY DEF UpdatesInv, HubTypes
<1>2. wk'[t] = wk[t]
  BY <1>1
  DEF process_task, claim, prepared, Report, WorkerRefused, Raises, Ends, create_run,
      finish_run, check_cancelled, finish_task, worker_returned, close_run, _fail,
      prepare_fault, create_run_fault, finish_run_fault, finish_task_fault, Goto, taskVars
<1>3. DOMAIN status' = DOMAIN status /\ (t \in DOMAIN status => status'[t] = status[t])
  BY <1>1
  DEF process_task, claim, prepared, Report, WorkerRefused, Raises, Ends, create_run,
      finish_run, check_cancelled, finish_task, worker_returned, close_run, _fail,
      prepare_fault, create_run_fault, finish_run_fault, finish_task_fault, tableVars,
      TableTransition, TableFinishRun
<1>4. (t \in DOMAIN run' <=> t \in DOMAIN run) /\ (t \in DOMAIN run => run'[t] = run[t])
  BY <1>1
  DEF process_task, claim, prepared, Report, WorkerRefused, Raises, Ends, create_run,
      finish_run, check_cancelled, finish_task, worker_returned, close_run, _fail,
      prepare_fault, create_run_fault, finish_run_fault, finish_task_fault, tableVars,
      TableTransition, TableFinishRun, Put
<1> QED
  BY <1>2, <1>3, <1>4 DEF FailedRow, NoneOrFailed

\* Every step keeps what is known of failed tasks, unless a call fails.
LEMMA FailedRowNext ==
  ASSUME UpdatesInv, [Next]_vars, ~CallFails, NEW t \in TaskId, FailedRow(t)
  PROVE  FailedRow(t)'
<1> USE DEF tableVars, taskVars, NoneOrFailed
<1>1. HubTypes /\ WorkerFits(t)
  BY DEF UpdatesInv
<1>2. ASSUME UNCHANGED <<status, run, wk>> PROVE FailedRow(t)'
  BY <1>2 DEF FailedRow
<1>3. CASE UNCHANGED vars
  BY <1>2, <1>3 DEF vars
<1>4. CASE \/ start \/ start_fault \/ opening \/ start_failed \/ serve
           \/ reconcile_receipts \/ reconcile_pending
  BY <1>2, <1>4 DEF start, start_fault, opening, start_failed, serve, reconcile_receipts,
                    reconcile_pending, StartFrame
<1>5. CASE reconcile_interrupted
  <2>1. /\ wk' = wk /\ wk[t].pc = "none"
        /\ DOMAIN status' = DOMAIN status /\ DOMAIN run' = DOMAIN run
        /\ t \in DOMAIN status => (status'[t] = "failed" => status[t] = "failed")
        /\ t \in DOMAIN run => (run[t].status = "failed" => run'[t] = run[t])
    BY <1>1, <1>5 DEF reconcile_interrupted, TableReconcile, WorkerFits, RunActive
  <2> QED
    BY <2>1 DEF FailedRow
<1>6. ASSUME NEW u \in TaskId, process_task(u) PROVE FailedRow(t)'
  BY <1>6, FailedRowWork, FailedRowOther
<1>7. ASSUME NEW u \in TaskId, TableTransition(u, "cancelled"), wk' = wk
      PROVE  FailedRow(t)'
  <2>1. /\ DOMAIN status' = DOMAIN status /\ run' = run
        /\ status'[t] = IF t = u THEN "cancelled" ELSE status[t]
    BY <1>1, <1>7 DEF TableTransition, HubTypes
  <2> QED
    BY <1>7, <2>1 DEF FailedRow
<1>8. ASSUME NEW u \in TaskId, cancel_task(u) \/ (cancel_read(u) /\ CancelFrame)
      PROVE  FailedRow(t)'
  BY <1>2, <1>7, <1>8
  DEF cancel_task, cancel_runtime, cancel_commit, cancel_returned, cancel_read, CancelFrame
<1>9. ASSUME NEW u \in TaskId, create_task(u) PROVE FailedRow(t)'
  <2>1. /\ u \notin DOMAIN status /\ wk' = wk /\ run' = run
        /\ status' = [v \in DOMAIN status \cup {u} |-> IF v = u THEN "queued" ELSE status[v]]
    BY <1>9 DEF create_task, TableCreate, Put
  <2>2. t = u => wk[t].pc = "none"
    BY <1>1, <2>1 DEF WorkerFits
  <2> QED
    BY <2>1, <2>2 DEF FailedRow
<1>10. CASE crash \/ stop
  <2>1. UNCHANGED <<status, run>> /\ wk'[t].pc = "none"
    BY <1>10 DEF crash, stop, ProcessLost, NoWorker
  <2> QED
    BY <2>1 DEF FailedRow
<1>11. CASE clock_catches_up \/ operator_begins \/ operator_command \/ operator_killed
  BY <1>2, <1>11 DEF clock_catches_up, operator_begins, operator_command, operator_killed,
                     CommandFrame
<1> QED
  BY <1>3, <1>4, <1>5, <1>6, <1>8, <1>9, <1>10, <1>11 DEF Next, Starting

\* A call of deliver begins in notify_task, goes on, is dropped, or stays.
LEMMA CallSteps ==
  ASSUME UpdatesInv, [Next]_vars, NEW x \in Deliverer
  PROVE  dl'[x] = dl[x] \/ dl'[x].pc = "idle" \/ notify_task(x) \/ DeliverStep(x)
<1> USE DEF tableVars, taskVars, deliveryVars, notificationVars
<1>0. dl \in [Deliverer -> Call] /\ DeliveryInv /\ NoCall.pc = "idle"
  BY DEF UpdatesInv, DeliveryInv, DeliveryTypeOK, Call, NoCall
<1>1. CASE UNCHANGED dl
  BY <1>1
<1>2. ASSUME NEW y \in Deliverer, NotifyStep(y)
      PROVE  dl'[x] = dl[x] \/ notify_task(x) \/ DeliverStep(x)
  <2>1. CASE notify_task(y)
    BY <1>0, <2>1 DEF notify_task, deliver
  <2>2. CASE DeliverStep(y)
    BY <1>0, <2>2, DeliverStepFrame DEF OnlyMoves
  <2> QED
    BY <1>2, <2>1, <2>2 DEF NotifyStep, notify_fault
<1>3. ASSUME NEW y \in Deliverer, Forget(y)
      PROVE  dl'[x] = dl[x] \/ dl'[x].pc = "idle"
  BY <1>0, <1>3 DEF Forget
<1>4. CASE UNCHANGED vars
  BY <1>1, <1>4 DEF vars
<1>5. CASE \/ start \/ start_fault \/ opening \/ start_failed \/ serve
           \/ reconcile_interrupted \/ reconcile_receipts
  BY <1>1, <1>5 DEF start, start_fault, opening, start_failed, serve,
                    reconcile_interrupted, reconcile_receipts, ReceiptsReconciled
<1>6. CASE reconcile_pending
  BY <1>1, <1>2, <1>3, <1>6, Callers
  DEF reconcile_pending, ReplayStep, replay_route, replay_returned, replay_fault
<1>7. ASSUME NEW t \in TaskId, process_task(t)
      PROVE  dl'[x] = dl[x] \/ dl'[x].pc = "idle" \/ notify_task(x) \/ DeliverStep(x)
  <2>1. CASE NotifyStep(Worker(t))
    BY <1>2, <2>1, Callers
  <2>2. CASE Forget(Worker(t))
    BY <1>3, <2>2, Callers
  <2>3. CASE ~NotifyStep(Worker(t)) /\ ~Forget(Worker(t))
    BY <1>1, <1>7, <2>3
    DEF process_task, claim, prepared, Report, WorkerRefused, Raises, Ends, create_run,
        finish_run, check_cancelled, finish_task, worker_returned, close_run, _fail,
        prepare_fault, create_run_fault, finish_run_fault, finish_task_fault
  <2> QED
    BY <2>1, <2>2, <2>3
<1>8. ASSUME NEW t \in TaskId, cancel_task(t)
      PROVE  dl'[x] = dl[x] \/ dl'[x].pc = "idle" \/ notify_task(x) \/ DeliverStep(x)
  BY <1>1, <1>2, <1>3, <1>8, Callers
  DEF cancel_task, cancel_runtime, cancel_commit, cancel_returned
<1>9. ASSUME NEW t \in TaskId, cancel_read(t) \/ create_task(t)
      PROVE  dl'[x] = dl[x]
  BY <1>9 DEF cancel_read, create_task
<1>10. CASE crash \/ stop
  BY <1>0, <1>10 DEF crash, stop, ProcessLost
<1>11. CASE clock_catches_up \/ operator_begins \/ operator_command \/ operator_killed
  BY <1>1, <1>11 DEF clock_catches_up, operator_begins, operator_command, operator_killed,
                     CommandFrame
<1> QED
  BY <1>4, <1>5, <1>6, <1>7, <1>8, <1>9, <1>10, <1>11 DEF Next, Starting

\* An update that reports a failed task is composed from its row and its run.
LEMMA FailedCallNext ==
  ASSUME UpdatesInv, [Next]_vars, \A t \in TaskId : FailedRow(t),
         NEW x \in Deliverer, FailedCall(x)
  PROVE  FailedCall(x)'
<1>1. CASE dl'[x] = dl[x] \/ dl'[x].pc = "idle"
  BY <1>1 DEF FailedCall
<1>2. CASE DeliverStep(x)
  <2>1. dl[x].pc # "idle" /\ dl'[x].id = dl[x].id /\ dl'[x].text = dl[x].text
    BY <1>2, DeliverStepFrame DEF UpdatesInv
  <2> QED
    BY <2>1 DEF FailedCall
<1>3. CASE notify_task(x) /\ dl'[x].pc # "idle"
  <2>1. PICK t, s : t = nt[x].task /\ s = nt[x].status
    OBVIOUS
  <2>2. /\ HubTypes /\ CallerFits(x) /\ nt[x].pc = "notify" /\ dl \in [Deliverer -> Call]
    BY <1>3 DEF UpdatesInv, notify_task, DeliveryInv, DeliveryTypeOK, Call
  <2>3. t \in TaskId /\ Sayable(t, s) /\ dl[x].pc = "idle"
    BY <2>1, <2>2 DEF CallerFits
  <2>4. deliver(x, notification_id(t, s), _task_update(t, s))
    BY <1>3, <2>1, <2>3 DEF notify_task
  <2>5. PICK text : text = _task_update(t, s)
    OBVIOUS
  <2>6. dl'[x].id = notification_id(t, s) /\ dl'[x].text = text
    BY <2>2, <2>4, <2>5 DEF deliver
  <2>7. s = "failed" => LatestRun(t) \in {"none", "failed"}
    BY <2>2, <2>3, LatestRunIs DEF Sayable, Terminal, FailedRow, NoneOrFailed
  <2>8. s = "failed" => text.runtime \in {"none", "failed"}
    BY <2>5, <2>7 DEF _task_update
  <2>9. \A u \in TaskId : notification_id(t, s) = notification_id(u, "failed") => s = "failed"
    BY DEF notification_id
  <2> QED
    BY <2>6, <2>8, <2>9 DEF FailedCall
<1> QED
  BY <1>1, <1>2, <1>3, CallSteps

\* What is posted is what a call delivers.
LEMMA FailedPostedNext ==
  ASSUME UpdatesInv, [Next]_vars, FailedPosted, \A x \in Deliverer : FailedCall(x)
  PROVE  FailedPosted'
<1>1. CASE posted' = posted
  BY <1>1 DEF FailedPosted
<1>2. CASE posted' # posted
  <2>1. PICK x \in Deliverer : DeliverStep(x)
    BY <1>2, DeliverySteps
  <2>2. PICK d, text : d = dl[x].id /\ text = dl[x].text
    OBVIOUS
  <2>3. /\ dl[x].pc # "idle" /\ Post(x) /\ posted \in [DeliveryId -> Seq(Text)]
        /\ d \in DeliveryId /\ text \in Text
    BY <1>2, <2>1, <2>2, DeliverStepFrame, CallIsLive DEF UpdatesInv, DeliveryInv, DeliveryTypeOK
  <2>4. posted' = [posted EXCEPT ![d] = Append(posted[d], text)]
    BY <2>2, <2>3 DEF Post
  <2> SUFFICES ASSUME NEW t \in TaskId, NEW e, e = notification_id(t, "failed"),
                      NEW i \in DOMAIN posted'[e]
               PROVE  posted'[e][i].runtime \in {"none", "failed"}
    BY DEF FailedPosted
  <2>5. e \in DeliveryId
    BY DEF notification_id, _REPLAYABLE_STATUSES
  <2>6. CASE e = d
    <3>1. posted'[e] = Append(posted[e], text) /\ posted[e] \in Seq(Text)
      BY <2>3, <2>4, <2>6
    <3>2. text.runtime \in {"none", "failed"}
      BY <2>2, <2>3, <2>6 DEF FailedCall
    <3>3. i \in DOMAIN posted[e] => posted'[e][i] = posted[e][i]
      BY <2>3, <3>1
    <3>4. i \notin DOMAIN posted[e] => posted'[e][i] = text
      BY <2>3, <3>1
    <3> QED
      BY <3>2, <3>3, <3>4 DEF FailedPosted
  <2>7. CASE e # d
    <3>1. posted'[e] = posted[e]
      BY <2>3, <2>4, <2>5, <2>7
    <3> QED
      BY <3>1 DEF FailedPosted
  <2> QED
    BY <2>6, <2>7
<1> QED
  BY <1>1, <1>2

\* Mishaps are counted one at a time.
LEMMA MishapSteps ==
  ASSUME [Next]_vars
  PROVE  UNCHANGED mishapVars \/ CallFails \/ HubDies
<1> USE DEF deliveryVars
<1>1. CASE UNCHANGED vars
  BY <1>1 DEF vars
<1>2. CASE start \/ start_fault \/ opening \/ start_failed \/ serve \/ reconcile_interrupted
  BY <1>2 DEF start, start_fault, opening, start_failed, serve, reconcile_interrupted
<1>3. CASE reconcile_receipts
  BY <1>3 DEF reconcile_receipts, ReceiptsReconciled
<1>4. ASSUME NEW x, NotifyStep(x)
      PROVE  UNCHANGED mishapVars \/ CallFails \/ HubDies
  BY <1>4
  DEF NotifyStep, notify_task, notify_fault, DeliverStep, is_delivered, reserve_delivery,
      send_ok, send_error, mark_delivered, release_delivery, receipt_fault
<1>5. CASE reconcile_pending
  BY <1>4, <1>5
  DEF reconcile_pending, ReplayStep, replay_route, replay_returned, replay_fault
<1>6. ASSUME NEW t \in TaskId, process_task(t)
      PROVE  UNCHANGED mishapVars \/ CallFails \/ HubDies
  BY <1>4, <1>6
  DEF process_task, claim, prepared, Report, WorkerRefused, create_run, finish_run,
      check_cancelled, finish_task, worker_returned, close_run, _fail, prepare_fault,
      create_run_fault, finish_run_fault, finish_task_fault
<1>7. ASSUME NEW t \in TaskId, cancel_task(t)
      PROVE  UNCHANGED mishapVars \/ CallFails \/ HubDies
  BY <1>4, <1>7 DEF cancel_task, cancel_runtime, cancel_commit, cancel_returned
<1>8. ASSUME NEW t \in TaskId, cancel_read(t) \/ create_task(t)
      PROVE  UNCHANGED mishapVars
  BY <1>8 DEF cancel_read, create_task
<1>9. CASE crash \/ stop
  BY <1>9 DEF crash, stop, ProcessLost
<1>10. CASE clock_catches_up \/ operator_begins \/ operator_command \/ operator_killed
  BY <1>10 DEF clock_catches_up, operator_begins, operator_command, operator_killed,
               CommandFrame
<1> QED
  BY <1>1, <1>2, <1>3, <1>5, <1>6, <1>7, <1>8, <1>9, <1>10 DEF Next, Starting

\* A call that failed is counted for ever.
LEMMA FailedCounts ==
  ASSUME UpdatesInv, UpdatesInv', [Next]_vars, failed' = 0
  PROVE  failed = 0 /\ ~CallFails
<1>1. failed \in Nat /\ failed' \in Nat
  BY DEF UpdatesInv, DeliveryInv, DeliveryTypeOK
<1>2. UNCHANGED mishapVars \/ CallFails \/ HubDies
  BY MishapSteps
<1> QED
  BY <1>1, <1>2 DEF mishapVars, CallFails, HubDies

\* The invariants imply that what Slack shows is true.
LEMMA UpdatesInvImplies == UpdatesInv /\ CleanInv => UpdateIsTrue
<1> SUFFICES ASSUME UpdatesInv, CleanInv, NEW t \in TaskId, NEW s \in _REPLAYABLE_STATUSES,
                    NEW i \in DOMAIN posted[notification_id(t, s)]
             PROVE  LET text == posted[notification_id(t, s)][i] IN
                    /\ s \in Terminal => status[t] = s
                    /\ text.runtime \in
                         CASE s = "running"   -> {"none"}
                           [] s = "blocked"   -> RunTerminal \cup {"none"}
                           [] s = "completed" -> {"succeeded"}
                           [] s = "failed" /\ failed = 0 -> {"none", "failed"}
                           [] OTHER           -> RunStatus \cup {"none"}
  BY DEF UpdateIsTrue
<1>1. /\ s \in Terminal => status[t] = s
      /\ posted[notification_id(t, s)][i].runtime \in RuntimeLine(s)
  BY DEF UpdatesInv, PostedFits, Sayable
<1>2. s = "failed" /\ failed = 0 =>
        posted[notification_id(t, s)][i].runtime \in {"none", "failed"}
  BY DEF CleanInv, FailedPosted
<1> QED
  BY <1>1, <1>2 DEF RuntimeLine, _REPLAYABLE_STATUSES

\* At the first start no task has failed and nothing was posted.
LEMMA CleanInit == Init => CleanInv
<1> SUFFICES ASSUME Init PROVE CleanInv
  OBVIOUS
<1>1. \A t \in DOMAIN status : status[t] = "completed"
  BY DEF Init
<1>2. /\ \A t \in TaskId : wk[t].pc = "none"
      /\ \A x \in Deliverer : dl[x].pc = "idle"
      /\ \A d \in DeliveryId : posted[d] = <<>>
  BY DEF Init, NotificationsInit, NothingSent, NoCall, NoWorker
<1>3. \A t \in TaskId : notification_id(t, "failed") \in DeliveryId
  BY DEF notification_id, _REPLAYABLE_STATUSES
<1> QED
  BY <1>1, <1>2, <1>3 DEF CleanInv, FailedRow, FailedCall, FailedPosted

\* Every step preserves the second invariant.
LEMMA CleanNext ==
  ASSUME UpdatesInv, UpdatesInv', CleanInv, [Next]_vars
  PROVE  CleanInv'
<1> SUFFICES ASSUME failed' = 0
             PROVE  /\ \A t \in TaskId : FailedRow(t)'
                    /\ \A x \in Deliverer : FailedCall(x)'
                    /\ FailedPosted'
  BY DEF CleanInv
<1>1. failed = 0 /\ ~CallFails
  BY FailedCounts
<1>2. /\ \A t \in TaskId : FailedRow(t)
      /\ \A x \in Deliverer : FailedCall(x)
      /\ FailedPosted
  BY <1>1 DEF CleanInv
<1> QED
  BY <1>1, <1>2, FailedRowNext, FailedCallNext, FailedPostedNext

\* What Slack shows is true, for every number of tasks, callers and mishaps: no task
\* is reported with an outcome it does not have, nor with a run that contradicts it,
\* the store calls of process_task failing anywhere; only once one has may a failed
\* task be shown beside a run that did not fail (notify_task, process_task, cancel_task).
THEOREM HubUpdateIsTrue == Spec => []UpdateIsTrue
<1>1. Init => UpdatesInv /\ CleanInv
  BY UpdatesInit, CleanInit
<1>2. UpdatesInv /\ CleanInv /\ [Next]_vars => UpdatesInv' /\ CleanInv'
  BY UpdatesNext, CleanNext
<1>3. UpdatesInv /\ CleanInv => UpdateIsTrue
  BY UpdatesInvImplies
<1> QED
  BY <1>1, <1>2, <1>3, PTL DEF Spec

-----------------------------------------------------------------------------
(* Running updates.                                                        *)

\* What RunningNotAfterOutcome says of one step.
RunningFirst ==
    \A t \in TaskId :
      posted'[notification_id(t, "running")] # posted[notification_id(t, "running")]
        => \A s \in {"blocked", "completed", "failed"} : ~Posted(t, s)

\* Who posts a running update has a worker that waits for it, so the work has not
\* ended and no end was posted.
LEMMA RunningFirstStep ==
  ASSUME UpdatesInv, [Next]_vars
  PROVE  RunningFirst
<1> SUFFICES ASSUME NEW t \in TaskId, NEW s \in {"blocked", "completed", "failed"},
                    posted'[notification_id(t, "running")]
                      # posted[notification_id(t, "running")],
                    Posted(t, s)
             PROVE  FALSE
  BY DEF RunningFirst
<1>1. PICK x \in Deliverer : DeliverStep(x)
  BY DeliverySteps
<1>2. dl[x].pc # "idle" /\ Post(x) /\ CallerFits(x) /\ PostedFits /\ WorkerFits(t)
      /\ posted \in [DeliveryId -> Seq(Text)]
  BY <1>1, DeliverStepFrame DEF UpdatesInv, DeliveryInv, DeliveryTypeOK
<1>3. PICK u, v, d : u = nt[x].task /\ v = nt[x].status /\ d = dl[x].id
  OBVIOUS
<1>4. /\ u \in TaskId /\ v \in _REPLAYABLE_STATUSES /\ d = notification_id(u, v)
      /\ v = "running" => wk[u].pc = "told"
  BY <1>2, <1>3 DEF CallerFits
<1>5. \A e \in DeliveryId : e # d => posted'[e] = posted[e]
  BY <1>2, <1>3 DEF Post
<1>6. notification_id(t, "running") = d
  BY <1>5 DEF notification_id, _REPLAYABLE_STATUSES
<1>7. wk[t].pc = "told"
  BY <1>4, <1>6 DEF notification_id
<1>8. notification_id(t, s) \in DeliveryId /\ s \in _REPLAYABLE_STATUSES
  BY DEF notification_id, _REPLAYABLE_STATUSES
<1>9. \E i : i \in DOMAIN posted[notification_id(t, s)]
  <2>1. posted[notification_id(t, s)] \in Seq(Text) /\ posted[notification_id(t, s)] # <<>>
    BY <1>2, <1>8 DEF Posted
  <2>2. PICK q : q = posted[notification_id(t, s)]
    OBVIOUS
  <2>3. q \in Seq(Text) /\ q # <<>>
    BY <2>1, <2>2
  <2>4. 1 \in DOMAIN q
    BY <2>3
  <2> QED
    BY <2>2, <2>4
<1>10. Sayable(t, s)
  BY <1>2, <1>8, <1>9 DEF PostedFits
<1> QED
  BY <1>2, <1>7, <1>10 DEF Sayable, WorkerFits, Terminal

\* A running update is never posted after one that reports how the work ended
\* (process_task awaits it before it goes on).
THEOREM HubRunningNotAfterOutcome == Spec => RunningNotAfterOutcome
<1>1. Init => UpdatesInv
  BY UpdatesInit
<1>2. UpdatesInv /\ [Next]_vars => UpdatesInv'
  BY UpdatesNext
<1>3. UpdatesInv /\ [Next]_vars
        => [\A t \in TaskId :
              posted'[notification_id(t, "running")] # posted[notification_id(t, "running")]
                => \A s \in {"blocked", "completed", "failed"} : ~Posted(t, s)]_vars
  BY RunningFirstStep DEF RunningFirst
<1> QED
  BY <1>1, <1>2, <1>3, PTL DEF Spec, RunningNotAfterOutcome

\* Under the callers the hub really has: one sender per message, every receipt
\* stands for a message, every further copy is paid for by a mishap (deliver).
THEOREM HubDeliverySafe ==
  Spec => [](OneSender /\ DeliveredWasPosted /\ CopiesArePaidFor)
<1>1. Init => UpdatesInv
  BY UpdatesInit
<1>2. UpdatesInv /\ [Next]_vars => UpdatesInv'
  BY UpdatesNext
<1>3. UpdatesInv => OneSender /\ DeliveredWasPosted /\ CopiesArePaidFor
  BY DeliveryInvImplies DEF UpdatesInv, DeliveryInv
<1> QED
  BY <1>1, <1>2, <1>3, PTL DEF Spec

-----------------------------------------------------------------------------
(* reconcile_pending: the inductive invariant of the replay.               *)

\* The update under way is that of the route visited.
VisitFits ==
    nt[Startup].pc # "idle" =>
      /\ replay # {} /\ nt[Startup].task = Visited
      /\ nt[Startup].status = status[Visited]
      /\ nt[Startup].pc # "skipped"

\* A call that ended without raising leaves a delivered receipt, ...
CallSettles ==
    dl[Startup].pc \in {"duplicate", "in-progress", "sent"} =>
      receipt[dl[Startup].id] = "delivered"

\* ... because nobody but the replay holds a reservation for a route to come.
NobodyReserved ==
    \A t \in replay, s \in _REPLAYABLE_STATUSES :
      receipt[notification_id(t, s)] = "reserved" =>
        /\ Sending(Startup) \/ DlAt(Startup, "failed")
        /\ dl[Startup].id = notification_id(t, s)

\* The routes visited are reported, or in the result.
VisitedReported ==
    \A t \in list_task_routes \ replay :
      status[t] \in _REPLAYABLE_STATUSES =>
        receipt[notification_id(t, status[t])] = "delivered" \/ t \in undelivered

ReplayFits ==
    hub = "replay" => VisitFits /\ CallSettles /\ NobodyReserved /\ VisitedReported

\* During the replay nobody else is under way.
LEMMA ReplayAlone ==
  ASSUME UpdatesInv, hub = "replay"
  PROVE  /\ \A t \in TaskId : wk[t].pc = "none" /\ cn[t] \in {"idle", "over"}
         /\ \A t \in TaskId : nt[Worker(t)].pc = "idle" /\ nt[Canceller(t)].pc = "idle"
<1>1. \A t \in TaskId : wk[t].pc = "none" /\ cn[t] \in {"idle", "over"}
  BY DEF UpdatesInv, WorkerFits, QuietCallers
<1> QED
  BY <1>1 DEF UpdatesInv, QuietCallers

\* So the steps during the replay are its own, or elsewhere.
LEMMA ReplaySteps ==
  ASSUME UpdatesInv, [Next]_vars, hub' = "replay"
  PROVE  \/ reconcile_receipts \/ reconcile_pending
         \/ hub = "replay" /\ UNCHANGED <<status, routes, nt, dl, receipt, replay, undelivered>>
<1> USE DEF tableVars, taskVars, deliveryVars, notificationVars
<1>1. CASE UNCHANGED vars
  BY <1>1 DEF vars
<1>2. CASE start \/ start_fault \/ opening \/ start_failed \/ serve \/ reconcile_interrupted
  <2>1. hub' = "replay" => hub = "opening"
    BY <1>2
       DEF start, start_fault, opening, start_failed, serve, reconcile_interrupted,
           Exit
  <2>2. hub' # "replay"
    BY <1>2, <2>1
    DEF start, start_fault, opening, start_failed, serve, reconcile_interrupted, Exit
  <2> QED
    BY <2>2
<1>3. ASSUME NEW t \in TaskId, process_task(t) PROVE FALSE
  <2>1. hub = "replay"
    BY <1>3 DEF process_task, WorkFrame
  <2>2. wk[t].pc = "none" /\ nt[Worker(t)].pc = "idle"
    BY <2>1, ReplayAlone
  <2>3. ~NotifyStep(Worker(t))
    BY <2>2 DEF NotifyStep, notify_task, notify_fault
  <2> QED
    BY <1>3, <2>1, <2>2, <2>3
    DEF process_task, claim, prepared, create_run, finish_run, check_cancelled,
        finish_task, worker_returned, close_run, _fail, prepare_fault, create_run_fault,
        finish_run_fault, finish_task_fault, At
<1>4. ASSUME NEW t \in TaskId, cancel_task(t) PROVE FALSE
  <2>1. hub = "replay"
    BY <1>4 DEF cancel_task, CancelFrame
  <2>2. cn[t] \in {"idle", "over"} /\ nt[Canceller(t)].pc = "idle"
    BY <2>1, ReplayAlone
  <2>3. ~NotifyStep(Canceller(t))
    BY <2>2 DEF NotifyStep, notify_task, notify_fault
  <2> QED
    BY <1>4, <2>2, <2>3 DEF cancel_task, cancel_runtime, cancel_commit, cancel_returned
<1>5. ASSUME NEW t \in TaskId, (cancel_read(t) /\ CancelFrame) \/ create_task(t) PROVE FALSE
  BY <1>5 DEF cancel_read, create_task, CancelFrame
<1>6. CASE crash \/ stop
  BY <1>6 DEF crash, stop
<1>7. CASE clock_catches_up \/ operator_begins \/ operator_command \/ operator_killed
  BY <1>7 DEF clock_catches_up, operator_begins, operator_command, operator_killed,
              CommandFrame
<1> QED
  BY <1>1, <1>2, <1>3, <1>4, <1>5, <1>6, <1>7 DEF Next, Starting

\* The route visited, while its update is under way.
LEMMA VisitIs ==
  ASSUME UpdatesInv, hub = "replay", ReplayFits, replay # {}
  PROVE  /\ Visited \in replay /\ Visited \in TaskId /\ Visited \in routes
         /\ nt[Startup].pc # "idle" => status[Visited] \in _REPLAYABLE_STATUSES
         /\ dl[Startup].pc # "idle" =>
              dl[Startup].id = notification_id(Visited, status[Visited])
<1>1. Visited \in replay /\ HubTypes
  BY VisitedIn DEF UpdatesInv
<1>2. Visited \in TaskId /\ Visited \in routes
  BY <1>1 DEF HubTypes
<1>3. CallerFits(Startup)
  BY Callers DEF UpdatesInv
<1> QED
  BY <1>1, <1>2, <1>3 DEF CallerFits, ReplayFits, VisitFits

\* Without a call under way nothing is reserved.
LEMMA NoCallNoReservation ==
  ASSUME ReplayFits, hub = "replay",
         dl[Startup].pc \notin {"send", "mark", "release", "failed"},
         NEW t \in replay, NEW s \in _REPLAYABLE_STATUSES
  PROVE  receipt[notification_id(t, s)] # "reserved"
BY DEF ReplayFits, NobodyReserved, Sending, DlAt

\* The replay begins with no reservation at all.
LEMMA ReplayBegins ==
  ASSUME UpdatesInv, reconcile_receipts
  PROVE  ReplayFits'
<1>1. /\ ~up /\ hub' = "replay" /\ UNCHANGED <<nt, dl, routes>>
      /\ replay' = list_task_routes
      /\ receipt' = [d \in DeliveryId |->
                       IF receipt[d] = "reserved" THEN "none" ELSE receipt[d]]
  BY DEF reconcile_receipts, ReceiptsReconciled, reconcile_reserved_deliveries, StartFrame
<1>2. nt'[Startup].pc = "idle" /\ dl'[Startup].pc = "idle"
  BY <1>1, DownRests, Callers DEF Resting
<1>3. VisitFits' /\ CallSettles'
  BY <1>2 DEF VisitFits, CallSettles
<1>4. VisitedReported'
  BY <1>1 DEF VisitedReported, list_task_routes
<1>5. ASSUME NEW t \in TaskId, NEW s \in _REPLAYABLE_STATUSES
      PROVE  receipt'[notification_id(t, s)] # "reserved"
  <2>1. notification_id(t, s) \in DeliveryId
    BY DEF notification_id
  <2> QED
    BY <1>1, <2>1
<1>6. replay' \subseteq TaskId
  BY <1>1 DEF UpdatesInv, HubTypes, list_task_routes
<1>7. NobodyReserved'
  BY <1>5, <1>6 DEF NobodyReserved
<1> QED
  BY <1>3, <1>4, <1>7 DEF ReplayFits

\* A route is left: it is reported, in the result, or has nothing to report.
LEMMA RouteLeft ==
  ASSUME UpdatesInv, hub = "replay", ReplayFits, replay # {}, hub' = hub,
         UNCHANGED <<status, routes, receipt>>, replay' = replay \ {Visited},
         nt'[Startup].pc = "idle", dl'[Startup].pc = "idle",
         undelivered \subseteq undelivered',
         \/ Visited \in undelivered' \/ status[Visited] \notin _REPLAYABLE_STATUSES
         \/ receipt[notification_id(Visited, status[Visited])] = "delivered"
  PROVE  ReplayFits'
<1>1. PICK v : v = Visited
  OBVIOUS
<1>2. VisitFits' /\ CallSettles'
  BY DEF VisitFits, CallSettles
<1>3. VisitedReported'
  BY <1>1 DEF ReplayFits, VisitedReported, list_task_routes
<1>4. NobodyReserved'
  <2> SUFFICES ASSUME NEW t \in replay', NEW s \in _REPLAYABLE_STATUSES,
                      receipt[notification_id(t, s)] = "reserved"
               PROVE  FALSE
    BY DEF NobodyReserved
  <2>1. t \in replay /\ t # v
    BY <1>1
  <2>2. /\ dl[Startup].id = notification_id(t, s)
        /\ dl[Startup].pc \in {"send", "mark", "release", "failed"}
    BY <2>1 DEF ReplayFits, NobodyReserved, Sending, DlAt
  <2>3. dl[Startup].id = notification_id(v, status[v])
    BY <1>1, <2>2, VisitIs
  <2> QED
    BY <2>1, <2>2, <2>3 DEF notification_id
<1> QED
  BY <1>2, <1>3, <1>4 DEF ReplayFits

\* The steps of reconcile_pending itself.
LEMMA ReplayStepFits ==
  ASSUME UpdatesInv, hub = "replay", ReplayFits, ReplayStep(Startup), hub' = hub,
         UNCHANGED <<status, routes>>
  PROVE  ReplayFits'
<1>1. /\ Startup \in Deliverer /\ nt \in [Deliverer -> UpdateState]
      /\ dl \in [Deliverer -> Call]
  BY Callers DEF UpdatesInv, HubTypes, DeliveryInv, DeliveryTypeOK, Call
<1>2. CASE replay_route(Startup)
  <2>1. PICK t, s : t = Visited /\ s = status[t]
    OBVIOUS
  <2>2. /\ nt[Startup].pc = "idle" /\ replay # {}
        /\ UNCHANGED <<undelivered, receipt, dl>>
    BY <1>2 DEF replay_route, deliveryVars
  <2>3. dl[Startup].pc = "idle"
    BY <1>1, <2>2, IdleCaller
  <2>4. CASE s \in _REPLAYABLE_STATUSES /\ receipt[notification_id(t, s)] # "delivered"
    <3>1. _notify(Startup, t, s) /\ replay' = replay
      BY <1>2, <2>1, <2>4 DEF replay_route
    <3>2. /\ nt'[Startup].pc = "notify" /\ nt'[Startup].task = t
          /\ nt'[Startup].status = s
      BY <1>1, <3>1 DEF _notify
    <3>3. Visited' = Visited
      BY <3>1 DEF Visited
    <3>4. VisitFits'
      BY <2>1, <2>2, <3>1, <3>2, <3>3 DEF VisitFits
    <3>5. CallSettles' /\ NobodyReserved' /\ VisitedReported'
      BY <2>2, <3>1 DEF ReplayFits, CallSettles, NobodyReserved, VisitedReported,
                        list_task_routes, Sending, DlAt
    <3> QED
      BY <3>4, <3>5 DEF ReplayFits
  <2>5. CASE ~(s \in _REPLAYABLE_STATUSES /\ receipt[notification_id(t, s)] # "delivered")
    <3>1. replay' = replay \ {Visited} /\ nt' = nt
      BY <1>2, <2>1, <2>5 DEF replay_route
    <3> QED
      BY <2>1, <2>2, <2>3, <2>5, <3>1, RouteLeft
  <2> QED
    BY <2>4, <2>5
<1>3. CASE replay_returned(Startup)
  <2>1. /\ Returned(Startup) /\ Forget(Startup) /\ UNCHANGED receipt
        /\ replay' = replay \ {Visited}
        /\ undelivered' = IF Raised(Startup) THEN undelivered \cup {Visited} ELSE undelivered
    BY <1>3 DEF replay_returned
  <2>2. nt[Startup].pc # "idle" /\ nt[Startup].pc # "skipped" /\ replay # {}
    BY <2>1 DEF Returned, ReplayFits, VisitFits
  <2>3. nt'[Startup].pc = "idle" /\ dl'[Startup].pc = "idle"
    BY <1>1, <2>1 DEF Forget, NoUpdate, NoCall
  <2>4. \/ Visited \in undelivered'
        \/ receipt[notification_id(Visited, status[Visited])] = "delivered"
    <3>1. CASE Raised(Startup)
      BY <2>1, <3>1
    <3>2. CASE ~Raised(Startup)
      <4>1. dl[Startup].pc \in {"duplicate", "in-progress", "sent"}
        BY <2>1, <2>2, <3>2 DEF Returned, Raised, Finished, DlAt
      <4>2. receipt[dl[Startup].id] = "delivered"
        BY <4>1 DEF ReplayFits, CallSettles
      <4>3. dl[Startup].id = notification_id(Visited, status[Visited])
        BY <2>2, <4>1, VisitIs
      <4> QED
        BY <4>2, <4>3
    <3> QED
      BY <3>1, <3>2
  <2> QED
    BY <2>1, <2>2, <2>3, <2>4, RouteLeft
<1>4. CASE replay_fault(Startup)
  <2>1. /\ nt[Startup].pc = "idle" /\ replay # {} /\ UNCHANGED <<nt, dl, receipt>>
        /\ replay' = replay \ {Visited} /\ undelivered' = undelivered \cup {Visited}
    BY <1>4 DEF replay_fault
  <2>2. dl[Startup].pc = "idle"
    BY <1>1, <2>1, IdleCaller
  <2> QED
    BY <2>1, <2>2, RouteLeft
<1> QED
  BY <1>2, <1>3, <1>4 DEF ReplayStep

\* The call of deliver for the route visited goes on.
LEMMA ReplayDelivers ==
  ASSUME UpdatesInv, hub = "replay", ReplayFits, DeliverStep(Startup), hub' = hub,
         UNCHANGED <<status, routes, nt, replay, undelivered>>
  PROVE  ReplayFits'
<1>1. /\ Startup \in Deliverer /\ DeliveryInv /\ DeliveryTypeOK /\ CallerFits(Startup)
      /\ receipt \in [DeliveryId -> {"none", "reserved", "delivered"}]
  BY Callers DEF UpdatesInv, DeliveryInv, DeliveryTypeOK
<1>2. PICK d : d = dl[Startup].id
  OBVIOUS
<1>3. /\ dl[Startup].pc # "idle" /\ nt[Startup].pc # "idle" /\ replay # {}
      /\ dl'[Startup].id = d
  BY <1>1, <1>2, DeliverStepFrame DEF CallerFits, ReplayFits, VisitFits
<1>4. PICK t, s : t = Visited /\ s = status[Visited]
  OBVIOUS
<1>5. /\ t \in replay /\ t \in TaskId /\ s \in _REPLAYABLE_STATUSES
      /\ d = notification_id(t, s)
  BY <1>2, <1>3, <1>4, VisitIs
<1>6. d \in DeliveryId
  BY <1>5 DEF notification_id
<1>7. replay \subseteq TaskId /\ list_task_routes \subseteq TaskId
  BY DEF UpdatesInv, HubTypes, list_task_routes
<1>8. Visited' = Visited
  BY DEF Visited
<1>9. VisitFits'
  BY <1>8 DEF ReplayFits, VisitFits
<1>10. VisitedReported'
  <2>1. FinalStep
    BY <1>1, DeliverStepFinal
  <2>2. ASSUME NEW u \in list_task_routes, status[u] \in _REPLAYABLE_STATUSES
        PROVE  notification_id(u, status[u]) \in DeliveryId
    BY <1>7, <2>2 DEF notification_id
  <2> QED
    BY <2>1, <2>2 DEF FinalStep, ReplayFits, VisitedReported, list_task_routes
<1>11. Sending(Startup) => receipt[d] = "reserved"
  BY <1>1, <1>2 DEF DeliveryInv, SenderReserved
<1>12. dl[Startup].pc \notin {"send", "mark", "release", "failed"} => receipt[d] # "reserved"
  BY <1>5, NoCallNoReservation
<1> DEFINE p == dl'[Startup].pc
<1>13. /\ \A e \in DeliveryId : e # d => receipt'[e] = receipt[e]
       /\ p \in {"duplicate", "in-progress", "sent"} => receipt'[d] = "delivered"
       /\ receipt'[d] = "reserved" => p \in {"send", "mark", "release", "failed"}
  <2>1. CASE is_delivered(Startup)
    <3>1. PICK q : q = IF receipt[d] = "delivered" THEN "duplicate" ELSE "reserve"
      OBVIOUS
    <3>2. p = q /\ dl[Startup].pc = "check" /\ receipt' = receipt
      BY <1>1, <1>2, <2>1, <3>1, StepMoves DEF is_delivered, DlAt, DlPc, Finished
    <3> QED
      BY <1>12, <3>1, <3>2
  <2>2. CASE reserve_delivery(Startup)
    <3>1. dl[Startup].pc = "reserve"
      BY <2>2 DEF reserve_delivery, DlAt
    <3>2. CASE receipt[d] = "none"
      <4>1. p = "send" /\ receipt' = [receipt EXCEPT ![d] = "reserved"]
        BY <1>1, <1>2, <2>2, <3>2, StepMoves DEF reserve_delivery, DlPc
      <4> QED
        BY <1>1, <1>6, <4>1
    <3>3. CASE receipt[d] # "none"
      <4>1. p = "in-progress" /\ receipt' = receipt
        BY <1>1, <1>2, <2>2, <3>3, StepMoves DEF reserve_delivery, DlPc, Finished
      <4> QED
        BY <1>1, <1>6, <1>12, <3>1, <3>3, <4>1
    <3> QED
      BY <3>2, <3>3
  <2>3. CASE send_ok(Startup)
    BY <1>1, <2>3, StepMoves DEF send_ok, DlPc
  <2>4. CASE send_error(Startup)
    BY <1>1, <2>4, StepMoves, RetryMoves DEF send_error, DlPc, DlAt
  <2>5. CASE mark_delivered(Startup)
    <3>1. receipt[d] = "reserved"
      BY <1>11, <2>5 DEF mark_delivered, DlAt, Sending
    <3>2. p = "sent" /\ receipt' = [receipt EXCEPT ![d] = "delivered"]
      BY <1>1, <1>2, <2>5, <3>1, StepMoves DEF mark_delivered, DlPc, Finished
    <3> QED
      BY <1>1, <1>6, <3>2
  <2>6. CASE release_delivery(Startup)
    <3>1. p = "failed" /\ \A e \in DeliveryId : e # d => receipt'[e] = receipt[e]
      BY <1>1, <1>2, <2>6, StepMoves DEF release_delivery, DlPc, Finished
    <3> QED
      BY <3>1
  <2>7. CASE receipt_fault(Startup)
    <3>1. PICK q : q = IF DlAt(Startup, "mark") THEN "release" ELSE "failed"
      OBVIOUS
    <3>2. p = q /\ receipt' = receipt
      BY <1>1, <2>7, <3>1, StepMoves DEF receipt_fault, DlPc, Finished
    <3> QED
      BY <3>1, <3>2
  <2> QED
    BY <2>1, <2>2, <2>3, <2>4, <2>5, <2>6, <2>7 DEF DeliverStep
<1>14. CallSettles'
  BY <1>3, <1>13 DEF CallSettles
<1>15. NobodyReserved'
  <2> SUFFICES ASSUME NEW u \in replay, NEW v \in _REPLAYABLE_STATUSES,
                      receipt'[notification_id(u, v)] = "reserved"
               PROVE  /\ p \in {"send", "mark", "release", "failed"}
                      /\ d = notification_id(u, v)
    BY <1>3 DEF NobodyReserved, Sending, DlAt
  <2>1. notification_id(u, v) \in DeliveryId
    BY <1>7 DEF notification_id
  <2>2. CASE notification_id(u, v) = d
    BY <1>13, <2>2
  <2>3. CASE notification_id(u, v) # d
    <3>1. receipt[notification_id(u, v)] = "reserved"
      BY <1>13, <2>1, <2>3
    <3> QED
      BY <1>2, <2>3, <3>1 DEF ReplayFits, NobodyReserved
  <2> QED
    BY <2>2, <2>3
<1> QED
  BY <1>9, <1>10, <1>14, <1>15 DEF ReplayFits

\* notify_task for the route visited: it has a route, so the update is composed.
LEMMA ReplayNotifies ==
  ASSUME UpdatesInv, hub = "replay", ReplayFits, notify_task(Startup) \/ notify_fault(Startup),
         hub' = hub, UNCHANGED <<status, routes, replay, undelivered>>
  PROVE  ReplayFits'
<1>1. /\ Startup \in Deliverer /\ nt \in [Deliverer -> UpdateState] /\ dl \in [Deliverer -> Call]
      /\ nt[Startup].pc = "notify" /\ receipt' = receipt
  BY Callers
  DEF UpdatesInv, HubTypes, DeliveryInv, DeliveryTypeOK, Call, notify_task, notify_fault
<1>2. replay # {} /\ nt[Startup].task = Visited /\ nt[Startup].status = status[Visited]
  BY <1>1 DEF ReplayFits, VisitFits
<1>3. nt[Startup].task \in routes
  BY <1>2, VisitIs
<1>4. dl[Startup].pc = "idle"
  BY <1>1, IdleCaller
<1>5. PICK c : \E q \in {"deliver", "raised"} : c = [nt[Startup] EXCEPT !.pc = q]
                                               /\ nt' = [nt EXCEPT ![Startup].pc = q]
  BY <1>3 DEF notify_task, notify_fault
<1>6. /\ nt[Startup] \in UpdateState /\ nt' = [nt EXCEPT ![Startup] = c]
      /\ c.task = nt[Startup].task /\ c.status = nt[Startup].status
      /\ c.pc \in {"deliver", "raised"}
  BY <1>1, <1>5 DEF UpdateState
<1>7. nt'[Startup] = c
  BY <1>1, <1>6
<1>8. dl'[Startup].pc \in {"idle", "check"}
  BY <1>1, <1>3, <1>4 DEF notify_task, notify_fault, deliver
<1>9. Visited' = Visited
  BY DEF Visited
<1>10. VisitFits'
  BY <1>2, <1>6, <1>7, <1>9 DEF VisitFits
<1>11. CallSettles'
  BY <1>8 DEF CallSettles
<1>12. NobodyReserved'
  BY <1>1, <1>4, NoCallNoReservation DEF NobodyReserved
<1>13. VisitedReported'
  BY <1>1 DEF ReplayFits, VisitedReported, list_task_routes
<1> QED
  BY <1>10, <1>11, <1>12, <1>13 DEF ReplayFits

\* Every step of the hub preserves what the replay has achieved.
LEMMA ReplayNext ==
  ASSUME UpdatesInv, ReplayFits, [Next]_vars
  PROVE  ReplayFits'
<1>1. CASE hub' # "replay"
  BY <1>1 DEF ReplayFits
<1>2. CASE reconcile_receipts
  BY <1>2, ReplayBegins
<1>3. CASE reconcile_pending
  <2>1. hub = "replay" /\ hub' = hub /\ UNCHANGED <<status, routes>>
    BY <1>3 DEF reconcile_pending, StartFrame, tableVars
  <2>2. CASE ReplayStep(Startup)
    BY <2>1, <2>2, ReplayStepFits
  <2>3. CASE NotifyStep(Startup) /\ UNCHANGED <<replay, undelivered>>
    BY <2>1, <2>3, ReplayNotifies, ReplayDelivers DEF NotifyStep
  <2> QED
    BY <1>3, <2>2, <2>3 DEF reconcile_pending
<1>4. CASE hub = "replay" /\ UNCHANGED <<status, routes, nt, dl, receipt, replay, undelivered>>
  <2>1. Visited' = Visited
    BY <1>4 DEF Visited
  <2> QED
    BY <1>4, <2>1 DEF ReplayFits, VisitFits, CallSettles, NobodyReserved, VisitedReported,
                      list_task_routes, Sending, DlAt
<1> QED
  BY <1>1, <1>2, <1>3, <1>4, ReplaySteps

\* What StartReportsAll says of one step.
ReportsAll ==
    hub = "replay" /\ hub' = "serving" =>
      \A t \in list_task_routes :
        status[t] \in _REPLAYABLE_STATUSES =>
          receipt[notification_id(t, status[t])] = "delivered" \/ t \in undelivered

\* The interfaces go up only when no route is left.
LEMMA ReportsAllStep ==
  ASSUME UpdatesInv, ReplayFits, [Next]_vars
  PROVE  ReportsAll
<1> SUFFICES ASSUME hub = "replay", hub' = "serving"
             PROVE  VisitedReported /\ replay = {}
  BY DEF ReportsAll, VisitedReported
<1>1. VisitedReported
  BY DEF ReplayFits
<1>2. ~UNCHANGED hub
  OBVIOUS
<1>3. serve
  BY <1>2 DEF Next, Starting, start, start_fault, opening, start_failed,
              reconcile_interrupted, reconcile_receipts, reconcile_pending, Exit, vars,
              process_task, cancel_task, cancel_read, create_task, WorkFrame, CancelFrame,
              crash, stop, clock_catches_up, operator_begins, operator_command,
              operator_killed, CommandFrame
<1> QED
  BY <1>1, <1>3 DEF serve

\* When the interfaces go up, every listed route is reported or in the result of
\* reconcile_pending, whatever failed before, and however often.
THEOREM HubStartReportsAll == Spec => StartReportsAll
<1>1. Init => UpdatesInv /\ ReplayFits
  <2>1. Init => ReplayFits
    BY DEF Init, ReplayFits
  <2> QED
    BY <2>1, UpdatesInit
<1>2. UpdatesInv /\ ReplayFits /\ [Next]_vars => (UpdatesInv /\ ReplayFits)'
  BY UpdatesNext, ReplayNext
<1>3. UpdatesInv /\ ReplayFits /\ [Next]_vars
        => [hub = "replay" /\ hub' = "serving" =>
              \A t \in list_task_routes :
                status[t] \in _REPLAYABLE_STATUSES =>
                  receipt[notification_id(t, status[t])] = "delivered"
                    \/ t \in undelivered]_vars
  BY ReportsAllStep DEF ReportsAll
<1> QED
  BY <1>1, <1>2, <1>3, PTL DEF Spec, StartReportsAll

\* Over all restarts of the hub, a delivered update is not posted again (deliver).
THEOREM HubDeliveredIsFinal == Spec => DeliveredIsFinal
<1>1. Init => UpdatesInv
  BY UpdatesInit
<1>2. UpdatesInv /\ [Next]_vars => UpdatesInv'
  BY UpdatesNext
<1>3. ASSUME UpdatesInv, [Next]_vars PROVE FinalStep
  <2>1. DeliveryInv /\ receipt \in [DeliveryId -> {"none", "reserved", "delivered"}]
    BY <1>3 DEF UpdatesInv, DeliveryInv, DeliveryTypeOK
  <2> QED
    BY <1>3, <2>1, DeliverySteps, DeliverStepFinal
    DEF FinalStep, reconcile_reserved_deliveries
<1>4. UpdatesInv /\ [Next]_vars
        => [\A d \in DeliveryId : receipt[d] = "delivered" =>
              receipt'[d] = "delivered" /\ posted'[d] = posted[d]]_deliveryVars
  BY <1>3 DEF FinalStep
<1> QED
  BY <1>1, <1>2, <1>4, PTL DEF Spec, DeliveredIsFinal
=============================================================================
