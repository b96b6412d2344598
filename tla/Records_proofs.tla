--------------------------- MODULE Records_proofs ----------------------------
(***************************************************************************)
(* Theorems about two records the database keeps: which migrations were    *)
(* applied, for any number of instances, migrations and stops; and the     *)
(* audit log with the walks through it, for any number of writers, rows,   *)
(* ids in a millisecond and page sizes.                                    *)
(***************************************************************************)
EXTENDS Migrator, AuditLog, FiniteSetTheorems, WellFoundedInduction, TLAPS

-----------------------------------------------------------------------------
(* What an instance may rely on.  While it migrates, all migrations before  *)
(* its position exist, and so do those it read as applied; its own is not   *)
(* there before it commits.  Past the loop, all that it knows exist.        *)
Migrates(s) ==
  inst[s].pc \in {"apply", "txn"} =>
    /\ tagTable
    /\ inst[s].next <= inst[s].knows + 1
    /\ 1 .. (inst[s].next - 1) \subseteq schema
    /\ inst[s].applied \subseteq schema

InTransaction(s) ==
  inst[s].pc = "txn" => inst[s].next <= inst[s].knows /\ inst[s].next \notin schema

Boots(s) ==
  /\ inst[s].pc = "tags" => tagTable
  /\ inst[s].pc \in {"table", "tags"} => inst[s].next = 1
  /\ inst[s].pc \in {"kek", "serving"} /\ inst[s].migrate => 1 .. inst[s].knows \subseteq schema
  /\ inst[s].pc = "serving" => 1 \in schema

(* Postgres lets one transaction at a time create the same objects. *)
OneAtATime ==
  \A s \in Server : \A o \in Server :
    inst[s].pc = "txn" /\ inst[o].pc = "txn" /\ inst[s].next = inst[o].next => s = o

Inv ==
  /\ TypeOK
  /\ SchemaRecorded
  /\ \A s \in Server : Migrates(s) /\ InTransaction(s) /\ Boots(s)
  /\ OneAtATime

-----------------------------------------------------------------------------
(* A step of one instance that leaves the database alone, to a state in     *)
(* which it is well placed and in no new transaction.                       *)
Placed(s, new) ==
  /\ new \in Instance
  /\ new.pc \in {"apply", "txn"} =>
       /\ tagTable
       /\ new.next <= new.knows + 1
       /\ 1 .. (new.next - 1) \subseteq schema
       /\ new.applied \subseteq schema
  /\ new.pc = "txn" =>
       /\ new.next <= new.knows /\ new.next \notin schema
       /\ \A o \in Server \ {s} : inst[o].pc = "txn" => inst[o].next # new.next
  /\ new.pc = "tags" => tagTable
  /\ new.pc \in {"table", "tags"} => new.next = 1
  /\ new.pc \in {"kek", "serving"} /\ new.migrate => 1 .. new.knows \subseteq schema
  /\ new.pc = "serving" => 1 \in schema

(* Such a step keeps the invariant. *)
LEMMA BecomePlaced ==
  \A s \in Server : \A new :
    Inv /\ Placed(s, new) /\ Become(s, new) /\ UNCHANGED database /\ stops' \in 0 .. MaxStops
      => Inv'
<1>. SUFFICES ASSUME NEW s \in Server, NEW new, Inv, Placed(s, new), Become(s, new),
                     UNCHANGED database, stops' \in 0 .. MaxStops
              PROVE  Inv'
  OBVIOUS
<1>1. /\ tagTable' = tagTable /\ tags' = tags /\ schema' = schema
      /\ inst' \in [Server -> Instance]
      /\ inst'[s] = new
      /\ \A o \in Server : o # s => inst'[o] = inst[o]
  BY DEF Inv, TypeOK, Become, Placed, database
<1>2. TypeOK' /\ SchemaRecorded'
  BY <1>1 DEF Inv, TypeOK, SchemaRecorded
<1>3. ASSUME NEW o \in Server
      PROVE  Migrates(o)' /\ InTransaction(o)' /\ Boots(o)'
  <2>1. CASE o = s
    BY <1>1, <2>1 DEF Placed, Migrates, InTransaction, Boots
  <2>2. CASE o # s
    BY <1>1, <2>2 DEF Inv, Migrates, InTransaction, Boots
  <2>. QED
    BY <2>1, <2>2
<1>4. OneAtATime'
  BY <1>1 DEF Inv, OneAtATime, Placed
<1>. QED
  BY <1>2, <1>3, <1>4 DEF Inv

(* The fields of an instance that goes on, or moves on to the next migration. *)
LEMMA Moves ==
  \A s \in Server :
    TypeOK =>
      /\ \A pc : pc \in {"table", "tags", "apply", "txn", "kek", "serving"} /\ Goto(s, pc) =>
           \E new \in Instance :
             /\ Become(s, new) /\ new.pc = pc /\ new.knows = inst[s].knows
             /\ new.migrate = inst[s].migrate /\ new.applied = inst[s].applied
             /\ new.next = inst[s].next
      /\ Advance(s) /\ inst[s].next <= inst[s].knows =>
           \E new \in Instance :
             /\ Become(s, new) /\ new.pc = "apply" /\ new.knows = inst[s].knows
             /\ new.migrate = inst[s].migrate /\ new.applied = inst[s].applied
             /\ new.next = inst[s].next + 1
<1>. SUFFICES ASSUME NEW s \in Server, TypeOK
              PROVE  /\ \A pc : pc \in {"table", "tags", "apply", "txn", "kek", "serving"} /\ Goto(s, pc) =>
                          \E new \in Instance :
                            /\ Become(s, new) /\ new.pc = pc /\ new.knows = inst[s].knows
                            /\ new.migrate = inst[s].migrate /\ new.applied = inst[s].applied
                            /\ new.next = inst[s].next
                     /\ Advance(s) /\ inst[s].next <= inst[s].knows =>
                          \E new \in Instance :
                            /\ Become(s, new) /\ new.pc = "apply" /\ new.knows = inst[s].knows
                            /\ new.migrate = inst[s].migrate /\ new.applied = inst[s].applied
                            /\ new.next = inst[s].next + 1
  OBVIOUS
<1>1. inst[s] \in Instance /\ inst \in [Server -> Instance]
  BY DEF TypeOK
<1>2. ASSUME NEW pc \in {"table", "tags", "apply", "txn", "kek", "serving"}, Goto(s, pc)
      PROVE  \E new \in Instance :
               /\ Become(s, new) /\ new.pc = pc /\ new.knows = inst[s].knows
               /\ new.migrate = inst[s].migrate /\ new.applied = inst[s].applied
               /\ new.next = inst[s].next
  <2>1. PICK new : new = [inst[s] EXCEPT !.pc = pc]
    OBVIOUS
  <2>2. /\ new \in Instance /\ new.pc = pc /\ new.knows = inst[s].knows
        /\ new.migrate = inst[s].migrate /\ new.applied = inst[s].applied
        /\ new.next = inst[s].next
    BY <1>1, <2>1 DEF Instance
  <2>3. Become(s, new)
    BY <1>1, <1>2, <2>1 DEF Goto, Become
  <2>. QED
    BY <2>2, <2>3
<1>3. ASSUME Advance(s), inst[s].next <= inst[s].knows
      PROVE  \E new \in Instance :
               /\ Become(s, new) /\ new.pc = "apply" /\ new.knows = inst[s].knows
               /\ new.migrate = inst[s].migrate /\ new.applied = inst[s].applied
               /\ new.next = inst[s].next + 1
  <2>1. PICK new : new = [inst[s] EXCEPT !.pc = "apply", !.next = @ + 1]
    OBVIOUS
  <2>2. inst[s].next + 1 \in 1 .. (Latest + 1)
    BY <1>1, <1>3, ConstantsAssumption DEF Instance
  <2>3. /\ new \in Instance /\ new.pc = "apply" /\ new.knows = inst[s].knows
        /\ new.migrate = inst[s].migrate /\ new.applied = inst[s].applied
        /\ new.next = inst[s].next + 1
    BY <1>1, <2>1, <2>2 DEF Instance
  <2>4. Become(s, new)
    BY <1>3, <2>1 DEF Advance
  <2>. QED
    BY <2>3, <2>4
<1>. QED
  BY <1>2, <1>3

(* An instance that is down, or died, is well placed anywhere. *)
LEMMA DownPlaced ==
  \A s \in Server : Inv =>
    /\ Down \in Instance
    /\ Placed(s, Down)
    /\ Die(s) => \E new : Placed(s, new) /\ Become(s, new)
<1>. SUFFICES ASSUME NEW s \in Server, Inv
              PROVE  /\ Down \in Instance
                     /\ Placed(s, Down)
                     /\ Die(s) => \E new : Placed(s, new) /\ Become(s, new)
  OBVIOUS
<1>1. 0 \in 0 .. Latest /\ 1 \in 1 .. (Latest + 1)
  BY ConstantsAssumption
<1>2. Down \in Instance
  BY <1>1 DEF Down, Instance
<1>3. Placed(s, Down)
  BY <1>2 DEF Down, Placed
<1>4. ASSUME Die(s)
      PROVE  \E new : Placed(s, new) /\ Become(s, new)
  <2>1. PICK new : new = [Down EXCEPT !.pc = "died", !.migrate = inst[s].migrate]
    OBVIOUS
  <2>2. inst[s].migrate \in BOOLEAN
    BY DEF Inv, TypeOK, Instance
  <2>3. new \in Instance /\ new.pc = "died"
    BY <1>1, <2>1, <2>2 DEF Down, Instance
  <2>4. Placed(s, new) /\ Become(s, new)
    BY <1>4, <2>1, <2>3 DEF Placed, Die
  <2>. QED
    BY <2>4
<1>. QED
  BY <1>2, <1>3, <1>4

-----------------------------------------------------------------------------
(* Initially nothing exists and nobody runs. *)
LEMMA InitInv == Init => Inv
<1>. SUFFICES ASSUME Init
              PROVE  Inv
  OBVIOUS
<1>1. 0 \in 0 .. Latest /\ 1 \in 1 .. (Latest + 1) /\ 0 \in 0 .. MaxStops
  BY ConstantsAssumption
<1>2. Down \in Instance
  BY <1>1 DEF Down, Instance
<1>3. TypeOK
  BY <1>1, <1>2 DEF Init, TypeOK
<1>. QED
  BY <1>3 DEF Init, Inv, SchemaRecorded, Migrates, InTransaction, Boots, OneAtATime, Down

(* An instance is started, stopped or recovered. *)
LEMMA StartStop ==
  \A s \in Server :
    Inv /\ ((\E knows \in Migration, migrate \in BOOLEAN : Start(s, knows, migrate))
              \/ Stop(s) \/ Recover(s)) => Inv'
<1>. SUFFICES ASSUME NEW s \in Server, Inv,
                     \/ \E knows \in Migration, migrate \in BOOLEAN : Start(s, knows, migrate)
                     \/ Stop(s) \/ Recover(s)
              PROVE  Inv'
  OBVIOUS
<1>1. stops \in 0 .. MaxStops
  BY DEF Inv, TypeOK
<1>2. CASE \E knows \in Migration, migrate \in BOOLEAN : Start(s, knows, migrate)
  <2>1. PICK knows \in Migration, migrate \in BOOLEAN : Start(s, knows, migrate)
    BY <1>2
  <2>2. PICK new : new = [Down EXCEPT !.pc = IF migrate THEN "table" ELSE "kek",
                                      !.knows = knows, !.migrate = migrate]
    OBVIOUS
  <2>3. knows \in 0 .. Latest /\ 1 \in 1 .. (Latest + 1)
    BY ConstantsAssumption DEF Migration
  <2>4. /\ new \in Instance /\ new.next = 1 /\ new.migrate = migrate
        /\ new.pc = IF migrate THEN "table" ELSE "kek"
    BY <2>2, <2>3 DEF Down, Instance
  <2>5. Placed(s, new)
    BY <2>4 DEF Placed
  <2>. QED
    BY <1>1, <2>1, <2>2, <2>5, BecomePlaced DEF Start
<1>3. CASE Stop(s)
  <2>1. stops' \in 0 .. MaxStops
    BY <1>1, <1>3, ConstantsAssumption DEF Stop
  <2>. QED
    BY <1>3, <2>1, DownPlaced, BecomePlaced DEF Stop
<1>4. CASE Recover(s)
  BY <1>1, <1>4, DownPlaced, BecomePlaced DEF Recover
<1>. QED
  BY <1>2, <1>3, <1>4

(* The first statements of the migrator, and reading what is applied. *)
LEMMA TableSteps ==
  \A s \in Server : Inv /\ (CreateTagTable(s) \/ ReadTags(s)) => Inv'
<1>. SUFFICES ASSUME NEW s \in Server, Inv, CreateTagTable(s) \/ ReadTags(s)
              PROVE  Inv'
  OBVIOUS
<1>1. inst[s] \in Instance /\ inst \in [Server -> Instance] /\ TypeOK
  BY DEF Inv, TypeOK
<1>2. CASE CreateTagTable(s)
  <2>1. PICK new \in Instance : Become(s, new) /\ new.pc = "tags" /\ new.next = inst[s].next
    BY <1>1, <1>2, Moves DEF CreateTagTable
  <2>2. /\ tagTable' = TRUE /\ tags' = tags /\ schema' = schema /\ stops' = stops
        /\ inst' \in [Server -> Instance] /\ inst'[s] = new
        /\ \A o \in Server : o # s => inst'[o] = inst[o]
        /\ new.next = 1
    BY <1>1, <1>2, <2>1 DEF CreateTagTable, Become, Inv, Boots
  <2>3. TypeOK' /\ SchemaRecorded'
    BY <2>2 DEF Inv, TypeOK, SchemaRecorded
  <2>4. \A o \in Server : (Migrates(o) /\ InTransaction(o) /\ Boots(o))'
    BY <2>1, <2>2 DEF Inv, Migrates, InTransaction, Boots
  <2>5. OneAtATime'
    BY <2>1, <2>2 DEF Inv, OneAtATime
  <2>. QED
    BY <2>3, <2>4, <2>5 DEF Inv
<1>3. CASE ReadTags(s)
  <2>1. PICK new : new = [inst[s] EXCEPT !.pc = "apply", !.applied = tags]
    OBVIOUS
  <2>2. /\ new \in Instance /\ new.pc = "apply" /\ new.applied = tags
        /\ new.next = inst[s].next /\ new.knows = inst[s].knows
    BY <1>1, <2>1 DEF Instance, TypeOK
  <2>3. inst[s].next = 1 /\ tagTable /\ tags = schema
    BY <1>3 DEF ReadTags, Inv, Boots, SchemaRecorded
  <2>4. inst[s].knows \in 0 .. Latest
    BY <1>1 DEF Instance
  <2>5. Placed(s, new)
    BY <2>2, <2>3, <2>4, ConstantsAssumption DEF Placed
  <2>. QED
    BY <1>1, <1>3, <2>1, <2>5, BecomePlaced DEF ReadTags, TypeOK
<1>. QED
  BY <1>2, <1>3

(* One more migration exists, or is found to exist. *)
LEMMA OneMore ==
  \A n \in 1 .. (Latest + 1) : \A S \in SUBSET Migration :
    1 .. (n - 1) \subseteq S /\ n \in S => 1 .. ((n + 1) - 1) \subseteq S
BY ConstantsAssumption

(* The loop: skipping what is recorded, and leaving at the end. *)
LEMMA LoopSteps ==
  \A s \in Server : Inv /\ (Skip(s) \/ EndOfLoop(s) \/ Begin(s)) => Inv'
<1>. SUFFICES ASSUME NEW s \in Server, Inv, Skip(s) \/ EndOfLoop(s) \/ Begin(s)
              PROVE  Inv'
  OBVIOUS
<1>1. /\ inst[s] \in Instance /\ TypeOK /\ stops \in 0 .. MaxStops /\ inst[s].pc = "apply"
      /\ schema \subseteq Migration
  BY DEF Inv, TypeOK, Skip, EndOfLoop, Begin
<1>2. /\ inst[s].next \in 1 .. (Latest + 1) /\ inst[s].knows \in 0 .. Latest
      /\ tagTable
      /\ inst[s].next <= inst[s].knows + 1
      /\ 1 .. (inst[s].next - 1) \subseteq schema
      /\ inst[s].applied \subseteq schema
  BY <1>1 DEF Inv, Instance, Migrates
<1>3. CASE Skip(s)
  <2>1. PICK new \in Instance :
               /\ Become(s, new) /\ new.pc = "apply" /\ new.knows = inst[s].knows
               /\ new.applied = inst[s].applied /\ new.next = inst[s].next + 1
    BY <1>1, <1>3, Moves DEF Skip
  <2>2. inst[s].next <= inst[s].knows /\ inst[s].next \in schema
    BY <1>2, <1>3 DEF Skip
  <2>3. new.next <= new.knows + 1 /\ 1 .. (new.next - 1) \subseteq schema
    BY <1>1, <1>2, <2>1, <2>2, OneMore, ConstantsAssumption
  <2>4. Placed(s, new)
    BY <1>2, <2>1, <2>3 DEF Placed
  <2>. QED
    BY <1>1, <1>3, <2>1, <2>4, BecomePlaced DEF Skip
<1>4. CASE EndOfLoop(s)
  <2>1. PICK new \in Instance :
               /\ Become(s, new) /\ new.pc = "kek" /\ new.knows = inst[s].knows
               /\ new.applied = inst[s].applied /\ new.next = inst[s].next
    BY <1>1, <1>4, Moves DEF EndOfLoop
  <2>2. inst[s].next - 1 = inst[s].knows
    BY <1>2, <1>4, ConstantsAssumption DEF EndOfLoop
  <2>3. Placed(s, new)
    BY <1>2, <2>1, <2>2 DEF Placed
  <2>. QED
    BY <1>1, <1>4, <2>1, <2>3, BecomePlaced DEF EndOfLoop
<1>5. CASE Begin(s) /\ Die(s)
  BY <1>1, <1>5, DownPlaced, BecomePlaced DEF Begin
<1>6. CASE Begin(s) /\ ~Die(s)
  <2>1. Goto(s, "txn") /\ inst[s].next \notin schema /\ inst[s].next <= inst[s].knows
    BY <1>6 DEF Begin
  <2>2. PICK new \in Instance :
               /\ Become(s, new) /\ new.pc = "txn" /\ new.knows = inst[s].knows
               /\ new.applied = inst[s].applied /\ new.next = inst[s].next
    BY <1>1, <2>1, Moves
  <2>3. \A o \in Server \ {s} : inst[o].pc = "txn" => inst[o].next # new.next
    BY <1>6, <2>2 DEF Begin, Waits
  <2>4. Placed(s, new)
    BY <1>2, <2>1, <2>2, <2>3 DEF Placed
  <2>. QED
    BY <1>1, <1>6, <2>2, <2>4, BecomePlaced DEF Begin
<1>. QED
  BY <1>3, <1>4, <1>5, <1>6

(* A migration commits, with the tag that records it. *)
LEMMA CommitStep == \A s \in Server : Inv /\ Commit(s) => Inv'
<1>. SUFFICES ASSUME NEW s \in Server, Inv, Commit(s)
              PROVE  Inv'
  OBVIOUS
<1>1. /\ inst[s] \in Instance /\ inst \in [Server -> Instance] /\ TypeOK /\ inst[s].pc = "txn"
      /\ schema \subseteq Migration /\ tags = schema
  BY DEF Inv, TypeOK, Commit, SchemaRecorded
<1>2. /\ inst[s].next \in 1 .. (Latest + 1) /\ inst[s].knows \in 0 .. Latest
      /\ tagTable
      /\ inst[s].next <= inst[s].knows /\ inst[s].next \notin schema
      /\ 1 .. (inst[s].next - 1) \subseteq schema
      /\ inst[s].applied \subseteq schema
  BY <1>1 DEF Inv, Instance, Migrates, InTransaction
<1>3. inst[s].next \in Migration
  BY <1>2, ConstantsAssumption DEF Migration
<1>4. PICK new \in Instance :
             /\ Become(s, new) /\ new.pc = "apply" /\ new.knows = inst[s].knows
             /\ new.applied = inst[s].applied /\ new.next = inst[s].next + 1
  BY <1>1, <1>2, Moves DEF Commit
<1>5. /\ tagTable' = tagTable /\ stops' = stops
      /\ schema' = schema \cup {inst[s].next} /\ tags' = schema'
      /\ inst' \in [Server -> Instance] /\ inst'[s] = new
      /\ \A o \in Server : o # s => inst'[o] = inst[o]
  BY <1>1, <1>4 DEF Commit, Become
<1>6. schema' \subseteq Migration /\ schema \subseteq schema'
  BY <1>1, <1>3, <1>5
<1>7. TypeOK'
  BY <1>1, <1>2, <1>5, <1>6 DEF TypeOK
<1>8. 1 .. inst[s].next \subseteq schema'
  BY <1>2, <1>5, <1>6
<1>9. SchemaRecorded'
  BY <1>1, <1>2, <1>5, <1>8 DEF Inv, SchemaRecorded
<1>10. ASSUME NEW o \in Server
       PROVE  (Migrates(o) /\ InTransaction(o) /\ Boots(o))'
  <2>1. CASE o = s
    <3>1. new.next <= new.knows + 1 /\ 1 .. (new.next - 1) \subseteq schema'
      BY <1>2, <1>4, <1>8
    <3>. QED
      BY <1>2, <1>4, <1>5, <1>6, <2>1, <3>1 DEF Migrates, InTransaction, Boots
  <2>2. CASE o # s
    <3>1. inst'[o].pc = "txn" => inst'[o].next # inst[s].next
      BY <1>1, <1>5, <2>2 DEF Inv, OneAtATime
    <3>2. InTransaction(o)'
      BY <1>5, <2>2, <3>1 DEF Inv, InTransaction
    <3>3. Migrates(o)' /\ Boots(o)'
      BY <1>5, <1>6, <2>2 DEF Inv, Migrates, Boots
    <3>. QED
      BY <3>2, <3>3
  <2>. QED
    BY <2>1, <2>2
<1>11. OneAtATime'
  BY <1>4, <1>5 DEF Inv, OneAtATime
<1>. QED
  BY <1>7, <1>9, <1>10, <1>11 DEF Inv

(* An instance past the migrator reads the master key registry. *)
LEMMA ServeStep == \A s \in Server : Inv /\ Serve(s) => Inv'
<1>. SUFFICES ASSUME NEW s \in Server, Inv, Serve(s)
              PROVE  Inv'
  OBVIOUS
<1>1. TypeOK /\ inst[s].pc = "kek" /\ stops \in 0 .. MaxStops
  BY DEF Inv, TypeOK, Serve
<1>2. CASE 1 \in schema
  <2>1. PICK new \in Instance :
               /\ Become(s, new) /\ new.pc = "serving" /\ new.knows = inst[s].knows
               /\ new.migrate = inst[s].migrate
    BY <1>1, <1>2, Moves DEF Serve
  <2>2. Placed(s, new)
    BY <1>1, <1>2, <2>1 DEF Placed, Inv, Boots
  <2>. QED
    BY <1>1, <2>1, <2>2, BecomePlaced DEF Serve
<1>3. CASE 1 \notin schema
  BY <1>1, <1>3, DownPlaced, BecomePlaced DEF Serve
<1>. QED
  BY <1>2, <1>3

(* The invariant is inductive. *)
LEMMA NextInv == Inv /\ [Next]_vars => Inv'
<1>. SUFFICES ASSUME Inv, [Next]_vars
              PROVE  Inv'
  OBVIOUS
<1>1. CASE UNCHANGED vars
  BY <1>1 DEF vars, Inv, TypeOK, SchemaRecorded, Migrates, InTransaction, Boots, OneAtATime
<1>2. CASE Next
  BY <1>2, StartStop, TableSteps, LoopSteps, CommitStep, ServeStep DEF Next, Progress
<1>. QED
  BY <1>1, <1>2

-----------------------------------------------------------------------------
(* Every reachable state of booting instances is well typed. *)
THEOREM BootsTypeCorrect == Spec => []TypeOK
<1>1. Inv => TypeOK
  BY DEF Inv
<1>. QED
  BY <1>1, InitInv, NextInv, PTL DEF Spec

(* However many instances of whatever releases migrate at once, and          *)
(* wherever they are stopped, what exists is what is recorded, gaplessly.    *)
THEOREM MigrationsAreRecorded == Spec => []SchemaRecorded
<1>1. Inv => SchemaRecorded
  BY DEF Inv
<1>. QED
  BY <1>1, InitInv, NextInv, PTL DEF Spec

(* No instance serves before the tables it asks for exist, and all that its *)
(* release knows unless it was told not to migrate.                         *)
THEOREM ServersAreMigrated == Spec => []ServesMigrated
<1>1. Inv => ServesMigrated
  BY DEF Inv, Boots, ServesMigrated
<1>. QED
  BY <1>1, InitInv, NextInv, PTL DEF Spec

-----------------------------------------------------------------------------
(* The order of the natural numbers, as a relation, is well-founded. *)
LEMMA LessWellFounded == IsWellFoundedOn({p \in Nat \X Nat : p[1] < p[2]}, Nat)
BY NatLessThanWellFounded, Zenon DEF OpToRel

(* A set of numbers has a least one. *)
LEMMA Least == \A S \in SUBSET Nat : S # {} => \E x \in S : \A y \in S : x <= y
<1>. SUFFICES ASSUME NEW S \in SUBSET Nat, S # {}
              PROVE  \E x \in S : \A y \in S : x <= y
  OBVIOUS
<1>. DEFINE R == {p \in Nat \X Nat : p[1] < p[2]}
<1>1. IsWellFoundedOn(R, Nat)
  BY LessWellFounded
<1>. HIDE DEF R
<1>2. PICK x \in S : \A y \in S : ~(<<y, x>> \in R)
  BY <1>1, WFMin
<1>3. ASSUME NEW y \in S
      PROVE  x <= y
  <2>1. x \in Nat /\ y \in Nat
    OBVIOUS
  <2>2. y < x => <<y, x>> \in R
    BY <2>1 DEF R
  <2>. QED
    BY <1>2, <2>1, <2>2
<1>. QED
  BY <1>3

(* A bounded set of numbers has a greatest one. *)
LEMMA Greatest ==
  \A N \in Nat : \A S \in SUBSET (0 .. N) : S # {} => \E x \in S : \A y \in S : y <= x
<1>. SUFFICES ASSUME NEW N \in Nat, NEW S \in SUBSET (0 .. N), S # {}
              PROVE  \E x \in S : \A y \in S : y <= x
  OBVIOUS
<1>. DEFINE T == {N - y : y \in S}
<1>1. T \in SUBSET Nat /\ T # {}
  <2>1. \A y \in S : N - y \in Nat
    OBVIOUS
  <2>. QED
    BY <2>1
<1>2. PICK t \in T : \A u \in T : t <= u
  BY <1>1, Least
<1>3. PICK x \in S : t = N - x
  OBVIOUS
<1>4. ASSUME NEW y \in S
      PROVE  y <= x
  <2>1. x \in Int /\ y \in Int
    OBVIOUS
  <2>2. N - x <= N - y
    BY <1>2, <1>3
  <2>. QED
    BY <2>1, <2>2
<1>. QED
  BY <1>4

(* A bounded set of numbers is finite, and its size a number. *)
LEMMA Sizes ==
  \A N \in Nat : \A S \in SUBSET (0 .. N) : IsFiniteSet(S) /\ Cardinality(S) \in Nat
<1>. SUFFICES ASSUME NEW N \in Nat, NEW S \in SUBSET (0 .. N)
              PROVE  IsFiniteSet(S) /\ Cardinality(S) \in Nat
  OBVIOUS
<1>1. IsFiniteSet(0 .. N)
  BY FS_Interval
<1>2. IsFiniteSet(S)
  BY <1>1, FS_Subset
<1>. QED
  BY <1>2, FS_CardinalityType

(* A subset is no larger. *)
LEMMA SmallerSets ==
  \A N \in Nat : \A S \in SUBSET (0 .. N) : \A T \in SUBSET S : Cardinality(T) <= Cardinality(S)
<1>. SUFFICES ASSUME NEW N \in Nat, NEW S \in SUBSET (0 .. N), NEW T \in SUBSET S
              PROVE  Cardinality(T) <= Cardinality(S)
  OBVIOUS
<1>. QED
  BY Sizes, FS_Subset

(* The n newest of some ids: the greatest, all of them if there are at most *)
(* n, and at least one if there is any.                                     *)
LEMMA NewestOf ==
  \A N \in Nat : \A S \in SUBSET (0 .. N) : \A n \in Nat :
    /\ Newest(n, S) \subseteq S
    /\ \A i \in Newest(n, S) : \A j \in S : j > i => j \in Newest(n, S)
    /\ Cardinality(S) <= n => Newest(n, S) = S
    /\ S # {} /\ n # 0 => Newest(n, S) # {}
    /\ Cardinality(Newest(n, S)) < n => Newest(n, S) = S
<1>. SUFFICES ASSUME NEW N \in Nat, NEW S \in SUBSET (0 .. N), NEW n \in Nat
              PROVE  /\ Newest(n, S) \subseteq S
                     /\ \A i \in Newest(n, S) : \A j \in S : j > i => j \in Newest(n, S)
                     /\ Cardinality(S) <= n => Newest(n, S) = S
                     /\ S # {} /\ n # 0 => Newest(n, S) # {}
                     /\ Cardinality(Newest(n, S)) < n => Newest(n, S) = S
  OBVIOUS
<1>. DEFINE Above(i) == {j \in S : j > i}
            T == {i \in S : Cardinality(Above(i)) < n}
<1>0. T = Newest(n, S)
  BY DEF Newest
<1>1. \A i : i \in T <=> i \in S /\ Cardinality(Above(i)) < n
  OBVIOUS
<1>2. \A i \in S : Above(i) \in SUBSET (0 .. N) /\ Cardinality(Above(i)) \in Nat
  BY Sizes
<1>3. T \subseteq S /\ \A i \in S : i \in Int
  OBVIOUS
<1>. HIDE DEF T
<1>4. ASSUME NEW i \in T, NEW j \in S, j > i
      PROVE  j \in T
  <2>1. i \in Int /\ j \in Int /\ i \in S
    BY <1>3
  <2>2. Above(j) \in SUBSET Above(i)
    <3>1. \A l \in S : l > j => l > i
      BY <1>3, <1>4, <2>1
    <3>. QED
      BY <3>1
  <2>3. Cardinality(Above(j)) <= Cardinality(Above(i))
    BY <1>2, <2>1, <2>2, SmallerSets
  <2>. HIDE DEF Above
  <2>. QED
    BY <1>1, <1>2, <2>1, <2>3
<1>5. ASSUME Cardinality(S) <= n, NEW i \in S
      PROVE  i \in T
  <2>1. IsFiniteSet(S) /\ Cardinality(S) \in Nat
    BY Sizes
  <2>2. Cardinality(S \ {i}) = Cardinality(S) - 1
    BY <2>1, FS_RemoveElement
  <2>3. S \ {i} \in SUBSET (0 .. N) /\ Above(i) \in SUBSET (S \ {i})
    BY <1>3
  <2>4. Cardinality(Above(i)) <= Cardinality(S \ {i})
    BY <2>3, SmallerSets
  <2>. HIDE DEF Above
  <2>. QED
    BY <1>1, <1>2, <1>5, <2>1, <2>2, <2>4
<1>6. ASSUME S # {}, n # 0
      PROVE  T # {}
  <2>1. PICK i \in S : \A j \in S : j <= i
    BY <1>6, Greatest
  <2>2. Above(i) = {}
    <3>1. \A j \in S : ~(j > i)
      BY <1>3, <2>1
    <3>. QED
      BY <3>1
  <2>3. Cardinality(Above(i)) = 0
    BY <2>2, FS_EmptySet
  <2>. HIDE DEF Above
  <2>. QED
    BY <1>1, <1>6, <2>3
<1>7. ASSUME Cardinality(T) < n, T # S
      PROVE  FALSE
  <2>0. S \ T \in SUBSET (0 .. N) /\ S \ T # {}
    BY <1>3, <1>7
  <2>1. PICK i \in S \ T : \A j \in S \ T : j <= i
    BY <2>0, Greatest
  <2>2. Above(i) \in SUBSET T /\ T \in SUBSET (0 .. N)
    <3>1. \A j \in S : j > i => j \in T
      BY <1>3, <2>1
    <3>. QED
      BY <1>3, <3>1
  <2>3. Cardinality(Above(i)) <= Cardinality(T) /\ Cardinality(T) \in Nat
    BY <2>2, SmallerSets, Sizes
  <2>. HIDE DEF Above
  <2>. QED
    BY <1>1, <1>2, <1>7, <2>1, <2>3
<1>. QED
  BY <1>0, <1>3, <1>4, <1>5, <1>6, <1>7

-----------------------------------------------------------------------------
(* The ids a walk looks for. *)
Sought == IdsOf({row \in rows : Matches(row, reader.org, reader.action)})

(* An id belongs to one row, in the table or still to be inserted. *)
DrawnOnce ==
  \A w \in Writer : writing[w] # None =>
    /\ writing[w].id \notin IdsOf(rows)
    /\ \A o \in Writer \ {w} : writing[o] # None => writing[o].id # writing[w].id

(* A walk has returned what it sought down to the cursor, and only that. *)
Walked ==
  reader.pc # "idle" =>
    /\ reader.start \subseteq Sought
    /\ reader.pc = "page" => \A i \in reader.seen : i >= reader.cursor

WalkInv == LogTypeOK /\ DrawnOnce /\ Walked /\ WalkExact /\ NothingSkipped

(* Ids are the numbers up to a bound, which is the cursor of a first page. *)
LEMMA IdBound == \E N \in Nat : Id = 0 .. N /\ Ids * (MaxTime + 1) = N + 1
<1>. DEFINE N == Ids * (MaxTime + 1) - 1
<1>1. Ids \in Nat \ {0} /\ MaxTime + 1 \in Nat \ {0}
  BY LogAssumption
<1>2. \A a, b \in Nat \ {0} : a * b \in Nat \ {0}
  OBVIOUS
<1>3. Ids * (MaxTime + 1) \in Nat \ {0}
  BY <1>1, <1>2
<1>. QED
  BY <1>3 DEF Id

(* The state of a walk. *)
WalkState ==
  [pc : {"page", "done"}, org : Org, action : Action \cup {None}, limit : Limit,
   cursor : Id \cup {Ids * (MaxTime + 1)}, seen : SUBSET Id, got : Nat,
   start : SUBSET Id]

(* Under way, the reader has the fields of a walk. *)
LEMMA Walking ==
  LogTypeOK /\ reader.pc # "idle" => reader \in WalkState
BY DEF LogTypeOK, ReaderState, Idle, WalkState

(* Rows that come leave what was sought. *)
LEMMA MoreRows ==
  WalkInv /\ rows \subseteq rows' /\ reader' = reader => Sought \subseteq Sought'
BY DEF Sought, IdsOf, Matches

(* A step that leaves the reader where it is. *)
LEMMA ReaderKept ==
  ASSUME WalkInv, rows \subseteq rows', reader' = reader, LogTypeOK', DrawnOnce'
  PROVE  WalkInv'
<1>1. Sought \subseteq Sought'
  BY MoreRows
<1>2. Walked'
  BY <1>1 DEF WalkInv, Walked
<1>3. WalkExact'
  BY <1>1 DEF WalkInv, WalkExact, Sought
<1>4. NothingSkipped'
  BY DEF WalkInv, NothingSkipped
<1>. QED
  BY <1>2, <1>3, <1>4 DEF WalkInv

(* Initially there is no row and no walk. *)
LEMMA InitWalk == LogInit => WalkInv
<1>. SUFFICES ASSUME LogInit
              PROVE  WalkInv
  OBVIOUS
<1>1. LogTypeOK
  BY LogAssumption DEF LogInit, LogTypeOK, ReaderState
<1>2. DrawnOnce
  BY DEF LogInit, DrawnOnce
<1>3. reader.pc = "idle"
  BY DEF LogInit, Idle
<1>. QED
  BY <1>1, <1>2, <1>3 DEF WalkInv, Walked, WalkExact, NothingSkipped

(* Time passes. *)
LEMMA TickKeeps == WalkInv /\ Tick => WalkInv'
<1>. SUFFICES ASSUME WalkInv, Tick
              PROVE  WalkInv'
  OBVIOUS
<1>1. rows' = rows /\ reader' = reader /\ writing' = writing /\ now' \in 0 .. MaxTime
  BY LogAssumption DEF Tick, WalkInv, LogTypeOK
<1>2. LogTypeOK' /\ DrawnOnce'
  BY <1>1 DEF WalkInv, LogTypeOK, DrawnOnce
<1>. QED
  BY <1>1, <1>2, ReaderKept

(* A row draws an id that no other has. *)
LEMMA RecordKeeps ==
  \A w \in Writer, id \in Id, o \in Org, a \in Action :
    WalkInv /\ Record(w, id, o, a) => WalkInv'
<1>. SUFFICES ASSUME NEW w \in Writer, NEW id \in Id, NEW o \in Org, NEW a \in Action,
                     WalkInv, Record(w, id, o, a)
              PROVE  WalkInv'
  OBVIOUS
<1>. DEFINE new == [id |-> id, org |-> o, action |-> a, after |-> IdsOf(rows)]
<1>1. rows' = rows /\ reader' = reader /\ now' = now
  BY DEF Record
<1>2. IdsOf(rows) \subseteq Id
  BY DEF WalkInv, LogTypeOK, IdsOf, Row
<1>3. new \in Row /\ new.id = id
  BY <1>2 DEF Row
<1>4. writing' = [writing EXCEPT ![w] = new]
  BY DEF Record
<1>5. id \notin IdsOf(rows) /\ \A v \in Writer : writing[v] # None => writing[v].id # id
  BY DEF Record, Drawn, IdsOf
<1>. HIDE DEF new
<1>6. writing' \in [Writer -> Row \cup {None}]
      /\ writing'[w] = new /\ \A v \in Writer : v # w => writing'[v] = writing[v]
  BY <1>3, <1>4 DEF WalkInv, LogTypeOK
<1>7. LogTypeOK'
  BY <1>1, <1>6 DEF WalkInv, LogTypeOK
<1>8. DrawnOnce'
  BY <1>1, <1>3, <1>5, <1>6 DEF WalkInv, DrawnOnce
<1>. QED
  BY <1>1, <1>7, <1>8, ReaderKept

(* It is inserted; walks may miss it, and have lost nothing. *)
LEMMA AppendKeeps == \A w \in Writer : WalkInv /\ Append(w) => WalkInv'
<1>. SUFFICES ASSUME NEW w \in Writer, WalkInv, Append(w)
              PROVE  WalkInv'
  OBVIOUS
<1>1. PICK row : row = writing[w]
  OBVIOUS
<1>2. row \in Row /\ row # None
  BY <1>1 DEF WalkInv, LogTypeOK, Append
<1>3. rows' = rows \cup {row} /\ reader' = reader /\ now' = now
  BY <1>1 DEF Append
<1>4. writing' \in [Writer -> Row \cup {None}]
      /\ writing'[w] = None /\ \A v \in Writer : v # w => writing'[v] = writing[v]
  BY DEF WalkInv, LogTypeOK, Append
<1>5. \A p \in rows : p.id # row.id
  BY <1>1, <1>2 DEF WalkInv, DrawnOnce, IdsOf
<1>6. LogTypeOK'
  BY <1>2, <1>3, <1>4, <1>5 DEF WalkInv, LogTypeOK
<1>7. \A v \in Writer : v # w /\ writing[v] # None => writing[v].id # row.id
  BY <1>1, <1>2 DEF WalkInv, DrawnOnce
<1>8. DrawnOnce'
  BY <1>3, <1>4, <1>7 DEF WalkInv, DrawnOnce, IdsOf
<1>. QED
  BY <1>3, <1>6, <1>8, ReaderKept

(* Or it is not. *)
LEMMA LoseKeeps == \A w \in Writer : WalkInv /\ Lose(w) => WalkInv'
<1>. SUFFICES ASSUME NEW w \in Writer, WalkInv, Lose(w)
              PROVE  WalkInv'
  OBVIOUS
<1>1. rows' = rows /\ reader' = reader /\ now' = now
  BY DEF Lose
<1>2. writing' \in [Writer -> Row \cup {None}]
      /\ writing'[w] = None /\ \A v \in Writer : v # w => writing'[v] = writing[v]
  BY DEF WalkInv, LogTypeOK, Lose
<1>3. LogTypeOK'
  BY <1>1, <1>2 DEF WalkInv, LogTypeOK
<1>4. DrawnOnce'
  BY <1>1, <1>2 DEF WalkInv, DrawnOnce
<1>. QED
  BY <1>1, <1>3, <1>4, ReaderKept

(* A walk begins above every id. *)
LEMMA OpenKeeps ==
  ASSUME NEW o \in Org, NEW a \in Action \cup {None}, NEW limit \in Limit, WalkInv,
         Open(o, a, limit)
  PROVE  WalkInv'
<1>. DEFINE found == IdsOf({row \in rows : Matches(row, o, a)})
<1>1. rows' = rows /\ writing' = writing /\ now' = now
  BY DEF Open
<1>2. PICK N \in Nat : Id = 0 .. N /\ Ids * (MaxTime + 1) = N + 1
  BY IdBound
<1>3. found \subseteq Id
  BY DEF WalkInv, LogTypeOK, IdsOf, Row
<1>. HIDE DEF found
<1>4. reader' = [pc |-> "page", org |-> o, action |-> a, limit |-> limit,
                 cursor |-> Ids * (MaxTime + 1), seen |-> {}, got |-> 0, start |-> found]
  BY DEF Open, found
<1>5. reader' \in WalkState
  BY <1>3, <1>4 DEF WalkState
<1>6. LogTypeOK' /\ DrawnOnce'
  BY <1>1, <1>5 DEF WalkInv, LogTypeOK, ReaderState, WalkState, DrawnOnce
<1>7. Sought' = found
  BY <1>1, <1>4 DEF Sought, found, IdsOf, Matches
<1>8. Walked'
  BY <1>4, <1>7 DEF Walked
<1>9. WalkExact'
  <2>1. Cardinality({}) = 0
    BY FS_EmptySet
  <2>. QED
    BY <1>4, <1>7, <2>1 DEF WalkExact, Sought
<1>10. NothingSkipped'
  <2>1. \A i \in found : i < N + 1
    BY <1>2, <1>3
  <2>2. \A i \in found : ~(i >= N + 1)
    BY <1>2, <1>3, <2>1
  <2>. QED
    BY <1>2, <1>4, <2>2 DEF NothingSkipped
<1>. QED
  BY <1>6, <1>8, <1>9, <1>10 DEF WalkInv

-----------------------------------------------------------------------------
(* A page: the newest of what is below the cursor, more than fit of which   *)
(* say that there are more.                                                 *)
Fetched == Newest(reader.limit + 1, Below(reader.cursor))
Items == Newest(reader.limit, Fetched)
More == Cardinality(Fetched) > reader.limit
Last == LastReturned(Fetched, Items)

(* What a page returns: all there is, or the top of it down to the last. *)
LEMMA Paging ==
  ASSUME WalkInv, reader.pc = "page"
  PROVE  /\ Items \subseteq Below(reader.cursor)
         /\ IsFiniteSet(Items) /\ Cardinality(Items) \in Nat
         /\ ~More => Items = Below(reader.cursor)
         /\ More /\ reader.limit # 0 =>
              /\ Last \in Items /\ \A j \in Items : Last <= j
              /\ \A j \in Below(reader.cursor) : j >= Last => j \in Items
<1>1. PICK N \in Nat : Id = 0 .. N /\ Ids * (MaxTime + 1) = N + 1
  BY IdBound
<1>. DEFINE B == Below(reader.cursor)
<1>2. B \in SUBSET (0 .. N)
  BY <1>1 DEF WalkInv, LogTypeOK, Below, IdsOf, Row
<1>. HIDE DEF B
<1>3. reader.limit \in Limit /\ Limit \subseteq Nat
  BY Walking, LogAssumption DEF WalkInv, WalkState
<1>4. PICK l \in Nat : l = reader.limit
  BY <1>3
<1>5. l + 1 \in Nat
  OBVIOUS
<1>6. Fetched = Newest(l + 1, B)
  BY <1>4 DEF Fetched, B
<1>7. /\ Fetched \subseteq B
      /\ \A i \in Fetched : \A j \in B : j > i => j \in Fetched
      /\ Cardinality(Fetched) < l + 1 => Fetched = B
  BY <1>2, <1>5, <1>6, NewestOf
<1>8. Fetched \in SUBSET (0 .. N)
  BY <1>2, <1>7
<1>9. Items = Newest(l, Fetched)
  BY <1>4 DEF Items
<1>10. /\ Items \subseteq Fetched
       /\ \A i \in Items : \A j \in Fetched : j > i => j \in Items
       /\ Cardinality(Fetched) <= l => Items = Fetched
       /\ Fetched # {} /\ l # 0 => Items # {}
  BY <1>8, <1>9, NewestOf
<1>11. IsFiniteSet(Items) /\ Cardinality(Items) \in Nat /\ Cardinality(Fetched) \in Nat
  BY <1>8, <1>10, Sizes
<1>12. ~More => Items = B
  BY <1>4, <1>7, <1>10, <1>11 DEF More
<1>13. ASSUME More, l # 0
       PROVE  /\ Last \in Items /\ \A j \in Items : Last <= j
              /\ \A j \in B : j >= Last => j \in Items
  <2>1. Fetched # {}
    <3>1. Cardinality({}) = 0
      BY FS_EmptySet
    <3>. QED
      BY <1>4, <1>13, <3>1 DEF More
  <2>2. Items \in SUBSET Nat /\ Items # {}
    BY <1>8, <1>10, <1>13, <2>1
  <2>3. \E i \in Items : \A j \in Items : i <= j
    BY <2>2, Least
  <2>4. Last \in Items /\ \A j \in Items : Last <= j
    BY <2>3 DEF Last, LastReturned
  <2>5. ASSUME NEW j \in B, j >= Last
        PROVE  j \in Items
    <3>1. j \in Int /\ Last \in Int
      BY <1>2, <2>2, <2>4
    <3>2. j = Last \/ j > Last
      BY <2>5, <3>1
    <3>. QED
      BY <1>7, <1>10, <2>4, <3>2
  <2>. QED
    BY <2>4, <2>5
<1>. QED
  BY <1>4, <1>7, <1>10, <1>11, <1>12, <1>13 DEF B

(* What is below the cursor is sought, and has not been returned. *)
LEMMA BelowIsNew ==
  ASSUME WalkInv, reader.pc = "page"
  PROVE  /\ Below(reader.cursor) \subseteq Sought
         /\ Below(reader.cursor) \cap reader.seen = {}
         /\ \A i \in Below(reader.cursor) : i \in Id /\ i < reader.cursor
         /\ \A i \in Sought : i \in Id
         /\ \A i \in Sought : i >= reader.cursor \/ i \in Below(reader.cursor)
         /\ reader.cursor \in Nat /\ Id \subseteq Nat
<1>1. PICK N \in Nat : Id = 0 .. N /\ Ids * (MaxTime + 1) = N + 1
  BY IdBound
<1>2. reader.cursor \in Nat /\ Id \subseteq Nat
  BY <1>1, Walking DEF WalkInv, WalkState
<1>3. \A row \in rows : row.id \in Id
  BY DEF WalkInv, LogTypeOK, Row
<1>4. \A i \in Below(reader.cursor) : i \in Id /\ i < reader.cursor /\ i \in Sought
  BY <1>3 DEF Below, IdsOf, Sought
<1>5. \A i \in reader.seen : i \in Id /\ i >= reader.cursor
  BY Walking DEF WalkInv, WalkState, Walked
<1>6. Below(reader.cursor) \cap reader.seen = {}
  <2>1. \A i \in Id : i < reader.cursor => ~(i >= reader.cursor)
    BY <1>2
  <2>. QED
    BY <1>4, <1>5, <2>1
<1>7. \A i \in Sought : i \in Id
  BY <1>3 DEF Sought, IdsOf
<1>8. ASSUME NEW i \in Sought, ~(i >= reader.cursor)
      PROVE  i \in Below(reader.cursor)
  <2>1. i \in Nat
    BY <1>2, <1>7, <1>8
  <2>2. i < reader.cursor
    BY <1>2, <1>8, <2>1
  <2>. QED
    BY <2>2 DEF Sought, Below, IdsOf
<1>. QED
  BY <1>2, <1>4, <1>6, <1>7, <1>8

(* A page dies, or the walk moves on: it has all it sought down to the new  *)
(* cursor, or all there is.                                                 *)
LEMMA ReadPageKeeps ==
  ASSUME WalkInv, ReadPage
  PROVE  WalkInv'
<1>1. rows' = rows /\ writing' = writing /\ now' = now /\ reader.pc = "page"
  BY DEF ReadPage
<1>2. reader' = IF More /\ reader.limit = 0
                  THEN Idle
                  ELSE [reader EXCEPT
                          !.pc = IF More THEN "page" ELSE "done",
                          !.seen = @ \cup Items, !.got = @ + Cardinality(Items),
                          !.cursor = IF More THEN Last ELSE @]
  BY Zenon DEF ReadPage, Fetched, Items, More, Last
<1>3. DrawnOnce'
  BY <1>1 DEF WalkInv, DrawnOnce
<1>4. CASE More /\ reader.limit = 0
  <2>1. reader' = Idle
    BY <1>2, <1>4
  <2>2. reader'.pc = "idle"
    BY <2>1 DEF Idle
  <2>3. LogTypeOK'
    BY <1>1, <2>1 DEF WalkInv, LogTypeOK, ReaderState
  <2>. QED
    BY <1>3, <2>2, <2>3 DEF WalkInv, Walked, WalkExact, NothingSkipped
<1>5. CASE ~(More /\ reader.limit = 0)
  <2>. DEFINE p == IF More THEN "page" ELSE "done"
              c == IF More THEN Last ELSE reader.cursor
              g == reader.got + Cardinality(Items)
  <2>1. reader' = [reader EXCEPT !.pc = p, !.seen = reader.seen \cup Items, !.got = g, !.cursor = c]
    BY <1>2, <1>5
  <2>2. reader \in WalkState
    BY <1>1, Walking DEF WalkInv
  <2>3. /\ Items \subseteq Below(reader.cursor)
        /\ IsFiniteSet(Items) /\ Cardinality(Items) \in Nat
        /\ ~More => Items = Below(reader.cursor)
        /\ More => /\ Last \in Items /\ \A j \in Items : Last <= j
                   /\ \A j \in Below(reader.cursor) : j >= Last => j \in Items
    BY <1>1, <1>5, Paging
  <2>4. /\ Below(reader.cursor) \subseteq Sought
        /\ Below(reader.cursor) \cap reader.seen = {}
        /\ \A i \in Below(reader.cursor) : i \in Id /\ i < reader.cursor
        /\ \A i \in Sought : i \in Id
        /\ \A i \in Sought : i >= reader.cursor \/ i \in Below(reader.cursor)
        /\ reader.cursor \in Nat /\ Id \subseteq Nat
    BY <1>1, BelowIsNew
  <2>5. c \in Id \cup {Ids * (MaxTime + 1)} /\ g \in Nat /\ p \in {"page", "done"}
    BY <2>2, <2>3, <2>4 DEF WalkState
  <2>. HIDE DEF p, c, g
  <2>6. /\ reader' \in WalkState
        /\ reader'.pc = p /\ reader'.org = reader.org /\ reader'.action = reader.action
        /\ reader'.seen = reader.seen \cup Items /\ reader'.got = g /\ reader'.cursor = c
        /\ reader'.start = reader.start
    <3>1. reader.seen \cup Items \in SUBSET Id
      BY <2>2, <2>3, <2>4 DEF WalkState
    <3>. QED
      BY <2>1, <2>2, <2>5, <3>1 DEF WalkState
  <2>7. LogTypeOK'
    BY <1>1, <2>6 DEF WalkInv, LogTypeOK, ReaderState, WalkState
  <2>8. Sought' = Sought
    BY <1>1, <2>6 DEF Sought, IdsOf, Matches
  <2>9. /\ reader.start \subseteq Sought /\ reader.seen \subseteq Sought
        /\ \A i \in reader.seen : i >= reader.cursor
        /\ reader.got = Cardinality(reader.seen)
        /\ \A i \in reader.start : i >= reader.cursor => i \in reader.seen
    BY <1>1 DEF WalkInv, Walked, WalkExact, NothingSkipped, Sought
  <2>10. g = Cardinality(reader.seen \cup Items)
    <3>1. PICK N \in Nat : Id = 0 .. N
      BY IdBound
    <3>2. IsFiniteSet(reader.seen) /\ Cardinality(reader.seen) \in Nat
      BY <2>2, <3>1, Sizes DEF WalkState
    <3>3. reader.seen \cap Items = {} /\ Cardinality({}) = 0
      BY <2>3, <2>4, FS_EmptySet
    <3>4. Cardinality(reader.seen \cup Items) = Cardinality(reader.seen) + Cardinality(Items) - 0
      BY <2>3, <3>2, <3>3, FS_Union
    <3>. QED
      BY <2>3, <2>9, <3>2, <3>4 DEF g
  <2>11. ASSUME p = "page"
         PROVE  /\ \A i \in reader.seen \cup Items : i >= c
                /\ \A i \in reader.start : i >= c => i \in reader.seen \cup Items
    <3>1. More /\ c = Last
      BY <2>11 DEF p, c
    <3>2. c \in Nat /\ c < reader.cursor /\ c \in Items
      BY <2>3, <2>4, <3>1
    <3>3. \A i \in reader.seen : i \in Nat
      BY <2>4, <2>9
    <3>4. \A i \in reader.seen : i >= c
      BY <2>4, <2>9, <3>2, <3>3
    <3>5. \A i \in Items : i \in Nat /\ i >= c
      BY <2>3, <2>4, <3>1, <3>2
    <3>6. \A i \in reader.start : i >= c => i \in reader.seen \cup Items
      BY <2>3, <2>4, <2>9, <3>1
    <3>. QED
      BY <3>4, <3>5, <3>6
  <2>12. ASSUME p = "done"
         PROVE  reader.start \subseteq reader.seen \cup Items
    <3>1. ~More
      BY <2>12 DEF p
    <3>. QED
      BY <2>3, <2>4, <2>9, <3>1
  <2>13. Walked'
    BY <2>6, <2>8, <2>9, <2>11 DEF Walked
  <2>14. WalkExact'
    <3>1. reader'.got = Cardinality(reader'.seen)
      BY <2>6, <2>10
    <3>2. reader'.seen \subseteq Sought'
      BY <2>3, <2>4, <2>6, <2>8, <2>9
    <3>3. reader'.pc = "done" => reader'.start \subseteq reader'.seen
      BY <2>6, <2>12
    <3>. QED
      BY <3>1, <3>2, <3>3 DEF WalkExact, Sought
  <2>15. NothingSkipped'
    BY <2>6, <2>11 DEF NothingSkipped
  <2>. QED
    BY <1>3, <2>7, <2>13, <2>14, <2>15 DEF WalkInv
<1>. QED
  BY <1>4, <1>5

(* The invariant of the log is inductive. *)
LEMMA NextWalk == WalkInv /\ [LogNext]_logVars => WalkInv'
<1>. SUFFICES ASSUME WalkInv, [LogNext]_logVars
              PROVE  WalkInv'
  OBVIOUS
<1>1. CASE Tick
  BY <1>1, TickKeeps
<1>2. ASSUME NEW w \in Writer, NEW id \in Id, NEW o \in Org, NEW a \in Action,
             Record(w, id, o, a)
      PROVE  WalkInv'
  BY <1>2, RecordKeeps
<1>3. ASSUME NEW w \in Writer, Append(w) \/ Lose(w)
      PROVE  WalkInv'
  BY <1>3, AppendKeeps, LoseKeeps
<1>4. ASSUME NEW o \in Org, NEW a \in Action \cup {None}, NEW limit \in Limit, Open(o, a, limit)
      PROVE  WalkInv'
  BY <1>4, OpenKeeps
<1>5. CASE ReadPage
  BY <1>5, ReadPageKeeps
<1>6. CASE UNCHANGED logVars
  <2>1. rows' = rows /\ writing' = writing /\ now' = now /\ reader' = reader
    BY <1>6 DEF logVars
  <2>2. LogTypeOK' /\ DrawnOnce'
    BY <2>1 DEF WalkInv, LogTypeOK, DrawnOnce
  <2>. QED
    BY <2>1, <2>2, ReaderKept
<1>. QED
  BY <1>1, <1>2, <1>3, <1>4, <1>5, <1>6 DEF LogNext

(* Every reachable state of the audit log is well typed, and no two rows    *)
(* have the same id, whoever draws and inserts them when.                   *)
THEOREM LogTypeCorrect == LogSpec => []LogTypeOK
<1>1. WalkInv => LogTypeOK
  BY DEF WalkInv
<1>. QED
  BY <1>1, InitWalk, NextWalk, PTL DEF LogSpec

(* A walk returns each row at most once and none it was not asked for; when *)
(* it ends it has all that were there when it began (audit.repo.ts:31).     *)
THEOREM WalksAreExact == LogSpec => []WalkExact
<1>1. WalkInv => WalkExact
  BY DEF WalkInv
<1>. QED
  BY <1>1, InitWalk, NextWalk, PTL DEF LogSpec

(* A page that is not the last leaves no row behind, above its cursor, that *)
(* was there when the walk began (audit.repo.ts:51).                        *)
THEOREM WalksSkipNothing == LogSpec => []NothingSkipped
<1>1. WalkInv => NothingSkipped
  BY DEF WalkInv
<1>. QED
  BY <1>1, InitWalk, NextWalk, PTL DEF LogSpec
=============================================================================
