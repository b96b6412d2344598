------------------------------ MODULE Migrator ------------------------------
(***************************************************************************)
(* Booting instances against one database: `cuki serve` applies the        *)
(* migrations its binary embeds, each in a transaction of its own with the *)
(* tag that records it, then looks for its master key and serves.  Several *)
(* instances, of several releases, boot at once; any may stop at any step, *)
(* and is started again.                                                   *)
(*                                                                         *)
(* Postgres: the DDL of a transaction is seen by no one until it commits;  *)
(* another transaction that creates the same objects waits for it, and     *)
(* fails if it commits.  Left out: what the migrations create, and which   *)
(* key an instance boots with (module Vault).                              *)
(***************************************************************************)
EXTENDS Integers

CONSTANTS
  Server,     \* instances
  Latest,     \* migrations of the latest release; an older one has fewer
  MaxStops    \* bound: how often instances stop

ASSUME ConstantsAssumption == Latest \in Nat \ {0} /\ MaxStops \in Nat

VARIABLES
  tagTable,  \* does _cuki_migrations exist?
  tags,      \* table _cuki_migrations
  schema,    \* the migrations whose objects exist
  inst,      \* local state of every instance
  stops      \* how often an instance has stopped so far

vars == <<tagTable, tags, schema, inst, stops>>

-----------------------------------------------------------------------------
Migration == 1 .. Latest

(* knows: the binary's migrations are 1 .. knows.  migrate: no --no-migrate. *)
(* applied: the tags as they were read.  next: position in the loop.         *)
Instance ==
  [pc : {"down", "died", "table", "tags", "apply", "txn", "kek", "serving"},
   knows : 0 .. Latest, migrate : BOOLEAN,
   applied : SUBSET Migration, next : 1 .. (Latest + 1)]
Down == [pc |-> "down", knows |-> 0, migrate |-> FALSE, applied |-> {}, next |-> 1]

TypeOK ==
  /\ tagTable \in BOOLEAN
  /\ tags \subseteq Migration /\ schema \subseteq Migration
  /\ tags # {} => tagTable
  /\ inst \in [Server -> Instance]
  /\ stops \in 0 .. MaxStops

Init ==
  /\ tagTable = FALSE /\ tags = {} /\ schema = {}
  /\ inst = [s \in Server |-> Down]
  /\ stops = 0

-----------------------------------------------------------------------------
Become(s, new) == inst' = [inst EXCEPT ![s] = new]
Goto(s, pc) == inst' = [inst EXCEPT ![s].pc = pc]
Die(s) == Become(s, [Down EXCEPT !.pc = "died", !.migrate = inst[s].migrate])
database == <<tagTable, tags, schema>>

Start(s, knows, migrate) ==
  /\ inst[s].pc = "down"
  /\ Become(s, [Down EXCEPT !.pc = IF migrate THEN "table" ELSE "kek",
                            !.knows = knows, !.migrate = migrate])
  /\ UNCHANGED <<database, stops>>

CreateNoTable(s) ==   \* mutant: the table is taken to be there
  /\ inst[s].pc = "table"
  /\ Goto(s, "tags")
  /\ UNCHANGED <<database, stops>>

CreateTagTable(s) ==
  /\ inst[s].pc = "table"
  /\ tagTable' = TRUE
  /\ Goto(s, "tags")
  /\ UNCHANGED <<tags, schema, stops>>

ReadTags(s) ==
  /\ inst[s].pc = "tags"
  /\ Become(s, [inst[s] EXCEPT !.pc = "apply", !.applied = tags])
  /\ UNCHANGED <<database, stops>>

(* The loop over the embedded migrations. *)
Advance(s) == Become(s, [inst[s] EXCEPT !.pc = "apply", !.next = @ + 1])

Skip(s) ==
  /\ inst[s].pc = "apply" /\ inst[s].next \in inst[s].applied /\ inst[s].next <= inst[s].knows
  /\ Advance(s)
  /\ UNCHANGED <<database, stops>>

EndOfLoop(s) ==
  /\ inst[s].pc = "apply" /\ inst[s].next > inst[s].knows
  /\ Goto(s, "kek")
  /\ UNCHANGED <<database, stops>>

Waits(s) == \E o \in Server \ {s} : inst[o].pc = "txn" /\ inst[o].next = inst[s].next

BeginUntransacted(s) ==   \* mutant: no transaction, each statement commits alone
  /\ inst[s].pc = "apply" /\ inst[s].next \notin inst[s].applied /\ inst[s].next <= inst[s].knows
  /\ ~Waits(s)
  /\ IF inst[s].next \in schema THEN Die(s) /\ UNCHANGED schema
     ELSE Goto(s, "txn") /\ schema' = schema \cup {inst[s].next}
  /\ UNCHANGED <<tagTable, tags, stops>>

BeginHanging(s) ==   \* mutant: CREATE IF NOT EXISTS, retried until it creates
  /\ inst[s].pc = "apply" /\ inst[s].next \notin inst[s].applied /\ inst[s].next <= inst[s].knows
  /\ ~Waits(s) /\ inst[s].next \notin schema /\ 1 .. inst[s].next - 1 \subseteq schema
  /\ Goto(s, "txn")
  /\ UNCHANGED <<database, stops>>

(* The statements of a migration.  They fail when the objects are there, or *)
(* those they build on are not; the failure is a defect and ends the boot.  *)
Begin(s) ==
  /\ inst[s].pc = "apply" /\ inst[s].next \notin inst[s].applied /\ inst[s].next <= inst[s].knows
  /\ ~Waits(s)
  /\ IF inst[s].next \in schema \/ ~(1 .. inst[s].next - 1 \subseteq schema)
       THEN Die(s) ELSE Goto(s, "txn")
  /\ UNCHANGED <<database, stops>>

Commit(s) ==
  /\ inst[s].pc = "txn"
  /\ schema' = schema \cup {inst[s].next}
  /\ tags' = tags \cup {inst[s].next}
  /\ Advance(s)
  /\ UNCHANGED <<tagTable, stops>>

ServeUnmigrated(s) ==   \* mutant: the registry is not read before serving
  /\ inst[s].pc = "kek"
  /\ Goto(s, "serving")
  /\ UNCHANGED <<database, stops>>

(* bootstrapKek reads kek_versions, a table of the first migration. *)
Serve(s) ==
  /\ inst[s].pc = "kek"
  /\ IF 1 \in schema THEN Goto(s, "serving") ELSE Die(s)
  /\ UNCHANGED <<database, stops>>

(* An instance is stopped, loses its connection or fails at a statement; a  *)
(* transaction it was in is rolled back.                                    *)
Stop(s) ==
  /\ inst[s].pc \notin {"down", "died"} /\ stops < MaxStops
  /\ stops' = stops + 1
  /\ Become(s, Down)
  /\ UNCHANGED database

(* Whoever runs it starts an instance again that has died. *)
Recover(s) ==
  /\ inst[s].pc = "died"
  /\ Become(s, Down)
  /\ UNCHANGED <<database, stops>>

-----------------------------------------------------------------------------
Progress(s) ==
  CreateTagTable(s) \/ ReadTags(s) \/ Skip(s) \/ EndOfLoop(s) \/ Begin(s) \/ Commit(s) \/ Serve(s)
Boot(s) == \E knows \in Migration : Start(s, knows, TRUE)

Next == \E s \in Server :
  \/ \E knows \in Migration, migrate \in BOOLEAN : Start(s, knows, migrate)
  \/ Progress(s) \/ Stop(s) \/ Recover(s)

Spec == Init /\ [][Next]_vars

(* Code that can go on does.  An instance that is down is started, now and  *)
(* then with migrations enabled.                                            *)
FairSpec ==
  Spec /\ \A s \in Server : WF_vars(Progress(s)) /\ WF_vars(Recover(s)) /\ SF_vars(Boot(s))

-----------------------------------------------------------------------------
(* What exists is what is recorded, in order and without gaps, whoever      *)
(* stops where (migrator.ts:26: statements and tag in one transaction).     *)
(* The next boot relies on it: it can neither redo nor skip a half-applied  *)
(* migration.                                                               *)
SchemaRecorded ==
  /\ schema = tags
  /\ \A m \in schema : 1 .. m \subseteq schema

(* An instance that serves has the tables it asks for, and all that its     *)
(* release knows unless it was told not to migrate (app.ts:44-45).          *)
ServesMigrated ==
  \A s \in Server : inst[s].pc = "serving" =>
    /\ 1 \in schema
    /\ inst[s].migrate => 1 .. inst[s].knows \subseteq schema

(* Instances that die in each other's way are started again, and once       *)
(* nobody stops them any more all of them serve.                            *)
AllServe == <>[](\A s \in Server : inst[s].pc = "serving")

(* Migrating is idempotent (migrator.ts:6): a boot that nothing stopped     *)
(* does not fail because another instance migrates.  False: both read the   *)
(* tags before either records one.                                          *)
BootsTogether == \A s \in Server : ~(inst[s].pc = "died" /\ inst[s].migrate)
============================================================================
