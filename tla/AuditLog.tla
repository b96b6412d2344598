------------------------------ MODULE AuditLog ------------------------------
(***************************************************************************)
(* The append-only audit log and its keyset pagination.  Handlers on any   *)
(* instance draw a ULID for a row, then insert it; meanwhile a reader      *)
(* walks the log from the newest id to the oldest, a page per request,     *)
(* with the last id of a page as the cursor of the next.                   *)
(*                                                                         *)
(* A ULID is the millisecond it was drawn in and a random part: within a   *)
(* millisecond, ids are in no particular order.  Left out: the columns no  *)
(* filter looks at, and the time filters (a filter is on one column here). *)
(***************************************************************************)
EXTENDS Integers, FiniteSets

CONSTANTS
  Org,      \* organizations.id
  Action,   \* audit_logs.action: "secret.read", "key.write", ...
  Writer,   \* requests with a row to append
  Limit,    \* page sizes a reader asks for (the code caps them at 200)
  Ids,      \* bound: ids that can be drawn in one millisecond
  MaxTime,  \* bound: the clock stops here
  None      \* no value

ASSUME LogAssumption ==
  /\ Limit \subseteq Nat
  /\ Ids \in Nat \ {0} /\ MaxTime \in Nat
  /\ None \notin Org \cup Action

VARIABLES
  now,      \* the clock of every instance
  rows,     \* table audit_logs
  writing,  \* the row each writer has still to insert, or None
  reader    \* a traversal of the log, page by page

logVars == <<now, rows, writing, reader>>

-----------------------------------------------------------------------------
Id == 0 .. (Ids * (MaxTime + 1) - 1)
DrawnAt(t) == (Ids * t) .. (Ids * (t + 1) - 1)

(* after is history: the ids in the table when this row's id was drawn.     *)
Row == [id : Id, org : Org, action : Action, after : SUBSET Id]

IdsOf(rs) == {row.id : row \in rs}

(* The cursor of the first page is no cursor: above every id.  got and      *)
(* start are history: how many rows were returned, and what the first page  *)
(* could have returned.                                                     *)
Idle == [pc |-> "idle"]
ReaderState ==
  {Idle} \cup [pc : {"page", "done"}, org : Org, action : Action \cup {None}, limit : Limit,
               cursor : Id \cup {Ids * (MaxTime + 1)}, seen : SUBSET Id, got : Nat,
               start : SUBSET Id]

LogTypeOK ==
  /\ now \in 0 .. MaxTime
  /\ rows \subseteq Row
  /\ writing \in [Writer -> Row \cup {None}]
  /\ reader \in ReaderState
  /\ \A p, q \in rows : p.id = q.id => p = q   \* the primary key

LogInit ==
  /\ now = 0 /\ rows = {} /\ reader = Idle
  /\ writing = [w \in Writer |-> None]

-----------------------------------------------------------------------------
Tick ==
  /\ now < MaxTime /\ now' = now + 1
  /\ UNCHANGED <<rows, writing, reader>>

DrawnByRows == IdsOf(rows)   \* mutant: two instances can draw the same id

Drawn == IdsOf(rows) \cup IdsOf({writing[w] : w \in Writer} \ {None})

(* AuditService.record: newId(), then the insert. *)
Record(w, id, o, a) ==
  /\ writing[w] = None
  /\ id \in DrawnAt(now) \ Drawn
  /\ writing' = [writing EXCEPT ![w] = [id |-> id, org |-> o, action |-> a, after |-> IdsOf(rows)]]
  /\ UNCHANGED <<now, rows, reader>>

Append(w) ==
  /\ writing[w] # None
  /\ rows' = rows \cup {writing[w]}
  /\ writing' = [writing EXCEPT ![w] = None]
  /\ UNCHANGED <<now, reader>>

(* The insert fails; that is logged, and the caller goes on. *)
Lose(w) ==
  /\ writing[w] # None
  /\ writing' = [writing EXCEPT ![w] = None]
  /\ UNCHANGED <<now, rows, reader>>

-----------------------------------------------------------------------------
Matches(row, o, a) == row.org = o /\ a \in {None, row.action}

Open(o, a, limit) ==
  /\ reader.pc \in {"idle", "done"}
  /\ reader' = [pc |-> "page", org |-> o, action |-> a, limit |-> limit,
                cursor |-> Ids * (MaxTime + 1), seen |-> {}, got |-> 0,
                start |-> IdsOf({row \in rows : Matches(row, o, a)})]
  /\ UNCHANGED <<now, rows, writing>>

BelowOrAt(cursor) ==   \* mutant: lte for lt
  IdsOf({row \in rows : Matches(row, reader.org, reader.action) /\ row.id <= cursor})

Below(cursor) ==
  IdsOf({row \in rows : Matches(row, reader.org, reader.action) /\ row.id < cursor})

(* The n largest ids. *)
Newest(n, ids) == {i \in ids : Cardinality({j \in ids : j > i}) < n}

LastFetched(fetched, items) ==   \* mutant: the row that only tells there are more
  CHOOSE i \in fetched : \A j \in fetched : i <= j

LastReturned(fetched, items) == CHOOSE i \in items : \A j \in items : i <= j

(* One request: limit + 1 rows tell whether there are more.  With a limit   *)
(* of 0 and any row to fetch there is no last item, and the request dies.   *)
ReadPage ==
  LET fetched == Newest(reader.limit + 1, Below(reader.cursor))
      items   == Newest(reader.limit, fetched)
      more    == Cardinality(fetched) > reader.limit
  IN
  /\ reader.pc = "page"
  /\ IF more /\ reader.limit = 0
       THEN reader' = Idle
       ELSE reader' = [reader EXCEPT
              !.pc = IF more THEN "page" ELSE "done",
              !.seen = @ \cup items, !.got = @ + Cardinality(items),
              !.cursor = IF more THEN LastReturned(fetched, items) ELSE @]
  /\ UNCHANGED <<now, rows, writing>>

-----------------------------------------------------------------------------
LogNext ==
  \/ Tick
  \/ \E w \in Writer :
       \/ \E id \in Id, o \in Org, a \in Action : Record(w, id, o, a)
       \/ Append(w) \/ Lose(w)
  \/ \E o \in Org, a \in Action \cup {None}, limit \in Limit : Open(o, a, limit)
  \/ ReadPage

LogSpec == LogInit /\ [][LogNext]_logVars

-----------------------------------------------------------------------------
(* However rows are inserted while a reader walks the log - also below the  *)
(* cursor, by a writer that drew its id earlier - no row comes twice, a     *)
(* finished walk has every row that was there when it began, and none that  *)
(* is another organization's or another action's (audit.repo.ts:31).        *)
WalkExact ==
  reader.pc # "idle" =>
    /\ reader.got = Cardinality(reader.seen)
    /\ reader.pc = "done" => reader.start \subseteq reader.seen
    /\ reader.seen \subseteq IdsOf({row \in rows : Matches(row, reader.org, reader.action)})

(* A page that says there are more is followed by older rows only: the      *)
(* cursor never passes over a row it has not returned, unless that row came *)
(* late (audit.repo.ts:51).                                                 *)
NothingSkipped ==
  reader.pc = "page" => \A i \in reader.start : i >= reader.cursor => i \in reader.seen

(* Newest first (audit.repo.ts:15): a row is above those that were in the   *)
(* table before its id was drawn.  False within a millisecond.              *)
NewestFirst == \A row \in rows : \A i \in row.after : i < row.id
============================================================================
