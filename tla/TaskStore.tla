----------------------------- MODULE TaskStore -----------------------------
(***************************************************************************)
(* The three implementations of trait TaskStore: MemoryTaskStore,          *)
(* SqliteTaskStore and PostgresTaskStore, one of which a behaviour uses.   *)
(* A step is one critical section (memory), one transaction under the      *)
(* write guard (SQLite) or one statement or transaction (Postgres).        *)
(*                                                                         *)
(* The idempotency key stands for the pair (caller, key). Time is counted  *)
(* in units of retention, so that no clock tick falls inside a call. The   *)
(* expected_revision and allowed_states an append compares are the         *)
(* caller's business (AdapterCore!Applies); here an append is one that     *)
(* applies, and no caller allows a terminal state. acquire_lease and       *)
(* renew_lease, which nothing calls, are left out.                         *)
(***************************************************************************)
EXTENDS Naturals, FiniteSets

CONSTANTS
  Backends,          \* the implementations to consider
  Task, Key,
  Requests,          \* create requests: records with a task id and a key
  Client,            \* callers that may be inside a Postgres create at once
  MaxRevision,       \* bound: appends per row
  MaxTime,           \* bound: the clock
  TaskTtl, EventTtl, \* RetentionPolicy
  Batch,             \* cleanup_batch_size
  Limit,             \* limit of events_after
  NoRow, NoTask

ASSUME StoreAssumption ==
  /\ Backends \subseteq {"memory", "sqlite", "postgres"}
  /\ Requests \subseteq [task : Task, key : Key]
  /\ MaxRevision \in Nat /\ MaxTime \in Nat /\ TaskTtl \in Nat /\ EventTtl \in Nat
  /\ Batch \in Nat /\ Limit \in Nat

VARIABLES
  backend,   \* the store in use
  now,
  rows,      \* [Task -> Row \cup {NoRow}]
  events,    \* [Task -> set of stored events]
  index,     \* memory: [Key -> Task \cup {NoTask}], the idempotency map
  call,      \* postgres: between INSERT and SELECT of a create
  answer,    \* what the step that led here answered to a create
  cleaning   \* SQL: between the two DELETEs of cleanup

vars == <<backend, now, rows, events, index, call, answer, cleaning>>

Never == MaxTime + 1    \* terminal_at of a row that is not terminal

\* Memory snapshots hold the caller but not its key, which is history there.
Row   == [key : Key, revision : 0..MaxRevision, terminal_at : 0..Never]
Event == [seq : 1..MaxRevision, at : 0..MaxTime]

NewRow(k) == [key |-> k, revision |-> 0, terminal_at |-> Never]

Rows == {t \in Task : rows[t] # NoRow}

\* SELECT ... WHERE caller_id AND idempotency_key
WithKey(k) == {t \in Rows : rows[t].key = k}

Idle == [at |-> "idle"]
NoAnswer == [kind |-> "None"]

Init ==
  /\ backend \in Backends
  /\ now      = 0
  /\ rows     = [t \in Task |-> NoRow]
  /\ events   = [t \in Task |-> {}]
  /\ index    = [k \in Key |-> NoTask]
  /\ call     = [c \in Client |-> Idle]
  /\ answer   = NoAnswer
  /\ cleaning = FALSE

-----------------------------------------------------------------------------
(* create_or_get_idempotent                                                *)

\* Mutant: a new row takes over the events stored under its task id.
InsertKeepsEvents(r) ==
  /\ rows' = [rows EXCEPT ![r.task] = NewRow(r.key)]
  /\ UNCHANGED events

\* A new row and an empty history.
Insert(r) ==
  /\ rows'   = [rows EXCEPT ![r.task] = NewRow(r.key)]
  /\ events' = [events EXCEPT ![r.task] = {}]

\* The caller that asked with r is handed the row of t.
Answer(kind, r, t) ==
  answer' = [kind |-> kind, asked |-> r, got |-> [task |-> t, key |-> rows'[t].key]]
Fail(kind) == answer' = [kind |-> kind]

\* The map is asked by key; the insert does not look at the task id.
MemoryCreate(r) ==
  LET t == index[r.key] IN
  /\ backend = "memory"
  /\ \/ /\ t # NoTask /\ t \in Rows
        /\ UNCHANGED <<rows, events, index>>
        /\ Answer("Existing", r, t)
     \/ /\ t # NoTask /\ t \notin Rows
        /\ Fail("Corrupt")
        /\ UNCHANGED <<rows, events, index>>
     \/ /\ t = NoTask
        /\ Insert(r)
        /\ index' = [index EXCEPT ![r.key] = r.task]
        /\ Answer("Created", r, r.task)
  /\ UNCHANGED <<backend, now, call, cleaning>>

\* One transaction under the write guard, which cleanup holds too.
SqliteCreate(r) ==
  /\ backend = "sqlite" /\ ~cleaning
  /\ \/ \E t \in WithKey(r.key) :
          /\ UNCHANGED <<rows, events>>
          /\ Answer("Existing", r, t)
     \/ /\ WithKey(r.key) = {} /\ r.task \in Rows     \* PRIMARY KEY(task_id)
        /\ Fail("Unavailable")
        /\ UNCHANGED <<rows, events>>
     \/ /\ WithKey(r.key) = {} /\ r.task \notin Rows
        /\ Insert(r)
        /\ Answer("Created", r, r.task)
  /\ UNCHANGED <<backend, now, index, call, cleaning>>

\* Mutant: the conflict updates the row, so that one row is affected either way.
PostgresInsertUpdates(c, r) ==
  /\ backend = "postgres" /\ call[c] = Idle
  /\ WithKey(r.key) # {} \/ r.task \notin Rows
  /\ IF WithKey(r.key) # {} THEN UNCHANGED <<rows, events>> ELSE Insert(r)
  /\ call' = [call EXCEPT ![c] = [at |-> "select", asked |-> r, new |-> TRUE]]
  /\ answer' = NoAnswer
  /\ UNCHANGED <<backend, now, index, cleaning>>

\* INSERT ... ON CONFLICT(caller_id, idempotency_key) DO NOTHING
PostgresInsert(c, r) ==
  /\ backend = "postgres" /\ call[c] = Idle
  /\ \/ /\ WithKey(r.key) # {}
        /\ call' = [call EXCEPT ![c] = [at |-> "select", asked |-> r, new |-> FALSE]]
        /\ answer' = NoAnswer
        /\ UNCHANGED <<rows, events>>
     \/ /\ WithKey(r.key) = {} /\ r.task \in Rows
        /\ Fail("Unavailable")
        /\ UNCHANGED <<rows, events, call>>
     \/ /\ WithKey(r.key) = {} /\ r.task \notin Rows
        /\ Insert(r)
        /\ call' = [call EXCEPT ![c] = [at |-> "select", asked |-> r, new |-> TRUE]]
        /\ answer' = NoAnswer
  /\ UNCHANGED <<backend, now, index, cleaning>>

\* The SELECT that follows; the row may be gone by now.
PostgresSelect(c) ==
  LET found == WithKey(call[c].asked.key) IN
  /\ call[c] # Idle
  /\ UNCHANGED <<backend, now, rows, events, index, cleaning>>
  /\ \/ \E t \in found :
          Answer(IF call[c].new THEN "Created" ELSE "Existing", call[c].asked, t)
     \/ found = {} /\ Fail("Unavailable")
  /\ call' = [call EXCEPT ![c] = Idle]

-----------------------------------------------------------------------------
(* append_event_and_transition and events_after                            *)

AppendEvent(t, over) ==
  /\ t \in Rows /\ rows[t].terminal_at = Never /\ rows[t].revision < MaxRevision
  /\ backend = "sqlite" => ~cleaning
  /\ rows' = [rows EXCEPT ![t].revision = @ + 1,
                          ![t].terminal_at = IF over THEN now ELSE @]
  /\ events' = [events EXCEPT ![t] = @ \cup {[seq |-> rows[t].revision + 1, at |-> now]}]
  /\ answer' = NoAnswer
  /\ UNCHANGED <<backend, now, index, call, cleaning>>

\* The seqs of the page events_after returns, which is in their order.
EventsAfter(t, after) ==
  LET seqs == {e.seq : e \in {f \in events[t] : f.seq > after}}
  IN  {s \in seqs : Cardinality({u \in seqs : u < s}) < Limit}

-----------------------------------------------------------------------------
(* cleanup                                                                 *)

\* Mutant: a task's age counts from its creation, terminal or not.
ExpiredRowsAny == {t \in Rows : now > TaskTtl}

ExpiredRows == {t \in Rows : /\ rows[t].terminal_at # Never
                             /\ rows[t].terminal_at + TaskTtl < now}

ExpiredEvents ==
  {<<t, e>> \in Task \X Event : e \in events[t] /\ e.at + EventTtl < now}

\* What a LIMIT of Batch lets one statement or loop take of S.
Batches(S) == {D \in SUBSET S : Cardinality(D) = IF Cardinality(S) < Batch
                                                 THEN Cardinality(S) ELSE Batch}


\* SQLite scans task_events by rowid, so each task loses its oldest events
\* first. Postgres scans in physical order, which says nothing about seq.
InScanOrder(D) ==
  backend = "sqlite" =>
    \A x \in D, y \in ExpiredEvents : y[1] = x[1] /\ y[2].seq < x[2].seq => y \in D

Without(S) == [t \in Task |-> IF t \in S THEN NoRow ELSE rows[t]]

\* One critical section. The idempotency entry it removes is one no create
\* ever makes, so `index` keeps the key of a row that is gone. Events expire
\* whether or not their task is over.
MemoryCleanup ==
  /\ backend = "memory"
  /\ \E S \in Batches(ExpiredRows) :
       /\ rows'   = Without(S)
       /\ events' = [t \in Task |-> IF t \in S THEN {}
                                    ELSE {e \in events[t] : e.at + EventTtl >= now}]
  /\ answer' = NoAnswer
  /\ UNCHANGED <<backend, now, index, call, cleaning>>

DeleteEvents ==
  /\ backend # "memory" /\ ~cleaning
  /\ \E D \in Batches(ExpiredEvents) :
       /\ InScanOrder(D)
       /\ events' = [t \in Task |-> {e \in events[t] : <<t, e>> \notin D}]
  /\ cleaning' = TRUE
  /\ answer' = NoAnswer
  /\ UNCHANGED <<backend, now, rows, index, call>>

\* ON DELETE CASCADE takes the events along. Or the statement fails.
DeleteTasks ==
  /\ cleaning
  /\ \/ \E S \in Batches(ExpiredRows) :
          /\ rows'   = Without(S)
          /\ events' = [t \in Task |-> IF t \in S THEN {} ELSE events[t]]
     \/ UNCHANGED <<rows, events>>
  /\ cleaning' = FALSE
  /\ answer' = NoAnswer
  /\ UNCHANGED <<backend, now, index, call>>

-----------------------------------------------------------------------------
(* The environment                                                         *)

Tick ==
  /\ now < MaxTime /\ ~cleaning /\ \A c \in Client : call[c] = Idle
  /\ now' = now + 1
  /\ answer' = NoAnswer
  /\ UNCHANGED <<backend, rows, events, index, call, cleaning>>

\* The process ends and is started again: what is only in memory is gone.
Restart ==
  /\ call'     = [c \in Client |-> Idle]
  /\ answer'   = NoAnswer
  /\ cleaning' = FALSE
  /\ IF backend = "memory"
     THEN /\ rows'   = [t \in Task |-> NoRow]
          /\ events' = [t \in Task |-> {}]
          /\ index'  = [k \in Key |-> NoTask]
     ELSE UNCHANGED <<rows, events, index>>
  /\ UNCHANGED <<backend, now>>

Next ==
  \/ \E r \in Requests : \/ MemoryCreate(r) \/ SqliteCreate(r)
                        \/ \E c \in Client : PostgresInsert(c, r)
  \/ \E c \in Client : PostgresSelect(c)
  \/ \E t \in Task, over \in BOOLEAN : AppendEvent(t, over)
  \/ MemoryCleanup \/ DeleteEvents \/ DeleteTasks
  \/ Tick \/ Restart

Spec == Init /\ [][Next]_vars
-----------------------------------------------------------------------------
(* Properties                                                              *)

Sql == backend # "memory"

TypeOK ==
  /\ backend \in Backends /\ now \in 0..MaxTime
  /\ rows \in [Task -> Row \cup {NoRow}]
  /\ events \in [Task -> SUBSET Event]
  /\ index \in [Key -> Task \cup {NoTask}]
  /\ cleaning \in BOOLEAN
  /\ \A t \in Task \ Rows : events[t] = {}
  /\ \A t \in Rows : \A e \in events[t] : e.seq <= rows[t].revision

\* Whoever is told Created is handed the row it inserted, and whoever is told
\* Existing the row of its own key: a retry gets the original task.
HandedOwnRow ==
  /\ answer.kind = "Created"  => answer.got = answer.asked
  /\ answer.kind = "Existing" => answer.got.key = answer.asked.key

\* The SQL stores do so, whatever creates, appends and cleanups run between the
\* two statements of a Postgres create.
SqlHandsOwnRow == Sql => HandedOwnRow


\* The SQL stores keep every row that AdapterCore may still write to.
Contract == INSTANCE TaskStoreContract WITH
  Absent <- NoRow,
  row <- [t \in Task |->
            IF rows[t] = NoRow THEN NoRow
            ELSE [key |-> rows[t].key, revision |-> rows[t].revision,
                  over |-> rows[t].terminal_at # Never]]

\* The SQL stores implement the contract AdapterCore is written against.
ContractSpec ==
  /\ Sql => Contract!Init
  /\ [][Sql => Contract!Next \/ UNCHANGED rows]_vars

=============================================================================
