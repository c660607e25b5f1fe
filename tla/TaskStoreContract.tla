------------------------ MODULE TaskStoreContract ------------------------
(***************************************************************************)
(* What AdapterCore takes for granted of a TaskStore: at most one row per  *)
(* task id and per (caller, idempotency key); a row that was created stays *)
(* what it is, its revision only counts up, and it is only forgotten after *)
(* it became terminal.                                                     *)
(***************************************************************************)
EXTENDS Naturals

CONSTANTS Task, Key, Absent

VARIABLE row   \* [Task -> Absent, or the key, revision and terminality]

Init == row = [t \in Task |-> Absent]

Insert(t, k) ==
  /\ row[t] = Absent
  /\ \A u \in Task : row[u] # Absent => row[u].key # k
  /\ row' = [row EXCEPT ![t] = [key |-> k, revision |-> 0, over |-> FALSE]]

Append(t, over) ==
  /\ row[t] # Absent /\ ~row[t].over
  /\ row' = [row EXCEPT ![t].revision = @ + 1, ![t].over = over]

Forget(S) ==
  /\ \A t \in S : row[t] # Absent /\ row[t].over
  /\ row' = [t \in Task |-> IF t \in S THEN Absent ELSE row[t]]

Next ==
  \/ \E t \in Task, k \in Key : Insert(t, k)
  \/ \E t \in Task, over \in BOOLEAN : Append(t, over)
  \/ \E S \in SUBSET Task : Forget(S)

Spec == Init /\ [][Next]_row
=============================================================================
