---------------------------- MODULE MCTaskStore ----------------------------
(***************************************************************************)
(* A small instance of TaskStore: a request, its retry under another task  *)
(* id, and a request of another caller that names the same task id.        *)
(***************************************************************************)
EXTENDS TaskStore, TLC

CONSTANTS t1, t2, k1, k2, c1, c2

CollidingRequests ==
  {[task |-> t1, key |-> k1], [task |-> t2, key |-> k1], [task |-> t1, key |-> k2]}

\* Clients only differ in name.
ClientSymmetry == Permutations(Client)
=============================================================================
