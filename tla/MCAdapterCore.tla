--------------------------- MODULE MCAdapterCore ---------------------------
(***************************************************************************)
(* Small instances of AdapterCore. i1 and i2 are two requests of caller a, *)
(* for agents g and h. i3 repeats the key of i1 but names the task id of   *)
(* i2. i4 is a request of caller b for g.                                  *)
(***************************************************************************)
EXTENDS AdapterCore, TLC

CONSTANTS t1, t2, t3, i1, i2, i3, i4, c1, c2, p1, a, b, k1, k2, g, h

MCTaskOf   == i1 :> t1 @@ i2 :> t2 @@ i3 :> t2 @@ i4 :> t3
              @@ c1 :> t1 @@ c2 :> t1 @@ p1 :> t1
MCCallerOf == i1 :> a @@ i2 :> a @@ i3 :> a @@ i4 :> b
MCKeyOf    == i1 :> k1 @@ i2 :> k2 @@ i3 :> k1 @@ i4 :> k1

Restrict(f, S) == [x \in S |-> f[x]]

TaskOfCalls   == Restrict(MCTaskOf, Proc)
CallerOfCalls == Restrict(MCCallerOf, Invokes)
KeyOfCalls    == Restrict(MCKeyOf, Invokes)
AgentOfCalls  == [i \in Invokes |-> IF i = i2 THEN h ELSE g]
=============================================================================
