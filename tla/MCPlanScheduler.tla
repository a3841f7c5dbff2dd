--------------------------- MODULE MCPlanScheduler ---------------------------
(***************************************************************************)
(* Instances of PlanScheduler for TLC.                                     *)
(***************************************************************************)
EXTENDS PlanScheduler, TLC

CONSTANTS r1, r2, a, b, d1, d2

\* Run r1 is the chain 1 -> 2, run r2 is step 3; steps 1 and 3 share adapter a.
ChainRunOf == 1 :> r1 @@ 2 :> r1 @@ 3 :> r2
ChainDeps == 1 :> {} @@ 2 :> {1} @@ 3 :> {}
ChainAdapterOf == 1 :> a @@ 2 :> b @@ 3 :> a

\* One run: steps 1 and 2 are independent, step 3 depends on step 1; steps 2
\* and 3 share adapter b.
FanRunOf == 1 :> r1 @@ 2 :> r1 @@ 3 :> r1
FanDeps == 1 :> {} @@ 2 :> {} @@ 3 :> {1}
FanAdapterOf == 1 :> a @@ 2 :> b @@ 3 :> b

\* One run, the chain 1 -> 2.
PairRunOf == 1 :> r1 @@ 2 :> r1
PairDeps == 1 :> {} @@ 2 :> {1}
PairAdapterOf == 1 :> a @@ 2 :> a

\* Two runs of one step each, on one adapter.
RivalRunOf == 1 :> r1 @@ 2 :> r2
RivalDeps == 1 :> {} @@ 2 :> {}
RivalAdapterOf == 1 :> a @@ 2 :> a

\* One run of one step.
SingleRunOf == 1 :> r1
SingleDeps == 1 :> {}
SingleAdapterOf == 1 :> a

Symmetric == Permutations({d1, d2})
=============================================================================
