-------------------------- MODULE MCSessionPreview --------------------------
(* A suite of one test with one snapshot, in the checkout's own target; a  *)
(* run records a first lock, then a check and a prune follow.              *)
EXTENDS SessionPreview, TLC

CONSTANTS a, b, m, a1, b1, ka1, kb1, p, P, sp

MCNodeOf == a1 :> a @@ b1 :> b
MCAbove == a :> {} @@ b :> {}
MCModuleOf == a :> m @@ b :> m
MCKeyOf == a1 :> ka1 @@ b1 :> kb1
MCUnder == m :> {ka1, kb1}
MCTargetOf == p :> P
MCStoreOf == p :> sp
MCPlacements == {[t \in Tests |-> p]}
MCOptions ==
    [mode : {"RECORD"}, rebuild : {FALSE}, prune : {"OFF", "DRY_RUN", "DELETE"},
     shared : {FALSE}, narrow : {"no"}, dist : {FALSE}]

============================================================================
