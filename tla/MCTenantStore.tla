---------------------------- MODULE MCTenantStore ----------------------------
(* Two tenants whose ids differ in characters Milvus does not allow; an    *)
(* asset of one has two embed jobs, that of the other one.                 *)
EXTENDS TenantStore, TLC

CONSTANTS ferza, acme, a1, b1, j1, j2, k1

MCOwner    == (a1 :> ferza) @@ (b1 :> acme)
MCAssetOf  == (j1 :> a1) @@ (j2 :> a1) @@ (k1 :> b1)
MCReadable == [t \in Tenants |-> "tenant_1"]
MCDigest   == [t \in Tenants |-> t]

MCSymmetry == Permutations(Workers) \cup Permutations({j1, j2})
==============================================================================
