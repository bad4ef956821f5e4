-------------------------- MODULE MCTenantConnection --------------------------
EXTENDS TenantConnection, TLC

CallSymmetry == Permutations(Calls)
=============================================================================
