-------------------------- MODULE MCPurchaseMachine --------------------------
EXTENDS PurchaseMachine, TLC
CONSTANTS c1, c2
CardSymmetry == Permutations({c1, c2})
=============================================================================
