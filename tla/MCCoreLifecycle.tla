-------------------------- MODULE MCCoreLifecycle --------------------------
EXTENDS CoreLifecycle, TLC
CONSTANTS c1, c2, c3     \* tasks that call the manager

CallSymmetry == Permutations(Calls)
=============================================================================
