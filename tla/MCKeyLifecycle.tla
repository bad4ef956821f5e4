---------------------------- MODULE MCKeyLifecycle ----------------------------
EXTENDS KeyLifecycle, TLC

CommandSymmetry == Permutations(Commands)
=============================================================================
