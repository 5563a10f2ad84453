------------------------------ MODULE MCScript ------------------------------
\* Instance of ScriptInstances for TLC: process ids are interchangeable.
EXTENDS ScriptInstances, TLC

PidSymmetry == Permutations(Pids)
=============================================================================
