----------------------------- MODULE MCConsumer -----------------------------
(***************************************************************************)
(* The messages of the instances of Consumer.                              *)
(***************************************************************************)
EXTENDS Consumer, TLC

\* A submission and, behind it, a command of a kind nobody may submit.
ClassPair == <<"command", "kind">>
KeyPair == <<"a", "b">>
PayloadPair == <<"x", "z">>
GroupPair == <<"g", "g">>

\* A group of one message of each class that is not stored, then a submission, and
\* another one under its key.
ClassMixed == <<"foreign", "business", "broken", "command", "command">>
KeyMixed == <<"f", "b", "m", "a", "a">>
PayloadMixed == <<"f", "b", "m", "x", "y">>
GroupMixed == <<"g", "g", "g", "g", "g">>

Symmetry == Permutations(Instance)
=============================================================================
