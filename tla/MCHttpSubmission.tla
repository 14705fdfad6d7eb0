-------------------------- MODULE MCHttpSubmission --------------------------
(***************************************************************************)
(* The submissions of the instances of HttpSubmission.                     *)
(***************************************************************************)
EXTENDS HttpSubmission

Post(key, ext, hash) == [key |-> key, ext |-> ext, hash |-> hash]

\* One submission, again under another key, and another submission under that key.
MCInputs == {Post("k1", "a", "x"), Post("k2", "a", "x"), Post("k2", "b", "x")}
=============================================================================
