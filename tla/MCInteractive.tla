--------------------------- MODULE MCInteractive ---------------------------
(* Instance of InteractiveRun for TLC. *)
EXTENDS InteractiveRun

\* A runtime call with a bridge call after it, and the final-output call, which
\* is always alone in its batch.
MCRequests == {<<"runtime", "bridge">>, <<"final">>}
=============================================================================
