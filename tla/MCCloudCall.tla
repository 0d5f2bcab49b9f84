---------------------------- MODULE MCCloudCall -----------------------------
(* CloudCall for TLC: the waits the service asks for. *)
EXTENDS CloudCall

Asked    == {-1, 7}    \* as retry_after: not positive, above every attempt
Anything == {0, 7}     \* in an uninitialised int
=============================================================================
