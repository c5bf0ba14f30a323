------------------------------- MODULE MCBot -------------------------------
(***************************************************************************)
(* Bot with a few messages and restarts.                                   *)
(***************************************************************************)
EXTENDS Bot

CONSTANT MaxUpdates     \* messages there may be

MCUpdates == 1..MaxUpdates

=============================================================================
