------------------------------ MODULE MCStreams ------------------------------
(* Instance of Streams for TLC. *)
EXTENDS Streams

CONSTANTS x1, c1

(* Of the scans, of the teams.                                             *)
SomeViews == {{x1}, {c1}}
=============================================================================
