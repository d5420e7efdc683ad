---------------------------- MODULE MCTabletApp ----------------------------
(* A bounded instance of TabletApp: two activities, the second of which is *)
(* launched by saving the settings or after the first is gone.             *)
EXTENDS TabletApp

CONSTANTS a1, a2
=============================================================================
