------------------------ MODULE CheckpointPhaseEnum ------------------------
(* enum CheckpointPhase: the phases of the MOT checkpoint.                 *)
EXTENDS Naturals

NONE == 0
REST == 1
PREPARE == 2
RESOLVE == 3
CAPTURE == 4
COMPLETE == 5

Phases == REST..COMPLETE
=============================================================================
