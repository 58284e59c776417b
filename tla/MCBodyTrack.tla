------------------------------ MODULE MCBodyTrack ------------------------------
(* bodytrack on small images, with units that leave a remainder. *)
EXTENDS BodyTrack

MCUnit == [c \in Cmds |-> IF c = FILTERROW THEN 3 ELSE 1]
MCConditions == {"workAvailable", "mCondFull", "mCondEmpty"}
=============================================================================
