------------------------- MODULE MCEngineSupervisor -------------------------
(* EngineSupervisor on a small instance: two process names, so that a second *)
(* engine could exist; a queue of one message read one a frame, so that a    *)
(* tail outlasts a frame.                                                    *)
EXTENDS EngineSupervisor, TLC

CONSTANTS e1, e2
=============================================================================
