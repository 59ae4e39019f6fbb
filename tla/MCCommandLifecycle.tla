------------------------ MODULE MCCommandLifecycle ------------------------
(* Instance of CommandLifecycle for TLC.                                    *)
EXTENDS CommandLifecycle
=============================================================================
