------------------------ MODULE MCAnnouncementFeed ------------------------
(* Instance of AnnouncementFeed for TLC: the bounds are in the configurations. *)
EXTENDS AnnouncementFeed
=============================================================================
