------------------------- MODULE MCAnnouncementEmail -------------------------
(* Instances of AnnouncementEmail for TLC. *)
EXTENDS AnnouncementEmail

CONSTANTS ann, bob, eve, s1, s2
=============================================================================
