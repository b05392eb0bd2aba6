--------------------------- MODULE MCSyncDownload ---------------------------
(* A small instance of SyncDownload for TLC.  The ids of the two collections *)
(* alternate in their order, so that a tie in time can be won by either.     *)
EXTENDS SyncDownload

MCReactions == {1, 3}
MCRatings == {2}
=============================================================================
