---------------------------- MODULE MCDraftReview ----------------------------
(* Bounds of DraftReview for TLC. *)
EXTENDS DraftReview
=============================================================================
