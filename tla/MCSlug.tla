------------------------------- MODULE MCSlug -------------------------------
(***************************************************************************)
(* The numbered candidates of Slug for TLC, with the lengths scaled down.  *)
(***************************************************************************)
EXTENDS Slug
=============================================================================
