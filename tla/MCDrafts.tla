------------------------------ MODULE MCDrafts ------------------------------
(***************************************************************************)
(* The editors of weekly hours for TLC: those of the organization and of   *)
(* one resource, with one content, while fetches fail.                     *)
(***************************************************************************)
EXTENDS Drafts

CONSTANTS resource, date, content

HoursEditors == {"organization hours", "resource hours"}
OneResource == {resource}
OneDate == {date}
OneContent == {content}
=============================================================================
