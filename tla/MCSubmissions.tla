--------------------------- MODULE MCSubmissions ---------------------------
(* A small instance of Submissions.  NewKey and CHOOSE pick ids in order. *)
EXTENDS Submissions
=============================================================================
