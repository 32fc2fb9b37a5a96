----------------------------- MODULE MCJobSave -----------------------------
(* The module TLC checks JobSave in: two process numbers, room for one      *)
(* saved status (two in MCJobSaveShare.cfg) and one node in the pool.       *)
EXTENDS JobSave
=============================================================================
