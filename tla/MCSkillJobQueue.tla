--------------------------- MODULE MCSkillJobQueue ---------------------------
(* One owner and one job that two worker processes contend for; the bounds  *)
(* are in SkillJobQueue.cfg.                                                *)
EXTENDS SkillJobQueue
=============================================================================
