---------------------------- MODULE MCInfluxPost ----------------------------
(***************************************************************************)
(* Small instances of InfluxPost.  MaxQueue + 1 lines let the queue        *)
(* overflow; a batch of 2 is shorter than a full queue of 3, so a backlog  *)
(* can outlast a batch.                                                    *)
(***************************************************************************)
EXTENDS InfluxPost
=============================================================================
