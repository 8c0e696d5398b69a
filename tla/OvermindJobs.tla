---------------------------- MODULE OvermindJobs ----------------------------
(***************************************************************************)
(* The identities every module of the broker speaks about.                 *)
(***************************************************************************)
CONSTANTS
  Jobs,     \* job ids, as allocate_id hands them out: never reused
  GroupOf   \* the group each job is launched into

Group(j) == {k \in Jobs : GroupOf[k] = GroupOf[j]}

=============================================================================
