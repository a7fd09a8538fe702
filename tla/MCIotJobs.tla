---------------------------- MODULE MCIotJobs ----------------------------
(***************************************************************************)
(* Instances of IotJobs: three jobs, the second one a firmware update; the *)
(* id of the third is a prefix of that of the first.                       *)
(***************************************************************************)
EXTENDS IotJobs

MCPrefixOf == {<<1, 1>>, <<2, 2>>, <<3, 3>>, <<3, 1>>}
=============================================================================
