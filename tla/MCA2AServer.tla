---------------------------- MODULE MCA2AServer ----------------------------
(* Tasks share nothing but the process, so that two of them show a restart    *)
(* that finds tasks in different places.                                      *)
EXTENDS A2AServer
=============================================================================
