--------------------------- MODULE MCRunLifecycle ---------------------------
(* Instances of RunLifecycle.                                                 *)
EXTENDS RunLifecycle

\* The families whose execution never looks at the cancellation flag.
Stationary == {"direct"}
=============================================================================
