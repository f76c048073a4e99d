------------------------ MODULE MCVerifiedAuthoring ------------------------
(* Four parts for three threads; one repair of a stage, one repetition of a *)
(* request, one repair after verification; one repetition of an execution, *)
(* one chunk of output, two tries to remove a container.                   *)
EXTENDS VerifiedAuthoring
=============================================================================
