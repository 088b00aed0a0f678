---------------------------- MODULE MCControlApi ----------------------------
(***************************************************************************)
(* A build that keeps the class behind the parameter of the controllers,   *)
(* and one that emits Object for it.                                       *)
(***************************************************************************)
EXTENDS ControlApi

MCParamTokens == {"PrismaService", "Object"}
=============================================================================
