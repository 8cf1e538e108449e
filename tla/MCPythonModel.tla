---------------------------- MODULE MCPythonModel ----------------------------
(***************************************************************************)
(* The bounded instance of PythonModel, and of ConstantBuffers in it: see  *)
(* ConstUpdates.cfg.                                                       *)
(***************************************************************************)
EXTENDS PythonModel
=============================================================================
