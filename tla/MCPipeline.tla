------------------------------ MODULE MCPipeline ------------------------------
(* Three block engines, one more than .env.example names; the updates of the *)
(* second one have no and two transactions.                                  *)
EXTENDS Pipeline

MC_Updates == <<<<0, 1>>, <<2>>, <<1>>>>
=============================================================================
