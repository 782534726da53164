------------------------- MODULE MCRepositoryTools -------------------------
(***************************************************************************)
(* The skills checker over the roots of MCRepositorySkills, and validate   *)
(* with CI.  They share no state, so that a behaviour is of one of them.   *)
(***************************************************************************)
EXTENDS MCRepositorySkills, ValidationPipeline

VARIABLE tool

toolsVars == <<vars, pipelineVars, tool>>

ToolsInit ==
  /\ tool \in {"check_repository_skills", "validate"}
  /\ Init /\ PipelineInit
  /\ tool = "validate" => ~root
  /\ tool = "check_repository_skills" => tree.flaws = {} /\ tree.release = 1

ToolsNext ==
  /\ UNCHANGED tool
  /\ \/ tool = "check_repository_skills" /\ Next /\ UNCHANGED pipelineVars
     \/ tool = "validate" /\ PipelineNext /\ UNCHANGED vars

ToolsSpec == ToolsInit /\ [][ToolsNext]_toolsVars
=============================================================================
