------------------------- MODULE ValidationPipeline -------------------------
(***************************************************************************)
(* scripts/validate.py, run again and again over a working tree that may   *)
(* be edited at any moment, and the jobs of .github/workflows/ci.yml over  *)
(* the trees that are pushed.  The commands themselves are external: what  *)
(* is known of one is that it passes or fails on a tree, always in the     *)
(* same way (the tools are locked and the tests derandomised).             *)
(***************************************************************************)
EXTENDS Sequences, FiniteSets, Integers

CONSTANTS
  Release,       \* versions of the package, which name the files of a build
  MaxFlaws,      \* bound on the stages that fail on one tree
  MaxTreeEdits   \* bound on the edits of the tree

VARIABLES
  tree,            \* the working tree: how many edits old, its release, what fails on it
  phase, command,  \* where the run of validate.py is, and at which command
  started,         \* history: the version of the tree when the run started
  outcome,         \* of the last run: "none", "passed" or "failed"
  dist,            \* the dist directory: the version of the tree in each file, by kind
                   \* and release
  building,        \* the tree whose sdist the build has made
  pushed,          \* the tree that was pushed last
  ended, red       \* whether the jobs of CI have ended with it, and which have failed

runVars == <<phase, command, started, outcome, dist, building>>
ciVars == <<pushed, ended, red>>
pipelineVars == <<tree, runVars, ciVars>>

\* Slip: a new command is added to CI only.
Command_Behind == <<"format", "lint", "skills", "boundaries", "types">>

\* VALIDATION_COMMANDS.
Command == <<"format", "lint", "skills", "boundaries", "types", "tests">>

\* What each job of ci.yml runs after its set-up.
Job == {"format", "lint", "skills", "boundaries", "types", "tests", "build"}

Commands == { Command[i] : i \in DOMAIN Command }
Flaws == { f \in SUBSET Job : Cardinality(f) <= MaxFlaws }
Trees(version) == [version : {version}, release : Release, flaws : Flaws]

Restrict(f, keys) == [k \in keys |-> f[k]]
Put(f, key, value) == [k \in DOMAIN f \cup {key} |-> IF k = key THEN value ELSE f[k]]

PipelineInit ==
  /\ tree \in Trees(0)
  /\ phase = "idle" /\ command = 1 /\ started = 0 /\ outcome = "none"
  /\ dist = <<>> /\ building = tree
  /\ pushed = tree /\ ended = FALSE /\ red = {}

-----------------------------------------------------------------------------
(* A run of validate.py *)

\* Slip: dist is cleared before the commands run.
Start_Clears ==
  /\ phase = "idle"
  /\ phase' = "command" /\ command' = 1 /\ started' = tree.version /\ outcome' = "none"
  /\ dist' = <<>>
  /\ UNCHANGED <<tree, building, ciVars>>

Start ==
  /\ phase = "idle"
  /\ phase' = "command" /\ command' = 1 /\ started' = tree.version /\ outcome' = "none"
  /\ UNCHANGED <<tree, dist, building, ciVars>>

End(result) == phase' = "idle" /\ outcome' = result

\* Slip: subprocess.run does not check the status.
RunCommand_Unchecked ==
  /\ phase = "command"
  /\ command' = command + 1 /\ phase' = IF command < Len(Command) THEN "command" ELSE "clear"
  /\ UNCHANGED <<tree, started, outcome, dist, building, ciVars>>

\* The next command; the first that fails ends the run.
RunCommand ==
  /\ phase = "command"
  /\ \/ Command[command] \in tree.flaws /\ End("failed") /\ UNCHANGED command
     \/ /\ Command[command] \notin tree.flaws
        /\ command' = command + 1
        /\ phase' = IF command < Len(Command) THEN "command" ELSE "clear"
        /\ UNCHANGED outcome
  /\ UNCHANGED <<tree, started, dist, building, ciVars>>

\* rmtree, which ignores errors: some files may survive.
ClearDist ==
  /\ phase = "clear" /\ phase' = "sdist"
  /\ \E survivors \in SUBSET DOMAIN dist : dist' = Restrict(dist, survivors)
  /\ UNCHANGED <<tree, command, started, outcome, building, ciVars>>

\* python -m build makes the source distribution of the tree, or fails.
BuildSdist ==
  /\ phase = "sdist"
  /\ \/ /\ dist' = Put(dist, <<"sdist", tree.release>>, tree.version)
        /\ building' = tree
        /\ phase' = "wheel" /\ UNCHANGED outcome
     \/ "build" \in tree.flaws /\ End("failed") /\ UNCHANGED <<dist, building>>
  /\ UNCHANGED <<tree, command, started, ciVars>>

\* Then it makes the wheel from what the source distribution holds, or fails.
BuildWheel ==
  /\ phase = "wheel"
  /\ \/ /\ "build" \notin building.flaws
        /\ dist' = Put(dist, <<"wheel", building.release>>, dist[<<"sdist", building.release>>])
        /\ End("passed")
     \/ "build" \in building.flaws /\ End("failed") /\ UNCHANGED dist
  /\ UNCHANGED <<tree, command, started, building, ciVars>>

\* The run is killed or interrupted, with its command.
Interrupt ==
  /\ phase # "idle" /\ End("interrupted")
  /\ UNCHANGED <<tree, command, started, dist, building, ciVars>>

-----------------------------------------------------------------------------
(* The developer and CI *)

EditTree ==
  /\ tree.version < MaxTreeEdits
  /\ tree' \in Trees(tree.version + 1)
  /\ UNCHANGED <<runVars, ciVars>>

Push ==
  /\ pushed' = tree /\ pushed # tree
  /\ ended' = FALSE /\ red' = {}
  /\ UNCHANGED <<tree, runVars>>

\* Every job checks the pushed tree on its own, whatever becomes of the others.
EndJobs ==
  /\ ~ended /\ ended' = TRUE
  /\ red' = { job \in Job : job \in pushed.flaws }
  /\ UNCHANGED <<tree, runVars, pushed>>

PipelineNext ==
  \/ Start \/ RunCommand \/ ClearDist \/ BuildSdist \/ BuildWheel \/ Interrupt
  \/ EditTree \/ Push \/ EndJobs

PipelineSpec == PipelineInit /\ [][PipelineNext]_pipelineVars

-----------------------------------------------------------------------------
(* Properties *)

\* README.md, "Validation": a run that exits 0 over a tree that was not edited meanwhile
\* leaves a tree on which every stage passes, and its two distributions in dist.
PassedMeansValidated ==
  phase = "idle" /\ outcome = "passed" /\ tree.version = started =>
    /\ tree.flaws = {}
    /\ \A kind \in {"sdist", "wheel"} :
         <<kind, tree.release>> \in DOMAIN dist /\ dist[<<kind, tree.release>>] = tree.version

\* A run that does not get through the commands keeps the distributions of the last
\* one: over a tree that is not edited, dist changes only if every command passes on it.
FailedChecksKeepDist ==
  [][ dist' # dist /\ tree.version = started' => Commands \cap tree.flaws = {} ]_pipelineVars

\* README.md, "GitHub Actions runs each validation stage independently": over one tree,
\* a run of validate.py that is neither interrupted nor overtaken by an edit passes
\* exactly if the jobs of CI do.
JobsAgreeWithValidate ==
  ended /\ pushed = tree /\ tree.version = started =>
    /\ red = {} => outcome # "failed"
    /\ red # {} => outcome # "passed"
=============================================================================
