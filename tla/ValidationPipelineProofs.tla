---------------------- MODULE ValidationPipelineProofs ----------------------
(***************************************************************************)
(* Proofs of ValidationPipeline for any releases, any number of edits and  *)
(* trees on which any number of stages fail.                               *)
(***************************************************************************)
EXTENDS ValidationPipeline, TLAPS

Tree == [version : Nat, release : Release, flaws : SUBSET Job]

\* A run starts before it ends and has no outcome until then; a tree is pushed before
\* the jobs look at it.
PipelineType ==
  /\ tree \in Tree /\ building \in Tree /\ pushed \in Tree
  /\ phase \in {"idle", "command", "clear", "sdist", "wheel"}
  /\ command \in Nat /\ (phase = "command" => command \in DOMAIN Command)
  /\ started \in Nat /\ started <= tree.version
  /\ outcome \in {"none", "passed", "failed", "interrupted"}
  /\ phase # "idle" => outcome = "none"

\* Nobody has edited the tree since the run started.
Untouched == tree.version = started

\* The commands that a run over one tree has behind it pass on that tree.
Progress ==
  Untouched =>
    /\ phase = "command" => \A i \in 1 .. command - 1 : Command[i] \notin tree.flaws
    /\ phase \in {"clear", "sdist", "wheel"} => Commands \cap tree.flaws = {}

\* The wheel is made from the source distribution of the tree.
Building ==
  Untouched /\ phase = "wheel" =>
    /\ building = tree
    /\ <<"sdist", tree.release>> \in DOMAIN dist
    /\ dist[<<"sdist", tree.release>>] = tree.version

\* A run that fails over one tree has met a flaw of it.
FailedMeansFlawed ==
  Untouched /\ phase = "idle" /\ outcome = "failed" => tree.flaws # {}

\* Ended jobs have failed on the flaws of the tree that was pushed.
JobsAreExact == ended => red = pushed.flaws

PipelineInv ==
  /\ PipelineType /\ Progress /\ Building
  /\ PassedMeansValidated /\ FailedMeansFlawed /\ JobsAreExact

-----------------------------------------------------------------------------
(* The commands and the trees *)

\* VALIDATION_COMMANDS and the build are the jobs of CI.
LEMMA CommandFacts ==
  /\ DOMAIN Command = 1 .. 6 /\ Len(Command) = 6
  /\ Commands = { Command[i] : i \in 1 .. 6 }
  /\ Commands \cup {"build"} = Job
<1>1. DOMAIN Command = 1 .. 6 /\ Len(Command) = 6
  BY DEF Command
<1>2. Commands = { Command[i] : i \in 1 .. 6 }
  BY <1>1 DEF Commands
<1>3. ASSUME NEW j \in Job, j # "build" PROVE j \in Commands
  <2>1. \E i \in 1 .. 6 : Command[i] = j
    BY <1>3 DEF Job, Command
  <2> QED BY <1>2, <2>1
<1>4. \A i \in 1 .. 6 : Command[i] \in Job
  BY DEF Job, Command
<1>5. "build" \in Job
  BY DEF Job
<1> QED BY <1>1, <1>2, <1>3, <1>4, <1>5

\* Every tree of a version is a tree.
LEMMA TreesAreTrees ==
  ASSUME NEW v \in Nat, NEW t \in Trees(v)
  PROVE  t \in Tree /\ t.version = v
BY DEF Trees, Tree, Flaws

-----------------------------------------------------------------------------
(* The invariant *)

LEMMA PipelineBegins == PipelineInit => PipelineInv
<1> SUFFICES ASSUME PipelineInit PROVE PipelineInv
  OBVIOUS
<1>1. tree \in Tree /\ tree.version = 0
  BY TreesAreTrees DEF PipelineInit
<1> QED
  BY <1>1 DEF PipelineInit, PipelineInv, PipelineType, Progress, Building, PassedMeansValidated,
     FailedMeansFlawed, JobsAreExact

LEMMA StartKeeps ==
  ASSUME PipelineInv, Start
  PROVE  PipelineInv'
<1>1. PipelineType'
  BY CommandFacts DEF PipelineInv, PipelineType, Start, Tree, ciVars
<1>2. Progress'
  BY DEF Progress, Start
<1> QED
  BY <1>1, <1>2 DEF PipelineInv, Start, ciVars, Building, PassedMeansValidated,
     FailedMeansFlawed, JobsAreExact

LEMMA RunCommandKeeps ==
  ASSUME PipelineInv, RunCommand
  PROVE  PipelineInv'
<1> USE DEF ciVars
<1>1. CASE Command[command] \in tree.flaws /\ End("failed") /\ UNCHANGED command
  BY <1>1 DEF PipelineInv, PipelineType, RunCommand, End, Progress, Building,
     PassedMeansValidated, FailedMeansFlawed, JobsAreExact
<1>2. CASE /\ Command[command] \notin tree.flaws
           /\ command' = command + 1
           /\ phase' = IF command < Len(Command) THEN "command" ELSE "clear"
           /\ UNCHANGED outcome
  <2>1. command \in 1 .. 6
    BY CommandFacts DEF PipelineInv, PipelineType, RunCommand
  <2>2. PipelineType'
    BY <1>2, <2>1, CommandFacts DEF PipelineInv, PipelineType, RunCommand
  <2>3. ASSUME Untouched PROVE \A i \in 1 .. command : Command[i] \notin tree.flaws
    BY <1>2, <2>1, <2>3 DEF PipelineInv, Progress, RunCommand
  <2>4. Progress'
    <3>1. CASE command < 6
      BY <1>2, <2>1, <2>3, <3>1, CommandFacts DEF Progress, RunCommand, Untouched
    <3>2. CASE command = 6
      <4>1. Untouched => Commands \cap tree.flaws = {}
        BY <2>3, <3>2, CommandFacts
      <4> QED BY <1>2, <3>2, <4>1, CommandFacts DEF Progress, RunCommand, Untouched
    <3> QED BY <2>1, <3>1, <3>2
  <2> QED
    BY <1>2, <2>2, <2>4 DEF PipelineInv, RunCommand, Building, PassedMeansValidated,
       FailedMeansFlawed, JobsAreExact
<1> QED BY <1>1, <1>2 DEF RunCommand

LEMMA ClearDistKeeps ==
  ASSUME PipelineInv, ClearDist
  PROVE  PipelineInv'
BY DEF PipelineInv, PipelineType, ClearDist, Progress, Building, PassedMeansValidated,
   FailedMeansFlawed, JobsAreExact, ciVars, Untouched

LEMMA BuildSdistKeeps ==
  ASSUME PipelineInv, BuildSdist
  PROVE  PipelineInv'
<1> USE DEF ciVars
<1>1. CASE /\ dist' = Put(dist, <<"sdist", tree.release>>, tree.version)
           /\ building' = tree
           /\ phase' = "wheel" /\ UNCHANGED outcome
  <2>1. <<"sdist", tree.release>> \in DOMAIN dist'
        /\ dist'[<<"sdist", tree.release>>] = tree.version
    BY <1>1 DEF Put
  <2> QED
    BY <1>1, <2>1 DEF PipelineInv, PipelineType, BuildSdist, Progress, Building,
       PassedMeansValidated, FailedMeansFlawed, JobsAreExact, Untouched
<1>2. CASE "build" \in tree.flaws /\ End("failed") /\ UNCHANGED <<dist, building>>
  BY <1>2 DEF PipelineInv, PipelineType, BuildSdist, End, Progress, Building,
     PassedMeansValidated, FailedMeansFlawed, JobsAreExact
<1> QED BY <1>1, <1>2 DEF BuildSdist

LEMMA BuildWheelKeeps ==
  ASSUME PipelineInv, BuildWheel
  PROVE  PipelineInv'
<1> USE DEF ciVars
<1>1. CASE /\ "build" \notin building.flaws
           /\ dist' = Put(dist, <<"wheel", building.release>>,
                          dist[<<"sdist", building.release>>])
           /\ End("passed")
  <2>1. ASSUME Untouched
        PROVE  /\ tree.flaws = {}
               /\ \A kind \in {"sdist", "wheel"} :
                    /\ <<kind, tree.release>> \in DOMAIN dist'
                    /\ dist'[<<kind, tree.release>>] = tree.version
    <3>1. /\ building = tree /\ <<"sdist", tree.release>> \in DOMAIN dist
          /\ dist[<<"sdist", tree.release>>] = tree.version
          /\ Commands \cap tree.flaws = {}
      BY <2>1 DEF PipelineInv, Building, Progress, BuildWheel
    <3>2. tree.flaws = {}
      BY <1>1, <3>1, CommandFacts DEF PipelineInv, PipelineType, Tree
    <3>3. <<"sdist", tree.release>> # <<"wheel", tree.release>>
      OBVIOUS
    <3> QED BY <1>1, <3>1, <3>2, <3>3 DEF Put
  <2> QED
    BY <1>1, <2>1 DEF PipelineInv, PipelineType, BuildWheel, End, Progress, Building,
       PassedMeansValidated, FailedMeansFlawed, JobsAreExact, Untouched
<1>2. CASE "build" \in building.flaws /\ End("failed") /\ UNCHANGED dist
  BY <1>2 DEF PipelineInv, PipelineType, BuildWheel, End, Progress, Building,
     PassedMeansValidated, FailedMeansFlawed, JobsAreExact, Untouched
<1> QED BY <1>1, <1>2 DEF BuildWheel

LEMMA InterruptKeeps ==
  ASSUME PipelineInv, Interrupt
  PROVE  PipelineInv'
BY DEF PipelineInv, PipelineType, Interrupt, End, Progress, Building,
   PassedMeansValidated, FailedMeansFlawed, JobsAreExact, ciVars

\* After an edit the tree is newer than the one over which the run started.
LEMMA EditKeeps ==
  ASSUME PipelineInv, EditTree
  PROVE  PipelineInv'
<1>1. tree' \in Tree /\ tree'.version = tree.version + 1
  BY TreesAreTrees DEF EditTree, PipelineInv, PipelineType, Tree
<1>2. PipelineType' /\ ~Untouched'
  BY <1>1 DEF PipelineInv, PipelineType, EditTree, runVars, ciVars, Untouched, Tree
<1> QED
  BY <1>2 DEF PipelineInv, EditTree, runVars, ciVars, Progress, Building, Untouched,
     PassedMeansValidated, FailedMeansFlawed, JobsAreExact

LEMMA CIKeeps ==
  ASSUME PipelineInv, Push \/ EndJobs
  PROVE  PipelineInv'
<1>1. JobsAreExact'
  <2>1. CASE Push
    BY <2>1 DEF Push, JobsAreExact
  <2>2. CASE EndJobs
    BY <2>2 DEF EndJobs, JobsAreExact, PipelineInv, PipelineType, Tree
  <2> QED BY <2>1, <2>2
<1> QED
  BY <1>1 DEF PipelineInv, PipelineType, Push, EndJobs, runVars, Progress, Building,
     PassedMeansValidated, FailedMeansFlawed, Untouched

\* Whoever edits, pushes or interrupts, a run knows what is behind it, and the jobs
\* what they have looked at.
THEOREM PipelineSoundness == PipelineSpec => []PipelineInv
<1>1. PipelineInit => PipelineInv
  BY PipelineBegins
<1>2. PipelineInv /\ [PipelineNext]_pipelineVars => PipelineInv'
  <2> SUFFICES ASSUME PipelineInv, [PipelineNext]_pipelineVars PROVE PipelineInv'
    OBVIOUS
  <2>1. CASE UNCHANGED pipelineVars
    BY <2>1 DEF pipelineVars, runVars, ciVars, PipelineInv, PipelineType, Progress, Building,
       PassedMeansValidated, FailedMeansFlawed, JobsAreExact, Untouched
  <2> QED
    BY <2>1, StartKeeps, RunCommandKeeps, ClearDistKeeps, BuildSdistKeeps,
       BuildWheelKeeps, InterruptKeeps, EditKeeps, CIKeeps DEF PipelineNext
<1> QED BY <1>1, <1>2, PTL DEF PipelineSpec

-----------------------------------------------------------------------------
(* The theorems *)

\* A run of validate.py that exits 0 over a tree nobody edits leaves a tree on which
\* every stage passes and its two distributions, whatever survived the clearing of dist.
THEOREM PassedTheorem == PipelineSpec => []PassedMeansValidated
<1>1. PipelineInv => PassedMeansValidated
  BY DEF PipelineInv
<1> QED BY <1>1, PipelineSoundness, PTL

\* Over one tree, validate.py and the jobs of CI never disagree.
THEOREM AgreementTheorem == PipelineSpec => []JobsAgreeWithValidate
<1>1. PipelineInv => JobsAgreeWithValidate
  <2> SUFFICES ASSUME PipelineInv, ended, pushed = tree, Untouched
               PROVE  /\ red = {} => outcome # "failed"
                      /\ red # {} => outcome # "passed"
    BY DEF JobsAgreeWithValidate, Untouched
  <2>1. red = tree.flaws
    BY DEF PipelineInv, JobsAreExact
  <2>2. CASE phase = "idle"
    BY <2>1, <2>2 DEF PipelineInv, PassedMeansValidated, FailedMeansFlawed, Untouched
  <2>3. CASE phase # "idle"
    BY <2>3 DEF PipelineInv, PipelineType
  <2> QED BY <2>2, <2>3
<1> QED BY <1>1, PipelineSoundness, PTL

\* Only a run whose commands have all passed on the tree touches the distributions of
\* the last run.
THEOREM KeepTheorem == PipelineSpec => FailedChecksKeepDist
<1> DEFINE Keeps == dist' # dist /\ tree.version = started' => Commands \cap tree.flaws = {}
<1>1. PipelineInv /\ [PipelineNext]_pipelineVars => [Keeps]_pipelineVars
  <2> SUFFICES ASSUME PipelineInv, PipelineNext, dist' # dist, tree.version = started'
               PROVE  Commands \cap tree.flaws = {}
    OBVIOUS
  <2>1. ClearDist \/ BuildSdist \/ BuildWheel
    BY DEF PipelineNext, Start, RunCommand, Interrupt, EditTree, Push, EndJobs, runVars
  <2>2. phase \in {"clear", "sdist", "wheel"} /\ Untouched
    BY <2>1 DEF ClearDist, BuildSdist, BuildWheel, Untouched
  <2> QED BY <2>2 DEF PipelineInv, Progress
<1> QED BY <1>1, PipelineSoundness, PTL DEF PipelineSpec, FailedChecksKeepDist
=============================================================================
