------------------------------ MODULE Quality ------------------------------
(***************************************************************************)
(* The commands that check a project: fft utest, which builds models from  *)
(* fixtures, and fft test and fft source freshness, which build nothing    *)
(* and ask the engine.  They share no state; a behaviour is of one of them.*)
(***************************************************************************)
EXTENDS UnitTests, DataTests

VARIABLE command
qvars == <<command, uvars, dvars>>

\* the other command's variables stand still
Init == \/ command = "utest" /\ UtestInit /\ DataIdle
        \/ command = "test" /\ DataInit /\ UtestInit /\ suite = CHOOSE s \in DOMAIN UtestScenarios : TRUE
UtestStep == command = "utest" /\ UtestNext /\ UNCHANGED <<command, dvars>>
DataStep == command = "test" /\ DataNext /\ UNCHANGED <<command, uvars>>
Next == UtestStep \/ DataStep
QualitySpec == Init /\ [][Next]_qvars

-----------------------------------------------------------------------------
\* What a pipeline sees of these commands is their exit code: fft utest does not hide a
\* failed case or a model that is not there, fft test a check that failed, was refused or
\* never ran, fft source freshness a source that is too old.
ExitCodesTellTheTruth == UtestExitTellsTruth /\ ZeroMeansAllPassed /\ StaleIsCaught
=============================================================================
