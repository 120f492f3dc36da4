--------------------------- MODULE MCJobLifecycle ---------------------------
(* Instances of JobLifecycle for TLC.  A behaviour plays one of three       *)
(* scenes: two workers whose answers differ run one job that an operator    *)
(* re-arms ("answers"); or fair workers run two jobs whose answers hold one *)
(* memory ("settle"); or they run one job and crash meanwhile ("crash").    *)
EXTENDS JobLifecycle, TLC

CONSTANT a

VARIABLE scene

Settling ==
  INSTANCE JobLifecycle
    WITH Indices <- {1}, Contents <- {a}, MaxMishaps <- 0, MaxRearms <- 0

Crashing ==
  INSTANCE JobLifecycle
    WITH Indices <- {1}, Contents <- {a}, MaxMishaps <- 2, MaxRearms <- 0

Settles(action) == scene = "settle" /\ action /\ UNCHANGED scene
Crashes(action) ==
  scene = "crash" /\ action /\ status'[2] = "absent" /\ UNCHANGED scene

LifecycleInit == scene \in {"answers", "settle", "crash"} /\ Init

LifecycleNext ==
  \/ scene = "answers" /\ Next /\ status'[2] = "absent" /\ UNCHANGED scene
  \/ Settles(Settling!Next) \/ Crashes(Crashing!Next)

lifecycleVars == <<vars, scene>>

LifecycleSpec ==
  /\ LifecycleInit /\ [][LifecycleNext]_lifecycleVars
  /\ WF_lifecycleVars(Settles(Settling!Tick)) /\ WF_lifecycleVars(Crashes(Crashing!Tick))
  /\ \A w \in Workers :
       /\ WF_lifecycleVars(Settles(Settling!Proceeds(w)))
       /\ SF_lifecycleVars(Settles(Settling!Responds(w)))
       /\ WF_lifecycleVars(Crashes(Crashing!Proceeds(w)))
       /\ SF_lifecycleVars(Crashes(Crashing!Responds(w)))

(* EveryJobSettles, of the scenes whose workers are fair.                   *)
FairJobsSettle == scene # "answers" => EveryJobSettles
=============================================================================
