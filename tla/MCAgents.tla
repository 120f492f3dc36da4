------------------------------ MODULE MCAgents -------------------------------
(* Instances for TLC of what agents do to the service: the transcripts they *)
(* write (Capture), the prompts they send (PromptContext) and the hooks     *)
(* they run (HookDelivery).  The three share no state that the models keep, *)
(* so a behaviour plays one of them.  Capture has six scenes.  In four of   *)
(* them one service at a time makes passes that fail: a transcript is       *)
(* replaced twice, or it is replaced and cut, or it is cut and grows to     *)
(* three bytes, or the schema of a database changes, is rolled back and     *)
(* changes again.  In two of them two services make passes over a           *)
(* transcript together, while it is replaced or while it is cut.            *)
EXTENDS Capture, PromptContext, HookDelivery

VARIABLE scene

Replaced ==
  INSTANCE Capture WITH Sources <- {1}, MaxBytes <- 2, MaxCuts <- 0, MaxSchemas <- 0
Truncated ==
  INSTANCE Capture WITH Sources <- {1}, MaxBytes <- 2, MaxIdentity <- 2, MaxSchemas <- 0
Regrown == INSTANCE Capture WITH Sources <- {1}, MaxIdentity <- 1, MaxSchemas <- 0
Raced ==
  INSTANCE Capture
    WITH Sources <- {1}, MaxBytes <- 2, MaxIdentity <- 2, MaxCuts <- 0, MaxSchemas <- 0,
         MaxFailures <- 0
Contended ==
  INSTANCE Capture
    WITH Sources <- {1}, MaxBytes <- 2, MaxIdentity <- 1, MaxSchemas <- 0, MaxFailures <- 0
Drifting == INSTANCE Capture WITH Sources <- {2}, MaxIdentity <- 2, MaxCuts <- 0

OneAtATime == Cardinality({p \in Services : pass'[p] # Idle}) <= 1

MCMemories == 1..3

(* Lines that are no JSON are shorter than others.                          *)
MCWidth == [c \in Contents |-> IF c = Malformed THEN 1 ELSE 2]

AgentsInit ==
  /\ scene \in {"replaced", "truncated", "regrown", "raced", "contended", "drift", "prompts",
                "hooks"}
  /\ Init /\ PromptInit /\ HookInit

AgentsNext ==
  \/ /\ \/ scene = "replaced" /\ Replaced!Next /\ OneAtATime
        \/ scene = "truncated" /\ Truncated!Next /\ OneAtATime
        \/ scene = "regrown" /\ Regrown!Next /\ OneAtATime
        \/ scene = "drift" /\ Drifting!Next /\ OneAtATime
        \/ scene = "raced" /\ Raced!Next
        \/ scene = "contended" /\ Contended!Next
     /\ UNCHANGED <<promptVars, hookVars, scene>>
  \/ scene = "prompts" /\ PromptNext /\ UNCHANGED <<vars, hookVars, scene>>
  \/ scene = "hooks" /\ DeliveryNext /\ UNCHANGED <<vars, promptVars, scene>>

AgentsSpec == AgentsInit /\ [][AgentsNext]_<<vars, promptVars, hookVars, scene>>

ServiceSymmetry == Permutations(Services)
=============================================================================
