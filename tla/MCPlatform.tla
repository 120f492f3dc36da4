----------------------------- MODULE MCPlatform -----------------------------
(* Instances for TLC of what surrounds the store: WriterLease, PathClaims   *)
(* and MergePreflight, BenchmarkMatrix, Deployment and Installation.  They  *)
(* share no state that the models keep, so a behaviour plays one of them.   *)
(* WriterLease has three scenes, while two sessions compete for a task and  *)
(* the clock runs past two lease durations: two hooks are in flight at once *)
(* ("renewals"); one is, beside requests of the API ("requests"); a handoff *)
(* request is retried beside those ("handoff").  PathClaims has one for     *)
(* commands that fail ("tasks") and one for claims, whose commands do not   *)
(* interleave where only the registry can tell ("claims"); BenchmarkMatrix  *)
(* one for sessions of all outcomes ("benchmark") and one for changes of    *)
(* what was pinned ("drift").                                               *)
EXTENDS WriterLease, PathClaims, MergePreflight, BenchmarkMatrix, Deployment, Installation

CONSTANTS a1, a2, b1, b2

VARIABLE scene

----------------------------------------------------------------------------
Renewing == INSTANCE WriterLease WITH MaxGeneration <- 1
Requesting == INSTANCE WriterLease WITH MaxGeneration <- 1, MaxInflight <- 1
Handing == INSTANCE WriterLease WITH MaxInflight <- 0

(* Commits 1 and 2 conflict in "f", which git names one way and not the     *)
(* other; 3 has whitespace errors against 1, git fails on <<3, 1>>, and     *)
(* names no path of the conflict of 2 and 3.                                *)
Clean == [base |-> TRUE, whitespace |-> FALSE, exit |-> 0, named |-> {},
          source |-> {"f"}, target |-> {}]
MCCommits == 1..3
MCVerdict ==
  [pair \in MCCommits \X MCCommits |->
     CASE pair[1] = pair[2] -> Clean
       [] pair = <<1, 2>> -> [Clean EXCEPT !.exit = 1, !.named = {"f"}]
       [] pair = <<2, 1>> -> [Clean EXCEPT !.exit = 1, !.target = {"f"}]
       [] pair = <<1, 3>> -> [Clean EXCEPT !.whitespace = TRUE]
       [] pair = <<3, 1>> -> [Clean EXCEPT !.exit = 128]
       [] pair = <<2, 3>> -> [Clean EXCEPT !.exit = 1, !.target = {"g"}]
       [] OTHER -> [Clean EXCEPT !.base = FALSE]]

MCTasks == {a1, a2}
MCCallers == {b1, b2}
MCFiles == {<<"src", "ab">>, <<"target", "b">>}

(* A file, its directory, the glob of all files in it, a function of the    *)
(* file, and a file of a directory that is ignored.                         *)
Claim(kind, path, symbol) == [kind |-> kind, path |-> path, stem |-> None, symbol |-> symbol]
MCClaimable ==
  {Claim("file", <<"src", "ab">>, None), Claim("directory", <<"src">>, None),
   Claim("glob", <<"src", "*">>, None), Claim("symbol", <<"src", "ab">>, "f"),
   Claim("file", <<"target", "b">>, None)}

Tasking == INSTANCE PathClaims WITH Claimable <- {}, MaxClaims <- 0, MaxFaults <- 2

(* Two samples of a block, the one with a brain and the one without, and    *)
(* sessions that end well, over the limit, without usage, or killed and     *)
(* without a trace.                                                         *)
Good == [exit |-> "zero", usage |-> TRUE, turns |-> 1, over |-> FALSE, trace |-> TRUE]
MCMatrix == <<[id |-> "treatment", block |-> "b", condition |-> "C4"],
              [id |-> "control", block |-> "b", condition |-> "C0"]>>
MCEndings == {Good, [Good EXCEPT !.over = TRUE],
              [Good EXCEPT !.usage = FALSE, !.turns = 0],
              [Good EXCEPT !.exit = "killed", !.trace = FALSE]}

Drifting ==
  INSTANCE BenchmarkMatrix
    WITH Endings <- {Good, [Good EXCEPT !.over = TRUE]}, MaxLaunches <- 2, MaxDrifts <- 2

MCScheduled == {a1, a2}
MCHarnesses == {b1, b2}
MCHookEvents == {"SessionStart", "SessionEnd"}
MCPaths == {"target", "bin"}

----------------------------------------------------------------------------
leases == <<vars, preflightVars>>
setups == <<deployVars, installVars>>

PlatformInit ==
  /\ scene \in {"renewals", "requests", "handoff", "merge", "tasks", "claims", "benchmark",
               "drift", "deploy", "install"}
  /\ Init /\ ClaimsInit /\ PreflightInit /\ BenchInit /\ DeployInit
  /\ InstallationInit
  /\ scene # "merge" => ref = [b \in Branches |-> 1]
  /\ scene # "deploy" => mcp = Absent
  /\ scene # "install" => \A h \in Harnesses : hooked[h] = {}

PlatformNext ==
  \/ /\ \/ /\ scene = "renewals"
           /\ Renewing!TaskNext \/ Renewing!HookNext \/ Renewing!Tick
        \/ /\ scene = "requests"
           /\ Requesting!TaskNext \/ Requesting!ApiNext \/ Requesting!HookNext \/ Requesting!Tick
        \/ scene = "handoff" /\ Handing!Next
     /\ UNCHANGED <<preflightVars, claimVars, benchVars, setups, scene>>
  \/ /\ scene = "merge" /\ PreflightNext
     /\ UNCHANGED <<vars, claimVars, benchVars, setups, scene>>
  \/ /\ \/ scene = "tasks" /\ Tasking!ClaimsNext
        \/ /\ scene = "claims" /\ ClaimsNext
           /\ (\E c \in {b1, b2} : call'[c].at \in {"alias", "save", "record"}) =>
                \E c \in {b1, b2} : call'[c].at = "idle"
     /\ UNCHANGED <<leases, benchVars, setups, scene>>
  \/ /\ \/ scene = "benchmark" /\ BenchNext
        \/ scene = "drift" /\ Drifting!BenchNext
     /\ UNCHANGED <<leases, claimVars, setups, scene>>
  \/ /\ scene = "deploy" /\ DeployNext
     /\ UNCHANGED <<leases, claimVars, benchVars, installVars, scene>>
  \/ /\ scene = "install" /\ InstallationNext
     /\ UNCHANGED <<leases, claimVars, benchVars, deployVars, scene>>

PlatformSpec ==
  /\ PlatformInit
  /\ [][PlatformNext]_<<leases, claimVars, benchVars, setups, scene>>

SessionSymmetry == Permutations(Sessions)
=============================================================================
