----------------------------- MODULE MCSources ------------------------------
(* Instances for TLC of what the service's fair loops do about sources.  A  *)
(* behaviour plays one of four scenes: sessions are found and captured      *)
(* while projects are registered (Registration), or two commands register   *)
(* projects at once, before there are sessions ("together"); or the fair    *)
(* Capture reads a transcript and a SQLite database, whose schema changes,  *)
(* is rolled back and changes again ("drift"), or whose files are replaced  *)
(* ("replaced").                                                            *)
EXTENDS MCRegistration

CONSTANTS c1, service1, record, bad, torn

VARIABLES
  scene, file, events, quarantine, gaps, cursor, drift, reading, bounds, written, cut,
  shadowed, shifted, lost, overlap

(* Lines that are no JSON are shorter than others.                          *)
MCWidth == (record :> 2) @@ (bad :> 1)

captureVars == <<file, events, quarantine, gaps, cursor, drift, reading, bounds, written, cut,
                 shadowed, shifted, lost, overlap>>

sourcesVars == <<regVars, captureVars, scene>>

Alone == INSTANCE Registration WITH Registrars <- {c1}

Together == INSTANCE Registration WITH Transcripts <- {}, MaxRestarts <- 0

Drifting ==
  INSTANCE Capture
    WITH Services <- {service1}, Sources <- {1, 2}, Jsonl <- {1}, Contents <- {record, bad},
         Malformed <- bad, Width <- MCWidth, Torn <- torn, MaxRows <- 1, MaxBytes <- 2,
         MaxIdentity <- 1, MaxCuts <- 0, MaxSchemas <- 3, MaxFailures <- 2, pass <- reading

Replacing ==
  INSTANCE Capture
    WITH Services <- {service1}, Sources <- {1, 2}, Jsonl <- {1}, Contents <- {record},
         Malformed <- bad, Width <- MCWidth, Torn <- torn, MaxRows <- 1, MaxBytes <- 2,
         MaxIdentity <- 2, MaxCuts <- 0, MaxSchemas <- 0, MaxFailures <- 1, pass <- reading

Races(action) == scene = "together" /\ action /\ UNCHANGED <<captureVars, scene>>
Registers(action) == scene = "registration" /\ action /\ UNCHANGED <<captureVars, scene>>
Drifts(action) == scene = "drift" /\ action /\ UNCHANGED <<regVars, scene>>
Replaces(action) == scene = "replaced" /\ action /\ UNCHANGED <<regVars, scene>>

SourcesInit ==
  /\ scene \in {"registration", "together", "drift", "replaced"}
  /\ RegInit /\ Drifting!Init

SourcesNext ==
  \/ Registers(Alone!RegNext) \/ Races(Together!RegNext)
  \/ Drifts(Drifting!Next) \/ Replaces(Replacing!Next)

(* The fairness of both modules.                                            *)
SourcesSpec ==
  /\ SourcesInit /\ [][SourcesNext]_sourcesVars
  /\ WF_sourcesVars(Registers(Rediscovery)) /\ WF_sourcesVars(Registers(CapturePass))
  /\ WF_sourcesVars(Drifts(Drifting!Proceeds(service1)))
  /\ WF_sourcesVars(Replaces(Replacing!Proceeds(service1)))

(* Capture: every record of every source is captured, whatever becomes of   *)
(* the other source.                                                        *)
EverythingCaptured == Drifting!EverythingCaptured
=============================================================================
