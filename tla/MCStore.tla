------------------------------ MODULE MCStore -------------------------------
(* Instances for TLC of what the store does with what it keeps: Segments,   *)
(* Memories, Backups and Retrieval.  They share the ledger's file and no    *)
(* row, so a behaviour plays one of them.  Memories has a scene for all of  *)
(* its commands and one ("folds") for three claims of a subject; Backups    *)
(* one in which three backups are made and one in which events come while   *)
(* they are ("copies").                                                     *)
EXTENDS Segments, Memories, Backups, Retrieval

CONSTANTS s1, s2, e1, e2, gated, free

VARIABLE scene

MCPolicies == {[hourly |-> 1, daily |-> 1, monthly |-> 1]}

Copying == INSTANCE Backups WITH MaxPoints <- 2, MaxCaptured <- 1, MaxMishaps <- 1

(* A claim that cites one event, and later one that cites both and is of a  *)
(* kind that waits for a review.                                            *)
Derives(evidence, from, subject) ==
  [authority |-> "derived_memory", evidence |-> evidence, from |-> from, subject |-> subject]
MCDerivable == {Derives({e1}, 0, free), Derives({e1, e2}, 1, gated)}
MCCitations == {{e1, e2}}

(* Two claims of one day, and an older one that cites more.                 *)
Folding ==
  INSTANCE Memories
    WITH Derivable <- {Derives({e1, e2}, 0, free), Derives({e1}, 1, free), Derives({e2}, 1, free)},
         Citations <- {}

(* The words match a memory before, between or after the events, the added  *)
(* words in the opposite order; with a model and without.                   *)
MCMatches == {<<2, 1, 3, 4>>, <<4, 3, 1, 2>>, <<3, 2, 4, 1>>, <<1, 4, 2, 3>>}
MCCorpora ==
  {[plain |-> plain, expanded |-> Reverse(plain), meaning |-> meaning, cites |-> {<<2, 1>>}] :
     plain \in MCMatches, meaning \in {<<>>, <<3, 1, 2, 4>>}}

StoreInit ==
  /\ scene \in {"memories", "folds", "segments", "backups", "copies", "search"}
  /\ SegmentInit /\ MemInit /\ BackupInit /\ SearchInit
  /\ scene # "search" => visible = {} /\ corpus = CHOOSE c \in MCCorpora : TRUE

StoreNext ==
  \/ /\ scene = "memories" /\ MemNext
     /\ UNCHANGED <<segmentVars, backupVars, searchVars, scene>>
  \/ /\ scene = "folds" /\ Folding!MemNext
     /\ UNCHANGED <<segmentVars, backupVars, searchVars, scene>>
  \/ /\ scene = "segments" /\ SegmentNext
     /\ UNCHANGED <<memVars, backupVars, searchVars, scene>>
  \/ /\ scene = "backups" /\ BackupNext
     /\ UNCHANGED <<memVars, segmentVars, searchVars, scene>>
  \/ /\ scene = "copies" /\ Copying!BackupNext
     /\ UNCHANGED <<memVars, segmentVars, searchVars, scene>>
  \/ /\ scene = "search" /\ SearchNext
     /\ UNCHANGED <<memVars, segmentVars, backupVars, scene>>

StoreSpec ==
  StoreInit /\ [][StoreNext]_<<memVars, segmentVars, backupVars, searchVars, scene>>

FoldsSpec == scene = "folds" /\ StoreSpec
=============================================================================
