----------------------------- MODULE HookDelivery -----------------------------
(***************************************************************************)
(* Hooks: a harness runs the shim (brain-hook), which sends an envelope    *)
(* through the named pipe and waits at most three seconds; the service     *)
(* (brain-service: pipe.rs, hook_handler.rs) serves every request on a     *)
(* task of its own, goes on when the shim has given up, and counts what it *)
(* delivered.  The writer lease a hook manages is WriterLease's.           *)
(***************************************************************************)
EXTENDS Naturals, FiniteSets

CONSTANTS
  NativeSessions,  \* sessions of a harness; a session runs one hook at a time
  Memories,        \* memories a prompt may be answered with
  MaxPushed,       \* MAX_PUSHED_MEMORIES
  SessionCap,      \* MAX_SESSION_PUSHED_MEMORIES
  MaxCalls,        \* bound: hooks run
  MaxHookFaults    \* bound: stops of the service and receipts lost

ASSUME MemoriesAssumption == IsFiniteSet(Memories) /\ MaxPushed \in Nat /\ SessionCap \in Nat

VARIABLES
  pipe,       \* the service listens
  calls,      \* the hooks run so far: a function on 1..n
  pushed,     \* session_pushes
  received,   \* how often a session was handed a memory
  ended,      \* sessions with a SessionEnded event
  endJobs,    \* consolidation jobs enqueued for the end of a session
  deliveries, \* context_deliveries: the calls counted
  receipts,   \* lifecycle_events: [call, stage]
  decisions,  \* retrieval_decisions: [call, outcome]
  spool,      \* the envelopes in runtime/spool
  hookFaults

hookVars == <<pipe, calls, pushed, received, ended, endJobs, deliveries, receipts, decisions,
              spool, hookFaults>>

----------------------------------------------------------------------------
Events == {"SessionStart", "UserPromptSubmit", "SessionEnd", "Other"}

(* shim: "waiting", "answered" or "gave up"; at: where the request is;     *)
(* sent: the reply was written to the pipe while the shim waited.          *)
Call(session, event) ==
  [session |-> session, event |-> event, shim |-> "waiting", at |-> "unsent",
   already |-> {}, text |-> FALSE, memories |-> {}, sent |-> FALSE]

Ids == DOMAIN calls

Moved(c, at) == [calls EXCEPT ![c].at = at]

(* The shim: it opens the pipe again and again until its time is over.     *)
Invoke ==
  /\ Cardinality(Ids) < MaxCalls
  /\ \E session \in NativeSessions, event \in Events :
       /\ \A c \in Ids : calls[c].session = session => calls[c].shim # "waiting"
       /\ calls' = [c \in 1..(Cardinality(Ids) + 1) |->
                      IF c \in Ids THEN calls[c] ELSE Call(session, event)]
  /\ UNCHANGED <<pipe, pushed, received, ended, endJobs, deliveries, receipts, decisions,
                 spool, hookFaults>>

Send ==
  /\ pipe
  /\ \E c \in Ids : /\ calls[c].at = "unsent" /\ calls[c].shim = "waiting"
                    /\ calls' = Moved(c, "queued")
  /\ UNCHANGED <<pipe, pushed, received, ended, endJobs, deliveries, receipts, decisions,
                 spool, hookFaults>>

(* The time is over: the envelope is spooled and the harness gets "{}".    *)
GiveUp ==
  /\ \E c \in Ids : /\ calls[c].shim = "waiting"
                    /\ calls' = [calls EXCEPT ![c].shim = "gave up"]
                    /\ spool' = spool \cup {c}
  /\ UNCHANGED <<pipe, pushed, received, ended, endJobs, deliveries, receipts, decisions, hookFaults>>

ReadReply ==
  /\ \E c \in Ids :
       /\ calls[c].shim = "waiting" /\ calls[c].at \in {"flushed", "counted"}
       /\ calls' = [calls EXCEPT ![c].shim = "answered", ![c].memories = {}]
       /\ received' = [received EXCEPT ![calls[c].session] =
                         [m \in Memories |-> IF m \in calls[c].memories THEN @[m] + 1 ELSE @[m]]]
  /\ UNCHANGED <<pipe, pushed, ended, endJobs, deliveries, receipts, decisions, spool, hookFaults>>

----------------------------------------------------------------------------
(* The handler.  Receipts, decisions and deliveries are recorded fail-open: *)
(* each may be lost.                                                       *)
Records(record) ==
  \/ record /\ UNCHANGED hookFaults
  \/ hookFaults < MaxHookFaults /\ hookFaults' = hookFaults + 1
     /\ UNCHANGED <<receipts, decisions, deliveries>>

Receive ==
  /\ \E c \in Ids :
       /\ calls[c].at = "queued"
       /\ calls' = Moved(c, "received")
       /\ Records(/\ receipts' = receipts \cup {[call |-> c, stage |-> "HookReceived"]}
                  /\ UNCHANGED <<decisions, deliveries>>)
  /\ UNCHANGED <<pipe, pushed, received, ended, endJobs, spool>>

Decide(c, outcome) ==
  Records(/\ decisions' = decisions \cup {[call |-> c, outcome |-> outcome]}
          /\ UNCHANGED <<receipts, deliveries>>)

(* mid_session_push reads what the session was given before it searches.   *)
ReadPushed ==
  /\ \E c \in Ids :
       /\ calls[c].at = "received" /\ calls[c].event = "UserPromptSubmit"
       /\ calls' = [calls EXCEPT ![c].at = "searching", ![c].already = pushed[calls[c].session]]
  /\ UNCHANGED <<pipe, pushed, received, ended, endJobs, deliveries, receipts, decisions,
                 spool, hookFaults>>

Room(already) ==
  IF Cardinality(already) >= SessionCap THEN 0
  ELSE IF SessionCap - Cardinality(already) < MaxPushed
       THEN SessionCap - Cardinality(already) ELSE MaxPushed

(* Mutant: only what this session was not handed is left out, not its cap. *)
SelectableUncapped(already) ==
  {chosen \in SUBSET (Memories \ already) : Cardinality(chosen) <= MaxPushed}

(* The memories a prompt may be answered with: new to the session, few     *)
(* enough, and often none.                                                 *)
Selectable(already) ==
  {chosen \in SUBSET (Memories \ already) : Cardinality(chosen) <= Room(already)}

Push ==
  /\ \E c \in Ids :
       /\ calls[c].at = "searching"
       /\ \E chosen \in Selectable(calls[c].already) :
            /\ pushed' = [pushed EXCEPT ![calls[c].session] = @ \cup chosen]
            /\ calls' = [calls EXCEPT ![c].at = "replying", ![c].already = {},
                                      ![c].memories = chosen, ![c].text = chosen # {}]
            /\ Decide(c, IF chosen = {} THEN "HealthySilence" ELSE "Delivered")
  /\ UNCHANGED <<pipe, received, ended, endJobs, spool>>

(* An error on the way costs the prompt its push, and nothing else.        *)
FailPush ==
  /\ \E c \in Ids : /\ calls[c].at = "searching"
                    /\ calls' = [calls EXCEPT ![c].at = "replying", ![c].already = {}]
                    /\ Decide(c, "Failed")
  /\ UNCHANGED <<pipe, pushed, received, ended, endJobs, spool>>

(* The orientation of a starting session.                                  *)
Orient ==
  /\ \E c \in Ids, outcome \in {"Delivered", "HealthySilence", "Failed"} :
       /\ calls[c].at = "received" /\ calls[c].event = "SessionStart"
       /\ calls' = [calls EXCEPT ![c].at = "replying", ![c].text = (outcome = "Delivered")]
       /\ Decide(c, outcome)
  /\ UNCHANGED <<pipe, pushed, received, ended, endJobs, spool>>

(* record_session_end appends an event whose key is the session's.         *)
AppendEnd ==
  /\ \E c \in Ids :
       /\ calls[c].at = "received" /\ calls[c].event = "SessionEnd"
       /\ ended' = ended \cup {calls[c].session}
       /\ calls' = Moved(c, IF calls[c].session \in ended THEN "replying" ELSE "appended")
  /\ UNCHANGED <<pipe, pushed, received, endJobs, deliveries, receipts, decisions, spool, hookFaults>>

EnqueueEnd ==
  /\ \E c \in Ids :
       /\ calls[c].at = "appended"
       /\ endJobs' = [endJobs EXCEPT ![calls[c].session] = @ + 1]
       /\ calls' = Moved(c, "replying")
       /\ Records(/\ receipts' = receipts \cup {[call |-> c, stage |-> "SessionEndPersisted"]}
                  /\ UNCHANGED <<decisions, deliveries>>)
  /\ UNCHANGED <<pipe, pushed, received, ended, spool>>

(* Any other event is answered with a warning about the lease, or nothing. *)
Warn ==
  /\ \E c \in Ids : /\ calls[c].at = "received" /\ calls[c].event = "Other"
                    /\ calls' = Moved(c, "replying")
  /\ UNCHANGED <<pipe, pushed, received, ended, endJobs, deliveries, receipts, decisions,
                 spool, hookFaults>>

Dropped(call) == [call EXCEPT !.at = "dropped", !.already = {}, !.memories = {}]

(* The reply is written and flushed, unless the shim is gone.              *)
WriteReply ==
  /\ \E c \in Ids :
       /\ calls[c].at = "replying"
       /\ calls' = IF calls[c].shim = "waiting"
                   THEN [calls EXCEPT ![c].at = "flushed", ![c].sent = TRUE]
                   ELSE [calls EXCEPT ![c] = Dropped(@)]
  /\ UNCHANGED <<pipe, pushed, received, ended, endJobs, deliveries, receipts, decisions,
                 spool, hookFaults>>

Countable == {c \in Ids : calls[c].at = "flushed"}

CountDelivery ==
  /\ \E c \in Countable, kept \in SUBSET {"delivery", "receipt"} :
       /\ calls' = Moved(c, "counted")
       /\ deliveries' = IF calls[c].text /\ "delivery" \in kept
                        THEN deliveries \cup {c} ELSE deliveries
       /\ receipts' = IF "receipt" \in kept
                      THEN receipts \cup {[call |-> c, stage |-> "ReplyFlushed"]} ELSE receipts
       /\ hookFaults' = hookFaults + (2 - Cardinality(kept))
  /\ hookFaults' <= MaxHookFaults
  /\ UNCHANGED <<pipe, pushed, received, ended, endJobs, decisions, spool>>

(* The service stops: the requests it holds are gone, and so are its       *)
(* replies that nobody had read.                                           *)
StopService ==
  /\ pipe /\ hookFaults < MaxHookFaults
  /\ hookFaults' = hookFaults + 1
  /\ pipe' = FALSE
  /\ calls' = [c \in Ids |->
       IF calls[c].at \in {"unsent", "counted"} THEN calls[c]
       ELSE Dropped(calls[c])]
  /\ UNCHANGED <<pushed, received, ended, endJobs, deliveries, receipts, decisions, spool>>

StartService ==
  /\ ~pipe
  /\ pipe' = TRUE
  /\ UNCHANGED <<calls, pushed, received, ended, endJobs, deliveries, receipts, decisions,
                 spool, hookFaults>>

----------------------------------------------------------------------------
(* What `brain sessions` says of a channel of a session.                   *)

Channel(session, event) == {c \in Ids : calls[c].session = session /\ calls[c].event = event}

HasReceipt(channel, stage) == \E r \in receipts : r.call \in channel /\ r.stage = stage

HasDecision(channel, outcome) ==
  \E d \in decisions : d.call \in channel /\ d.outcome = outcome

ChannelStatus(session, event) ==
  LET channel == Channel(session, event)
  IN IF ~HasReceipt(channel, "HookReceived") THEN "Missing"
     ELSE IF HasDecision(channel, "Failed") THEN "Failed"
     ELSE IF ~HasReceipt(channel, "ReplyFlushed") THEN "Pending"
     ELSE IF HasDecision(channel, "HealthySilence") THEN "HealthySilence"
     ELSE "Delivered"

----------------------------------------------------------------------------
HookInit ==
  /\ pipe = TRUE /\ calls = <<>>
  /\ pushed = [s \in NativeSessions |-> {}]
  /\ received = [s \in NativeSessions |-> [m \in Memories |-> 0]]
  /\ ended = {} /\ endJobs = [s \in NativeSessions |-> 0]
  /\ deliveries = {} /\ receipts = {} /\ decisions = {} /\ spool = {} /\ hookFaults = 0

DeliveryNext ==
  \/ Invoke \/ Send \/ GiveUp \/ ReadReply
  \/ Receive \/ ReadPushed \/ Push \/ FailPush \/ Orient \/ AppendEnd \/ EnqueueEnd \/ Warn
  \/ WriteReply \/ CountDelivery \/ StopService \/ StartService

HookSpec == HookInit /\ [][DeliveryNext]_hookVars

----------------------------------------------------------------------------
(* A session is handed a memory at most once, and no more than its cap of  *)
(* them, although a prompt the shim gave up on may still be at work beside *)
(* the next one, with the same memories in hand.                           *)
PushedOnce ==
  \A s \in NativeSessions :
    /\ \A m \in Memories : received[s][m] <= 1
    /\ Cardinality({m \in Memories : received[s][m] > 0}) <= SessionCap

(* However often its end is reported, a session's end is queued for        *)
(* consolidation at most once.                                             *)
EndQueuedOnce == \A s \in NativeSessions : endJobs[s] <= 1

(* What is counted as delivered was in the pipe while its shim waited, and *)
(* a channel is only said to have answered when one of its replies was.    *)
DeliveredWasSent ==
  LET sent == {c \in Ids : calls[c].sent}
  IN /\ deliveries \subseteq sent
     /\ \A s \in NativeSessions, e \in Events :
          ChannelStatus(s, e) \in {"Delivered", "HealthySilence"} => Channel(s, e) \cap sent # {}

(* What is promised of the hooks of a session.                             *)
HooksSound == PushedOnce /\ EndQueuedOnce /\ DeliveredWasSent
=============================================================================
