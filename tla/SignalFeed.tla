----------------------------- MODULE SignalFeed -----------------------------
(***************************************************************************)
(* subscribeToSignalInserts: the Realtime channel that signals come from,  *)
(* and its reconnection.  A problem starts a timer, which removes the      *)
(* channel and makes another; the client reports the removal of a channel  *)
(* as one more problem.  Too many in a row end the process.  Signals that  *)
(* are inserted while no channel is joined are never seen.                 *)
(***************************************************************************)
EXTENDS CircuitBreaker

CONSTANT MaxAttempts   \* MAX_ATTEMPTS

ASSUME FeedAssumption == MaxAttempts \in Nat

VARIABLES
  channel,   \* currentChannel: "none", "joining", "joined", "errored"
  timer,     \* whether reconnectTimer is set
  attempts   \* attemptCount

feed == <<channel, timer, attempts>>

FeedTyped ==
  /\ channel \in {"none", "joining", "joined", "errored"}
  /\ timer \in BOOLEAN
  /\ attempts \in 0..MaxAttempts

FeedGone   == channel' = "none" /\ timer' = FALSE /\ attempts' = 0
FeedStarts == channel' = "joining" /\ timer' = FALSE /\ attempts' = 0

Others == Quiet /\ UNCHANGED <<world, breaker, cached>>
-----------------------------------------------------------------------------
(* The status callback.  SUBSCRIBED; a channel with a problem may also be  *)
(* joined again by the client itself.                                      *)
SubscribedBugKeepsTimer ==
  /\ channel \in {"joining", "errored"}
  /\ channel' = "joined" /\ attempts' = 0
  /\ Others /\ UNCHANGED <<proc, beat, timer>>

Subscribed ==
  /\ channel \in {"joining", "errored"}
  /\ channel' = "joined" /\ attempts' = 0 /\ timer' = FALSE
  /\ Others /\ UNCHANGED <<proc, beat>>

(* CHANNEL_ERROR, TIMED_OUT and CLOSED, which leave the channel at next.   *)
ProblemBugNoExit(next) ==
  /\ Others /\ channel' = next /\ UNCHANGED <<proc, beat>>
  /\ \/ attempts < MaxAttempts /\ attempts' = attempts + 1 /\ timer' = TRUE
     \/ attempts = MaxAttempts /\ timer' = FALSE /\ UNCHANGED attempts

Problem(next) ==
  /\ Others
  /\ \/ /\ attempts < MaxAttempts
        /\ attempts' = attempts + 1 /\ timer' = TRUE /\ channel' = next
        /\ UNCHANGED <<proc, beat>>
     \/ /\ attempts = MaxAttempts
        /\ proc' = "failed" /\ beat' = FALSE /\ FeedGone

ChannelFails == Fails("feed") /\ channel # "none" /\ Problem("errored")

(* The timer: the old channel reports CLOSED while it is being removed,    *)
(* and a new one is made, with the timer of that report behind it.         *)
Reconnect == timer /\ Problem("joining")
=============================================================================
