--------------------------- MODULE CircuitBreaker ---------------------------
(***************************************************************************)
(* What may keep the router from trading at all: the circuit breaker, the  *)
(* account the heartbeat caches, the switches of bridge_config, and the    *)
(* life of the process.  The breaker is in memory: a restart begins it     *)
(* anew with the equity of that moment.  SignalRouter composes it with the *)
(* handlers of signals.                                                    *)
(***************************************************************************)
EXTENDS Integers

CONSTANTS Equities,     \* account equities (NAV), positive
          DrawdownPct,  \* circuit_breaker_drawdown_pct, in percent
          MaxLosses,    \* max_consecutive_losses
          Cooldown      \* cooldown_after_losses_minutes

ASSUME BreakerAssumption ==
  /\ Equities \subseteq Nat \ {0}
  /\ DrawdownPct \in 1..100
  /\ MaxLosses \in Nat \ {0} /\ Cooldown \in Nat \ {0}

VARIABLES
  faults,       \* the fault model of this behaviour
  proc,         \* "up", "stopped" (exit 0) or "failed" (exit 1)
  equity,       \* the account's equity at OANDA
  killDb,       \* bridge_config kill_switch
  activeDb,     \* bridge_config bridge_active
  killSwitch, peak, losses,   \* CircuitBreakerState
  cooldown,     \* minutes until cooldownEndAt
  cached,       \* cachedAccount of the heartbeat; 0 while it has none
  beat,         \* whether the heartbeat still has to look at bridge_active
  verdict       \* what the breaker just told the router

world   == <<faults, equity, killDb, activeDb>>
breaker == <<killSwitch, peak, losses, cooldown>>
account == <<cached, beat>>
guards  == <<world, proc, breaker, account, verdict>>

GuardsTyped ==
  /\ proc \in {"up", "stopped", "failed"}
  /\ equity \in Equities
  /\ killDb \in BOOLEAN /\ activeDb \in BOOLEAN /\ killSwitch \in BOOLEAN
  /\ peak \in Equities
  /\ losses \in 0..MaxLosses
  /\ cooldown \in 0..Cooldown
  /\ cached \in Equities \cup {0}
  /\ beat \in BOOLEAN
  /\ verdict \in {"none", "admitted", "blocked"}

(* Drawdown of an equity e, as signalRouter computes it. *)
Low(from, e) == (from - e) * 100 >= DrawdownPct * from

GuardsInit ==
  /\ proc = "up"
  /\ equity \in Equities
  /\ killDb = FALSE /\ activeDb = TRUE
  /\ killSwitch = FALSE /\ peak = equity /\ losses = 0 /\ cooldown = 0
  /\ cached = 0 /\ beat = FALSE
  /\ verdict = "none"

Fails(kind) == kind \in faults
Quiet       == verdict' = "none"

-----------------------------------------------------------------------------
(* Names with Bug are mistakes a change to the code could make; no         *)
(* specification uses them: the properties are tested against them.        *)

(* The world outside the process, where it does move. *)
EquityMoves(e) ==
  /\ Fails("world") /\ e # equity
  /\ equity' = e /\ Quiet
  /\ UNCHANGED <<faults, proc, killDb, activeDb, breaker, account>>

Dashboard ==
  /\ Fails("world") /\ Quiet
  /\ \/ killDb' = ~killDb /\ UNCHANGED activeDb
     \/ activeDb' = ~activeDb /\ UNCHANGED killDb
  /\ UNCHANGED <<faults, proc, equity, breaker, account>>

Tick ==
  /\ cooldown > 0
  /\ cooldown' = cooldown - 1 /\ Quiet
  /\ UNCHANGED <<world, proc, killSwitch, peak, losses, account>>

Crash ==
  /\ proc = "up" /\ Fails("crash")
  /\ proc' = "failed" /\ beat' = FALSE /\ Quiet
  /\ UNCHANGED <<world, breaker, cached>>

(* main: Railway starts a process again that failed, and only an operator  *)
(* one that stopped.                                                       *)
Begin ==
  /\ activeDb
  /\ proc' = "up"
  /\ killSwitch' = killDb /\ peak' = equity /\ losses' = 0 /\ cooldown' = 0
  /\ cached' = 0

StartBugExitsFailing ==
  /\ Quiet /\ UNCHANGED <<world, beat>>
  /\ \/ Begin
     \/ ~activeDb /\ proc' = "failed" /\ UNCHANGED <<breaker, cached>>

Start ==
  /\ Quiet /\ UNCHANGED <<world, beat>>
  /\ \/ Begin
     \/ ~activeDb /\ proc' = "stopped" /\ UNCHANGED <<breaker, cached>>

RailwayRestart == proc = "failed" /\ Start
OperatorStart  == proc = "stopped" /\ Start

-----------------------------------------------------------------------------
(* runHeartbeat: the account first, then bridge_active.  An account that   *)
(* cannot be read leaves the cached one; a bridge_active that cannot be    *)
(* read looks like one that is off.                                        *)
BeatAccountBugCachesOnce ==
  /\ proc = "up" /\ ~beat
  /\ cached' = IF cached = 0 THEN equity ELSE cached
  /\ beat' = TRUE /\ Quiet
  /\ UNCHANGED <<world, proc, breaker>>

BeatAccount ==
  /\ proc = "up" /\ ~beat
  /\ \/ cached' = equity
     \/ Fails("account") /\ UNCHANGED cached
  /\ beat' = TRUE /\ Quiet
  /\ UNCHANGED <<world, proc, breaker>>

BeatActive ==
  /\ proc = "up" /\ beat
  /\ \/ activeDb /\ proc' = "up"
     \/ (~activeDb \/ Fails("dbRead")) /\ proc' = "stopped"
  /\ beat' = FALSE /\ Quiet
  /\ UNCHANGED <<world, breaker, cached>>

-----------------------------------------------------------------------------
(* recordClosedTrade: whatever is not a loss ends the streak. *)
TradeBooked(result) ==
  /\ losses' = IF result # "loss" THEN 0
               ELSE IF losses < MaxLosses THEN losses + 1 ELSE losses
  /\ Quiet
  /\ UNCHANGED <<world, proc, killSwitch, peak, cooldown, account>>

(* isTripped, with the drawdown of the cached account; without one the     *)
(* drawdown counts as none.                                                *)
IsTripped ==
  \/ killSwitch
  \/ cached # 0 /\ Low(peak, cached)
  \/ losses >= MaxLosses /\ cooldown > 0

(* The breaker's part of processSignal, and the risk layer that wants an   *)
(* account.  A trip begins the cooldown once more if the losses are there. *)
Signal ==
  /\ verdict' = IF IsTripped \/ cached = 0 THEN "blocked" ELSE "admitted"
  /\ cooldown' = IF IsTripped /\ losses >= MaxLosses THEN Cooldown ELSE cooldown
  /\ UNCHANGED <<world, proc, killSwitch, peak, losses, account>>
=============================================================================
