------------------------------- MODULE TmrAbs -------------------------------
(***************************************************************************)
(* What os_tmr.c promises: a started timer has so many ticks left, every   *)
(* tick takes one from each running timer, those with none left fire       *)
(* before the next tick, each once, and a periodic timer goes on with its  *)
(* period.  There is no wheel, no clock that wraps and no walk.            *)
(***************************************************************************)
EXTENDS Integers

CONSTANTS Tmrs, Valid, None

VARIABLES
  mode,     \* "unused", "idle" or "running"
  setting,  \* what the timer was created with
  left,     \* ticks left of a running timer
  ringing   \* the timer whose call-back runs

absVars == <<mode, setting, left, ringing>>

Due == {t \in Tmrs : mode[t] = "running" /\ left[t] = 0}

AbsInit ==
  /\ mode = [t \in Tmrs |-> "unused"]
  /\ setting = [t \in Tmrs |-> [opt |-> "NONE"]]
  /\ left = [t \in Tmrs |-> 0]
  /\ ringing = None

Change(t, m, n) ==
  /\ mode' = [mode EXCEPT ![t] = m]
  /\ left' = [left EXCEPT ![t] = n]

(* Between a tick and the last timer that fires at it, only a call-back    *)
(* can call a service.                                                     *)
Service ==
  /\ Due = {} \/ ringing # None
  /\ UNCHANGED ringing

Create(t, s) ==
  /\ Service
  /\ mode[t] = "unused"
  /\ Change(t, "idle", 0)
  /\ setting' = [setting EXCEPT ![t] = s]

Start(t) ==
  /\ Service
  /\ mode[t] # "unused"
  /\ Change(t, "running", IF setting[t].dly = 0 THEN setting[t].period ELSE setting[t].dly)
  /\ UNCHANGED setting

Stop(t) ==
  /\ Service
  /\ mode[t] = "running"
  /\ Change(t, "idle", 0)
  /\ UNCHANGED setting

Delete(t) ==
  /\ Service
  /\ mode[t] # "unused"
  /\ Change(t, "unused", 0)
  /\ setting' = [setting EXCEPT ![t] = [opt |-> "NONE"]]

Tick ==
  /\ Due = {} /\ ringing = None
  /\ left' = [t \in Tmrs |-> IF mode[t] = "running" THEN left[t] - 1 ELSE left[t]]
  /\ UNCHANGED <<mode, setting, ringing>>

Fire(t) ==
  /\ t \in Due /\ ringing = None
  /\ ringing' = t
  /\ IF setting[t].opt = "PERIODIC" THEN Change(t, "running", setting[t].period)
                                    ELSE Change(t, "idle", 0)
  /\ UNCHANGED setting

Return ==
  /\ ringing # None
  /\ ringing' = None
  /\ UNCHANGED <<mode, setting, left>>

AbsNext ==
  \/ Tick \/ Return
  \/ \E t \in Tmrs : \/ \E s \in Valid : Create(t, s)
                     \/ Start(t) \/ Stop(t) \/ Delete(t) \/ Fire(t)

AbsSpec == AbsInit /\ [][AbsNext]_absVars
=============================================================================
