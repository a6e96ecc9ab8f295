------------------------------- MODULE EnvThread -------------------------------
(***************************************************************************)
(* Env::Schedule and the one background thread that runs what was          *)
(* scheduled (env_posix.cc, env_win.cc, env_boost.cc).  Items are numbered *)
(* in the order they enter the queue; a function that runs may schedule    *)
(* the next one itself, as DBImpl::BackgroundCall does.                    *)
(***************************************************************************)
EXTENDS Integers, Sequences

CONSTANTS
  Threads,        \* threads that call Schedule
  MaxItems        \* bound on the calls

VARIABLES
  notifies,       \* TRUE: Windows and Boost, which notify after the unlock
  started_bgthread_,
  queue_,
  bg,             \* the background thread: "none", "check", "waiting", "run"
  item,           \* what it runs
  notify,         \* threads about to call notify_one
  count,          \* calls of Schedule so far
  ran             \* what has been run to its end

thVars == <<notifies, started_bgthread_, queue_, bg, item, notify, count, ran>>

thInit ==
  /\ notifies \in BOOLEAN
  /\ started_bgthread_ = FALSE /\ bg = "none" /\ item = 0
  /\ queue_ = <<>> /\ notify = {} /\ count = 0 /\ ran = <<>>

Woken(b) == IF b = "waiting" THEN "check" ELSE b

\* Asks whether the queue is empty once the item is in it.
Posted_After(t) == bg' = IF started_bgthread_ THEN bg ELSE "check"

\* PosixEnv signals under the mutex, and only if the queue was empty.
Posted(t) ==
  IF ~started_bgthread_ THEN bg' = "check"
  ELSE bg' = IF ~notifies /\ queue_ = <<>> THEN Woken(bg) ELSE bg

\* t is the background thread itself (0) when a function schedules another.
Schedule(t) ==
  /\ count < MaxItems /\ t \notin notify
  /\ t = 0 => bg = "run"
  /\ Posted(t)
  /\ started_bgthread_' = TRUE
  /\ queue_' = Append(queue_, count + 1) /\ count' = count + 1
  /\ notify' = IF notifies THEN notify \cup {t} ELSE notify
  /\ UNCHANGED <<notifies, item, ran>>

Notify(t) ==
  /\ t \in notify
  /\ notify' = notify \ {t} /\ bg' = Woken(bg)
  /\ UNCHANGED <<notifies, started_bgthread_, queue_, item, count, ran>>

\* The loop of BGThread up to the call of the function.
BGThread ==
  /\ bg = "check"
  /\ IF queue_ = <<>> THEN bg' = "waiting" /\ UNCHANGED <<queue_, item>>
     ELSE bg' = "run" /\ item' = Head(queue_) /\ queue_' = Tail(queue_)
  /\ UNCHANGED <<notifies, started_bgthread_, notify, count, ran>>

Runs ==
  /\ bg = "run" /\ 0 \notin notify
  /\ bg' = "check" /\ ran' = Append(ran, item)
  /\ UNCHANGED <<notifies, started_bgthread_, queue_, item, notify, count>>

\* A condition variable may wake without a signal.
Spurious ==
  /\ bg = "waiting" /\ bg' = "check"
  /\ UNCHANGED <<notifies, started_bgthread_, queue_, item, notify, count, ran>>

thNext ==
  \/ \E t \in Threads \cup {0} : Schedule(t) \/ Notify(t)
  \/ BGThread
  \/ Runs
  \/ Spurious

(***************************************************************************)
(* Everything scheduled has been run, once and in the order of the calls,  *)
(* from some moment on: no wake-up is lost between the test of the queue   *)
(* and the wait, and nothing relies on a spurious one (env.h at Schedule:  *)
(* "once in a background thread").                                         *)
(***************************************************************************)
AllRun == ran = [i \in 1 .. count |-> i]
================================================================================
