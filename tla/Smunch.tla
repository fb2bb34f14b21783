-------------------------------- MODULE Smunch --------------------------------
(***************************************************************************)
(* The system calls smunch and deepsleep (Smunch-SystemCalls).  smunch     *)
(* adds a whole set of signals to a process at once and wakes it, even out *)
(* of the uninterruptible sleep of deepsleep, and reaps a zombie when the  *)
(* set holds SIGKILL.  The kernel has smunch from stoogecalls.c or from    *)
(* smunch.c, which differ in the targets they ignore.                      *)
(*                                                                         *)
(* One process calls smunch on one target, which runs on another           *)
(* processor: its steps, its death and a debugger may come between any two *)
(* steps of the call.  The call uses the target's task_struct after        *)
(* rcu_read_unlock; the target's parent is taken not to wait for it and no *)
(* second smunch runs, since both would free what this one still uses; and *)
(* no other process sleeps in deepsleep.                                   *)
(***************************************************************************)
EXTENDS Integers, FiniteSets

CONSTANTS
  Signals,   \* the signals in the patterns, by number
  Handled,   \* those the target has a handler for
  Tracing    \* values p->ptrace may take: 1 for a plain attach, more with options

SIGKILL == 9

SmunchAssumption ==
  /\ Signals \subseteq 1 .. 64 /\ SIGKILL \in Signals
  /\ Handled \subseteq Signals \ {SIGKILL}
  /\ Tracing \subseteq Nat \ {0}

ASSUME SmunchAssumption

VARIABLES
  version,        \* the file the kernel's smunch is from
  \* the caller
  pc,             \* where it is in smunch, or "idle"
  bit_pattern,    \* smunch's argument
  \* the target
  task,           \* what it does, or its exit state
  ptrace,         \* p->ptrace: a debugger is attached
  trace,          \* p->trace: some tracer follows the target
  pending,        \* p->signal->shared_pending
  TIF_SIGPENDING,
  exit_code,      \* the signal that ended it
  \* the wait queue gone
  overrun         \* its lock has been released once more than taken

caller == <<version, pc, bit_pattern>>
target == <<task, ptrace, trace, pending, TIF_SIGPENDING, exit_code, overrun>>
vars == <<caller, target>>

Asleep == {"interruptible", "uninterruptible"}
Lowest(S) == CHOOSE s \in S : \A t \in S : s <= t

-----------------------------------------------------------------------------
\* Faulty variants of the operators below, for the mutation runs.
ForgetsFlag == TIF_SIGPENDING
WakesAnything(t) == "return"
WakesInterruptible(t) == IF t = "interruptible" THEN "return" ELSE t

\* The flag after set_tsk_thread_flag.
Flagged == TRUE

\* wake_up_process: a task in either sleep runs again, any other is left alone.
\* A woken pause returns at once, deepsleep has its sleep_on to finish.
Woken(t) ==
  CASE t = "interruptible"   -> "return"
    [] t = "uninterruptible" -> "woken"
    [] OTHER                 -> t

\* new_set: the pattern, or SIGKILL alone when the pattern holds it.
new_set == IF SIGKILL \in bit_pattern THEN {SIGKILL} ELSE bit_pattern

\* The targets smunch ignores: a traced one, which stoogecalls.c knows by
\* ptrace = 1 only, not by 1 with options; smunch.c reads another field, which
\* no debugger sets.
Ignored ==
  \/ version = "stoogecalls" /\ ptrace = 1
  \/ version = "smunch" /\ trace

Init ==
  /\ version \in {"stoogecalls", "smunch"}
  /\ pc = "idle" /\ bit_pattern = {}
  /\ task = "user" /\ ptrace = 0 /\ trace = FALSE
  /\ pending = {} /\ TIF_SIGPENDING = FALSE /\ exit_code = 0
  /\ overrun = FALSE

-----------------------------------------------------------------------------
(* smunch. *)

\* pid_task under rcu_read_lock: -1 when there is no such task.
smunch_find ==
  /\ pc = "idle"
  /\ bit_pattern' \in SUBSET Signals
  /\ pc' = IF task = "released" THEN "idle" ELSE "found"
  /\ UNCHANGED <<version, target>>

\* The target is single-threaded throughout.
smunch_check ==
  /\ pc = "found"
  /\ pc' = IF Ignored THEN "idle" ELSE "checked"
  /\ UNCHANGED <<version, bit_pattern, target>>

smunch_zombie ==
  /\ pc = "checked" /\ task = "zombie"
  /\ task' = IF SIGKILL \in new_set THEN "released" ELSE task
  /\ pc' = "idle"
  /\ UNCHANGED <<version, bit_pattern, ptrace, trace, pending, TIF_SIGPENDING, exit_code, overrun>>

smunch_alive ==
  /\ pc = "checked" /\ task # "zombie"
  /\ pc' = "lock"
  /\ UNCHANGED <<version, bit_pattern, target>>

\* Under the lock of p->sighand the pattern becomes pending as a whole; the
\* lock cannot be had of a released task.
smunch_send ==
  /\ pc = "lock"
  /\ IF task = "released"
       THEN pc' = "idle" /\ UNCHANGED <<pending, TIF_SIGPENDING>>
       ELSE /\ pending' = pending \cup bit_pattern
            /\ TIF_SIGPENDING' = Flagged
            /\ pc' = "wake"
  /\ UNCHANGED <<version, bit_pattern, task, ptrace, trace, exit_code, overrun>>

smunch_wake ==
  /\ pc = "wake"
  /\ task' = Woken(task)
  /\ pc' = "idle"
  /\ UNCHANGED <<version, bit_pattern, ptrace, trace, pending, TIF_SIGPENDING, exit_code, overrun>>

-----------------------------------------------------------------------------
(* The target. *)

\* It enters deepsleep ...
deepsleep ==
  /\ task = "user"
  /\ task' = "syscall"
  /\ UNCHANGED <<caller, ptrace, trace, pending, TIF_SIGPENDING, exit_code, overrun>>

\* ... whose sleep_on looks at no signal.  Nothing wakes the queue gone.  A
\* lock that was released without being held is never free again for the next
\* to take it, which spins.
sleep_on ==
  /\ task = "syscall"
  /\ task' = IF overrun THEN "spinning" ELSE "uninterruptible"
  /\ UNCHANGED <<caller, ptrace, trace, pending, TIF_SIGPENDING, exit_code, overrun>>

\* After schedule: the lock is released, not having been taken again.
sleep_on_end ==
  /\ task = "woken"
  /\ overrun' = TRUE
  /\ task' = "return"
  /\ UNCHANGED <<caller, ptrace, trace, pending, TIF_SIGPENDING, exit_code>>

\* A sleep that signals end, such as pause.
pause ==
  /\ task = "user"
  /\ task' = IF TIF_SIGPENDING THEN "return" ELSE "interruptible"
  /\ UNCHANGED <<caller, ptrace, trace, pending, TIF_SIGPENDING, exit_code, overrun>>

\* An interrupt, or a call that does not sleep: it comes back by way of the
\* kernel's return path.
tick ==
  /\ task = "user"
  /\ task' = "return"
  /\ UNCHANGED <<caller, ptrace, trace, pending, TIF_SIGPENDING, exit_code, overrun>>

\* The return path delivers the lowest pending signal while the flag is set;
\* one that is not handled ends the process.
return_to_user ==
  /\ task = "return" /\ (~TIF_SIGPENDING \/ pending = {})
  /\ TIF_SIGPENDING' = FALSE
  /\ task' = "user"
  /\ UNCHANGED <<caller, ptrace, trace, pending, exit_code, overrun>>

deliver ==
  /\ task = "return" /\ TIF_SIGPENDING /\ pending # {}
  /\ LET s == Lowest(pending)
     IN  /\ pending' = pending \ {s}
         /\ IF s \in Handled
              THEN UNCHANGED <<task, exit_code>>
              ELSE task' = "zombie" /\ exit_code' = s
  /\ UNCHANGED <<caller, ptrace, trace, TIF_SIGPENDING, overrun>>

\* A debugger attaches to the target or lets it go; a tracer, likewise.
attach ==
  /\ task \notin {"zombie", "released"}
  /\ ptrace' \in Tracing \cup {0} /\ trace' \in BOOLEAN
  /\ UNCHANGED <<caller, task, pending, TIF_SIGPENDING, exit_code, overrun>>

Call ==
  \/ smunch_check \/ smunch_zombie \/ smunch_alive
  \/ smunch_send \/ smunch_wake

Target ==
  \/ deepsleep \/ sleep_on \/ sleep_on_end \/ pause \/ tick
  \/ return_to_user \/ deliver

Next == smunch_find \/ Call \/ Target \/ attach

Spec == Init /\ [][Next]_vars

\* The call goes on once begun, and the kernel's return path too.
FairSpec ==
  /\ Spec
  /\ WF_vars(Call)
  /\ WF_vars(sleep_on_end \/ return_to_user \/ deliver)

-----------------------------------------------------------------------------
(* Properties. *)

\* The types; and a task has an exit code exactly when it has exited.
TypeOK ==
  /\ version \in {"stoogecalls", "smunch"}
  /\ pc \in {"idle", "found", "checked", "lock", "wake"}
  /\ bit_pattern \subseteq Signals
  /\ task \in Asleep \cup
       {"user", "syscall", "spinning", "woken", "return", "zombie", "released"}
  /\ ptrace \in Tracing \cup {0} /\ trace \in BOOLEAN
  /\ pending \subseteq Signals /\ TIF_SIGPENDING \in BOOLEAN
  /\ exit_code \in {0} \cup (Signals \ Handled)
  /\ overrun \in BOOLEAN
  /\ exit_code # 0 <=> task \in {"zombie", "released"}

\* Nothing is pending without the flag that makes the return path look for it,
\* although the target clears the flag while smunch adds signals.
PendingFlagged == pending # {} => TIF_SIGPENDING

\* A target that sleeps in deepsleep when smunch comes to wake it with SIGKILL
\* pending dies, whatever handlers it has, provided that the calls come to an
\* end: lower signals, sent again and again, would keep SIGKILL waiting.
KillsSleeper ==
  <>[](pc = "idle") =>
    (pc = "wake" /\ SIGKILL \in pending /\ task = "uninterruptible" ~> exit_code # 0)
=============================================================================
