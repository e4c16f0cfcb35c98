--------------------------- MODULE BoundedCommand ---------------------------
(***************************************************************************)
(* One run of run_bounded_command (src/process.rs): a child process in a   *)
(* session of its own, a thread that kills the process group at the        *)
(* timeout, a reader thread for each output stream that kills it when the  *)
(* output passes its limit, and the caller, which joins them.              *)
(*                                                                         *)
(* The child may leave a helper behind that has its pipes open: in its     *)
(* process group, or (a daemon) in a session of its own.                   *)
(***************************************************************************)
EXTENDS FiniteSets

CONSTANT NoTrigger  \* the trigger before it is set, u8::MAX

Readers == {"stdout", "stderr"}
Threads == Readers \cup {"timeout"}
ASSUME CommandAssumption == NoTrigger \notin Threads

VARIABLES
    thread_pc,      \* "run", "swap", "store", "kill" or "ended"
    caller_pc,      \* "spawn", "join", "wait", "flag", "reap" or "done"
    alive,          \* who has the pipes open
    reaped,         \* the caller has waited for the child
    truncated,      \* the streams of which something was dropped
    exited,
    kill_sent,
    trigger,
    stray           \* history: threads that killed a group whose child was reaped

command_vars == <<thread_pc, caller_pc, alive, reaped, truncated, exited, kill_sent, trigger, stray>>
controller == <<kill_sent, trigger>>

CommandInit ==
    /\ thread_pc = [t \in Threads |-> "run"]
    /\ caller_pc = "spawn"
    /\ alive = {}
    /\ reaped = FALSE
    /\ truncated = {}
    /\ exited = FALSE
    /\ kill_sent = FALSE
    /\ trigger = NoTrigger
    /\ stray = {}

ThreadStep(t, from, to) ==
    /\ caller_pc # "spawn"
    /\ thread_pc[t] = from /\ thread_pc' = [thread_pc EXCEPT ![t] = to]
CallerStep(from, to) == caller_pc = from /\ caller_pc' = to

-----------------------------------------------------------------------------
(* The processes. *)

\* SpawnFailed ends the call at once, without threads.
Spawn ==
    /\ CallerStep("spawn", "join")
    /\ alive' = {"child"}
    /\ UNCHANGED <<thread_pc, reaped, truncated, exited, controller, stray>>

Fork(p) ==
    /\ "child" \in alive
    /\ alive' = alive \cup {p}
    /\ UNCHANGED <<thread_pc, caller_pc, reaped, truncated, exited, controller, stray>>

Exit(p) ==
    /\ p \in alive
    /\ alive' = alive \ {p}
    /\ UNCHANGED <<thread_pc, caller_pc, reaped, truncated, exited, controller, stray>>

-----------------------------------------------------------------------------
(* The reader threads: what is read in full changes nothing. *)

PassLimit(t) ==
    /\ ThreadStep(t, "run", "swap")
    /\ truncated' = truncated \cup {t}
    /\ UNCHANGED <<caller_pc, alive, reaped, exited, controller, stray>>

\* End of file, or an error.
EndOfStream(t) ==
    /\ alive = {}
    /\ ThreadStep(t, "run", "ended")
    /\ UNCHANGED <<caller_pc, alive, reaped, truncated, exited, controller, stray>>

(* The kill thread looks at exited, and only then at the clock. *)
SeeExited ==
    /\ exited
    /\ ThreadStep("timeout", "run", "ended")
    /\ UNCHANGED <<caller_pc, alive, reaped, truncated, exited, controller, stray>>
TimeOut ==
    /\ ThreadStep("timeout", "run", "swap")
    /\ UNCHANGED <<caller_pc, alive, reaped, truncated, exited, controller, stray>>

-----------------------------------------------------------------------------
(* try_terminate *)

Swap(t) ==
    /\ ThreadStep(t, "swap", IF kill_sent THEN "ended" ELSE "store")
    /\ kill_sent' = TRUE
    /\ UNCHANGED <<caller_pc, alive, reaped, truncated, exited, trigger, stray>>

StoreTrigger(t) ==
    /\ ThreadStep(t, "store", "kill")
    /\ trigger' = t
    /\ UNCHANGED <<caller_pc, alive, reaped, truncated, exited, kill_sent, stray>>

\* A helper keeps the process group, so its number is not used again.
KillGroup(t) ==
    /\ ThreadStep(t, "kill", "ended")
    /\ alive' = alive \ {"child", "helper"}
    /\ stray' = IF reaped /\ "helper" \notin alive THEN stray \cup {t} ELSE stray
    /\ UNCHANGED <<caller_pc, reaped, truncated, exited, controller>>

-----------------------------------------------------------------------------
(* The caller *)

\* MUTANT: the child is waited for before the readers are joined.
JoinNobody ==
    /\ CallerStep("join", "wait")
    /\ UNCHANGED <<thread_pc, alive, reaped, truncated, exited, controller, stray>>

JoinReaders ==
    /\ CallerStep("join", "wait")
    /\ \A t \in Readers : thread_pc[t] = "ended"
    /\ UNCHANGED <<thread_pc, alive, reaped, truncated, exited, controller, stray>>

Wait ==
    /\ CallerStep("wait", "flag")
    /\ "child" \notin alive
    /\ reaped' = TRUE
    /\ UNCHANGED <<thread_pc, alive, truncated, exited, controller, stray>>

SetExited ==
    /\ CallerStep("flag", "reap")
    /\ exited' = TRUE
    /\ UNCHANGED <<thread_pc, alive, reaped, truncated, controller, stray>>

\* MUTANT: the result is put together without the kill thread.
JoinNoKillThread ==
    /\ CallerStep("reap", "done")
    /\ UNCHANGED <<thread_pc, alive, reaped, truncated, exited, controller, stray>>

JoinKillThread ==
    /\ CallerStep("reap", "done")
    /\ thread_pc["timeout"] = "ended"
    /\ UNCHANGED <<thread_pc, alive, reaped, truncated, exited, controller, stray>>

\* termination_reason
termination ==
    IF trigger # NoTrigger THEN trigger ELSE IF kill_sent THEN "Signaled" ELSE "Exited"

-----------------------------------------------------------------------------
ThreadMoves(t) == Swap(t) \/ StoreTrigger(t) \/ KillGroup(t)
CallerMoves == JoinReaders \/ Wait \/ SetExited \/ JoinKillThread

CommandNext ==
    \/ Spawn \/ SeeExited \/ TimeOut \/ CallerMoves
    \/ \E p \in {"helper", "daemon"} : Fork(p)
    \/ \E p \in alive : Exit(p)
    \/ \E t \in Readers : PassLimit(t) \/ EndOfStream(t)
    \/ \E t \in Threads : ThreadMoves(t)

CommandSpec == CommandInit /\ [][CommandNext]_command_vars

(* Threads run, and the timeout comes; no process need ever exit. *)
CommandFairness ==
    /\ WF_command_vars(CallerMoves)
    /\ WF_command_vars(SeeExited \/ TimeOut)
    /\ \A t \in Readers : WF_command_vars(EndOfStream(t))
    /\ \A t \in Threads : WF_command_vars(ThreadMoves(t))

-----------------------------------------------------------------------------
\* Every variable has its type.
CommandTypeOK ==
    /\ thread_pc \in [Threads -> {"run", "swap", "store", "kill", "ended"}]
    /\ caller_pc \in {"spawn", "join", "wait", "flag", "reap", "done"}
    /\ alive \subseteq {"child", "helper", "daemon"}
    /\ reaped \in BOOLEAN /\ exited \in BOOLEAN /\ kill_sent \in BOOLEAN
    /\ truncated \subseteq Readers
    /\ trigger \in Threads \cup {NoTrigger}
    /\ stray \subseteq Threads

\* What the caller reports is what happened: "Exited" exactly when nobody
\* killed, with complete output; otherwise the one thread that killed.  In
\* particular "Signaled" is never reported.
ReasonNamesTheKill ==
    caller_pc = "done" =>
        /\ termination = "Exited" <=> ~kill_sent
        /\ termination \in Threads \cup {"Exited"}
        /\ truncated # {} => termination # "Exited"
        /\ termination \in Readers => termination \in truncated

\* No reader kills a process group whose child was reaped, when its number may
\* belong to another process: the caller joins the readers before it waits.
\* The kill thread may, between the wait and its look at `exited`.
OnlyTheTimeoutStrays == stray \subseteq {"timeout"}

\* A command returns although it never exits and floods its outputs, except
\* while a process of another session has its pipes open.
EveryCommandReturns == caller_pc = "join" ~> caller_pc = "done" \/ "daemon" \in alive
=============================================================================
