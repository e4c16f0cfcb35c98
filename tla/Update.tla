------------------------------- MODULE Update -------------------------------
(* "eggsearch update": src/update.rs, with what it asks of src/startup.rs.  *)
(* Several updaters, started at different times, share one installed        *)
(* executable, the registry and one managed service.  update --check is     *)
(* left out: it changes nothing.                                            *)
(*                                                                          *)
(* What differs between hosts is where a process finds its own executable   *)
(* once another file was renamed over it: on Linux the path it gets names   *)
(* a deleted file, elsewhere it is still the installed path.                *)
EXTENDS Integers, FiniteSets

CONSTANTS
    Updater,        \* invocations of "eggsearch update"
    MaxVersion      \* bound: versions are 1 .. MaxVersion

ASSUME UpdateAssumption == MaxVersion \in Nat \ {0}

VARIABLES
    linux,          \* the host is a Linux one
    method,         \* the registered manager, "none", or "several"
    published,      \* the latest stable version in the registry
    file,           \* the version of the installed executable
    server,         \* the version the service runs, or Down
    update_pc,      \* the next step of every updater, or how it ended
    current,        \* the version an updater is
    latest,         \* the version it has looked up, or Unknown
    destination,    \* the path it will replace: Nowhere, "installed" or "deleted"
    should_restart, \* the service it found at its start was managed and healthy
    orphaned,       \* updaters whose executable was replaced while they ran
    installed       \* history: updaters that have replaced the executable

update_vars == <<linux, method, published, file, server, update_pc, current, latest,
                 destination, should_restart, orphaned, installed>>
host == <<linux, method, published>>
plan == <<current, latest, destination, should_restart>>

ReleaseVersion == 1..MaxVersion
Down == 0
Unknown == 0
Nowhere == "nowhere"
Manager == {"systemd", "cron", "launchd", "windows"}

\* Failed: any error before the executable is replaced.
Outcome == {"AlreadyCurrent", "LocalVersionAhead", "Updated", "UpdatedAndRestarted",
            "Failed", "Lifecycle", "RestartFailed"}
UpdateStep == {"new", "snapshot", "lookup", "permission", "download", "verify", "cargo",
               "replace", "finish", "restart", "start", "await"}

UpdateTypeOK ==
    /\ linux \in BOOLEAN /\ method \in Manager \cup {"none", "several"}
    /\ published \in ReleaseVersion /\ file \in ReleaseVersion
    /\ server \in ReleaseVersion \cup {Down}
    /\ update_pc \in [Updater -> UpdateStep \cup Outcome]
    /\ current \in [Updater -> ReleaseVersion \cup {Unknown}]
    /\ latest \in [Updater -> ReleaseVersion \cup {Unknown}]
    /\ destination \in [Updater -> {Nowhere, "installed", "deleted"}]
    /\ should_restart \in [Updater -> BOOLEAN]
    /\ orphaned \subseteq Updater /\ installed \subseteq Updater

UpdateInit ==
    /\ linux \in BOOLEAN
    /\ method \in {"none", "several"} \cup
          (IF linux THEN {"systemd", "cron"} ELSE {"launchd", "windows"})
    /\ published = 1
    /\ file \in ReleaseVersion
    /\ server \in {file, Down}
    /\ update_pc = [u \in Updater |-> "new"]
    /\ current = [u \in Updater |-> Unknown]
    /\ latest = [u \in Updater |-> Unknown]
    /\ destination = [u \in Updater |-> Nowhere]
    /\ should_restart = [u \in Updater |-> FALSE]
    /\ orphaned = {} /\ installed = {}

UpdateGoto(u, step) == update_pc' = [update_pc EXCEPT ![u] = step]
UpdateMoves(u, from, steps) ==
    /\ update_pc[u] = from
    /\ \E step \in steps : UpdateGoto(u, step)
    /\ UNCHANGED <<host, file, server, plan, orphaned, installed>>

\* current_exe() names no file any more: what canonicalizes it, or reads it, fails.
Lost(u) == linux /\ u \in orphaned
Running(u) == update_pc[u] \notin Outcome \cup {"new"}

-----------------------------------------------------------------------------
StartUpdate(u) ==
    /\ update_pc[u] = "new"
    /\ UpdateGoto(u, "snapshot")
    /\ current' = [current EXCEPT ![u] = file]
    /\ UNCHANGED <<host, file, server, latest, destination, should_restart, orphaned, installed>>

(* startup_state, reduced to the condition that finish_lifecycle reads from *)
(* it later.  A healthy service may also fail to answer in time.            *)
Snapshot(u) ==
    \/ Lost(u) /\ UpdateMoves(u, "snapshot", {"Lifecycle"})
    \/ /\ update_pc[u] = "snapshot" /\ ~Lost(u)
       /\ \E healthy \in {FALSE, server # Down} :
             should_restart' = [should_restart EXCEPT ![u] = healthy /\ method \in Manager]
       /\ UpdateGoto(u, "lookup")
       /\ UNCHANGED <<host, file, server, current, latest, destination, orphaned, installed>>

\* MUTANT: whatever differs from the registry's version is replaced by it.
ComparedUnequal(u) == IF current[u] = published THEN "AlreadyCurrent" ELSE "permission"

Compared(u) ==
    IF current[u] = published THEN "AlreadyCurrent"
    ELSE IF current[u] > published THEN "LocalVersionAhead"
    ELSE "permission"

LookUpVersion(u) ==
    \/ UpdateMoves(u, "lookup", {"Failed"})
    \/ /\ update_pc[u] = "lookup"
       /\ latest' = [latest EXCEPT ![u] = published]
       /\ UpdateGoto(u, Compared(u))
       /\ UNCHANGED <<host, file, server, current, destination, should_restart, orphaned,
                      installed>>

(* What will be replaced is settled here: the path by which the updater     *)
(* finds its own executable now.                                            *)
ensure_replacement_permission(u) ==
    /\ update_pc[u] = "permission"
    /\ destination' = [destination EXCEPT ![u] = IF Lost(u) THEN "deleted" ELSE "installed"]
    /\ \E step \in {"download", "Failed"} : UpdateGoto(u, step)
    /\ UNCHANGED <<host, file, server, current, latest, should_restart, orphaned, installed>>

\* Only a missing asset, or a host without one, leads to a build.
Download(u) == UpdateMoves(u, "download", {"verify", "cargo", "Failed"})
Verify(u) == UpdateMoves(u, "verify", {"replace", "Failed"})
BuildWithCargo(u) == UpdateMoves(u, "cargo", {"replace", "Failed"})

Install(u) ==
    /\ update_pc[u] = "replace"
    /\ file' = latest[u]
    /\ orphaned' = orphaned \cup {v \in Updater : Running(v)}
    /\ installed' = installed \cup {u}
    /\ UpdateGoto(u, "finish")
    /\ UNCHANGED <<host, server, plan>>

(* self_replace follows the executable's present path, if that is still the *)
(* destination; otherwise the candidate is renamed to the destination.      *)
replace_candidate(u) ==
    \/ UpdateMoves(u, "replace", {"Failed"})
    \/ destination[u] = "installed" /\ Install(u)

(* restart_command canonicalizes the executable, which has been replaced by *)
(* now, before restart is tried.                                            *)
finish_lifecycle(u) ==
    \/ ~should_restart[u] /\ UpdateMoves(u, "finish", {"Updated"})
    \/ should_restart[u] /\ Lost(u) /\ UpdateMoves(u, "finish", {"Lifecycle"})
    \/ should_restart[u] /\ ~Lost(u) /\ UpdateMoves(u, "finish", {"restart"})

(* The manager stops the service and starts it from the installed path. *)
StopService(u) ==
    \/ UpdateMoves(u, "restart", {"RestartFailed"})
    \/ /\ update_pc[u] = "restart"
       /\ server' = Down
       /\ UpdateGoto(u, "start")
       /\ UNCHANGED <<host, file, plan, orphaned, installed>>

StartService(u) ==
    \/ UpdateMoves(u, "start", {"RestartFailed"})
    \/ /\ update_pc[u] = "start"
       /\ server' = file
       /\ UpdateGoto(u, "await")
       /\ UNCHANGED <<host, file, plan, orphaned, installed>>

AwaitHealth(u) ==
    \/ server # Down /\ UpdateMoves(u, "await", {"UpdatedAndRestarted"})
    \/ UpdateMoves(u, "await", {"RestartFailed"})

updater(u) ==
    \/ StartUpdate(u) \/ Snapshot(u) \/ LookUpVersion(u) \/ ensure_replacement_permission(u)
    \/ Download(u) \/ Verify(u) \/ BuildWithCargo(u) \/ replace_candidate(u)
    \/ finish_lifecycle(u) \/ StopService(u) \/ StartService(u) \/ AwaitHealth(u)

-----------------------------------------------------------------------------
(* A version is released; the service crashes, or its manager or an         *)
(* operator stops it or starts it.                                          *)
Release ==
    /\ published < MaxVersion
    /\ published' = published + 1
    /\ UNCHANGED <<linux, method, file, server, update_pc, plan, orphaned, installed>>

ServiceChanges ==
    /\ server' = IF server = Down THEN file ELSE Down
    /\ UNCHANGED <<host, file, update_pc, plan, orphaned, installed>>

UpdateNext == (\E u \in Updater : updater(u)) \/ Release \/ ServiceChanges
UpdateSpec == UpdateInit /\ [][UpdateNext]_update_vars

-----------------------------------------------------------------------------
(* An update that replaces the executable by an older version has been      *)
(* overtaken: another one replaced it while this one was under way, with a  *)
(* version that this one had not seen.  By itself, whatever the registry    *)
(* says and whoever updated before, no update goes back.                    *)
DowngradeNeedsOverlap == [][file' < file => installed' \ installed \subseteq orphaned]_update_vars

(* docs/update.md: after the replacement the service that was healthy is    *)
(* restarted, or the command ends with the error that says how to restart   *)
(* it.                                                                      *)
RestartReported ==
    \A u \in installed :
        should_restart[u] /\ update_pc[u] \in Outcome =>
            update_pc[u] \in {"UpdatedAndRestarted", "RestartFailed"}
=============================================================================
