----------------------------- MODULE CronWatch -----------------------------
(***************************************************************************)
(* The cron startup method of src/startup.rs: the server that the crontab  *)
(* entry runs every minute, the watchdog croncheck and the servers it      *)
(* starts, and the install, restart and uninstall commands of an operator. *)
(* They are separate processes that share the crontab, the listening port, *)
(* the PID record, the startup lock and the installed executable; every    *)
(* file operation is a step of its own and a process may be killed between *)
(* any two of them.                                                        *)
(*                                                                         *)
(* A member of Watchers or Servers is one process (PID and start token).   *)
(* Once it is off and nothing refers to it any more it stands for the next *)
(* process, so cron may fire for ever.  The host is a Linux one.           *)
(***************************************************************************)
EXTENDS Integers, FiniteSets

CONSTANTS
  Watchers,     \* croncheck processes
  Servers,      \* "mcp serve --pid-file" processes
  Commands,     \* invocations of startup install, restart, startup uninstall
  None,         \* no process: a file that does not exist, a port that is free
  MaxCrashes    \* bound: processes killed without running their destructors, failed spawns,
                \* and updates of the executable

ASSUME CronAssumption ==
  /\ Watchers \cap Servers = {} /\ Watchers \cap Commands = {}
  /\ Servers \cap Commands = {}
  /\ None \notin Watchers \cup Servers \cup Commands
  /\ MaxCrashes \in Nat

VARIABLES
  crontab,  \* the eggsearch-managed entry is installed
  port,     \* the server that listens, or None
  record,   \* the server whose record is in mcp-serve.pid, or None
  lock,     \* the watcher that created the file at croncheck.lock, or None
  written,  \* the watchers whose lock file has its content
  pc,       \* the next step of each process; "off" when it is not running
  seen,     \* the owner of the record a process has read
  replaced, \* the processes that run an executable that was replaced since they started
  crashes,  \* how many processes were killed or not spawned, and updates made, so far
  marks     \* history: which of the Marks below has happened

vars == <<crontab, port, record, lock, written, pc, seen, replaced, crashes, marks>>
files == <<crontab, port, record, lock, written>>

Procs == Watchers \cup Servers \cup Commands
WatchSteps == {"off", "probe", "create", "write", "read", "vet", "remove", "recreate",
               "reprobe", "spawn", "await", "unlock"}
ServeSteps == {"off", "look", "read", "vet", "clear", "persist", "bind", "serve", "drop",
               "unrecord"}
CommandSteps == {"new", "probe", "spawn", "stop", "stopvet", "refused", "unstop", "unstopvet",
                 "off"}

(* takeover: a lock was removed whose owner was still running; unguarded:  *)
(* a server was started, or left, without a watcher that holds the lock and *)
(* waits for it; overlap: a server was started while another was starting; *)
(* duplicate: ... while another was starting or serving; disowned: a       *)
(* server took the record of a running one for stale.                      *)
Marks == {"takeover", "unguarded", "overlap", "duplicate", "disowned"}

TypeOK ==
  /\ crontab \in BOOLEAN
  /\ port \in Servers \cup {None}
  /\ record \in Servers \cup {None}
  /\ lock \in Watchers \cup {None}
  /\ written \subseteq Watchers
  /\ pc \in [Procs -> WatchSteps \cup ServeSteps \cup CommandSteps]
  /\ \A w \in Watchers : pc[w] \in WatchSteps
  /\ \A s \in Servers : pc[s] \in ServeSteps
  /\ \A c \in Commands : pc[c] \in CommandSteps
  /\ seen \in [Procs -> Watchers \cup Servers \cup {None}]
  /\ \A p \in Procs \ Watchers : seen[p] \notin Watchers
  /\ replaced \subseteq Procs
  /\ crashes \in Nat
  /\ marks \subseteq Marks
  /\ \A s \in Servers : pc[s] = "serve" <=> port = s

-----------------------------------------------------------------------------
Running(p) == p # None /\ pc[p] # "off"

(* The recorded PID and start token still belong to a running process whose *)
(* /proc/PID/exe is the recorded path.  Of a process whose executable was   *)
(* replaced it is a deleted file, which cannot be canonicalized.            *)
process_matches(p) == Running(p) /\ p \notin replaced
Refused == port = None
Starting(s) == pc[s] \in {"look", "read", "vet", "clear", "persist", "bind"}
Fresh(p) == pc[p] = "off" /\ p \notin {record, lock} /\ \A q \in Procs : seen[q] # p

Init ==
  /\ crontab \in BOOLEAN
  /\ port = None /\ record = None /\ lock = None
  /\ written = {}
  /\ pc = [p \in Procs |-> IF p \in Commands THEN "new" ELSE "off"]
  /\ seen = [p \in Procs |-> None]
  /\ replaced = {}
  /\ crashes = 0
  /\ marks = {}

Goto(p, step) == pc' = [pc EXCEPT ![p] = step]

(* A step that changes no file. *)
Step(p, from, to) ==
  /\ pc[p] = from /\ Goto(p, to)
  /\ UNCHANGED <<files, seen, replaced, crashes, marks>>

(* wait_for_health and probe_health: a listener may answer in time or not. *)
Answered == port # None

(* spawn_detached: the new server runs, p goes on to step "to". *)
SpawnMarks ==
  (IF \E t \in Servers : Starting(t) THEN {"overlap"} ELSE {}) \cup
  (IF \E t \in Servers : Starting(t) \/ pc[t] = "serve" THEN {"duplicate"} ELSE {})
spawn_detached(p, to, mark) ==
  \E s \in Servers :
    /\ Fresh(s)
    /\ pc' = [pc EXCEPT ![s] = "look", ![p] = to]
    /\ marks' = marks \cup mark \cup SpawnMarks
    /\ replaced' = replaced \ {s}
    /\ UNCHANGED <<files, seen, crashes>>

(* read_pid_record: a missing or an empty file has no owner. *)
read_pid_record(p, owner, to) ==
  /\ Goto(p, to)
  /\ seen' = [seen EXCEPT ![p] = owner]
  /\ UNCHANGED <<files, replaced, crashes, marks>>
Forget(p) == seen' = [seen EXCEPT ![p] = None]

-----------------------------------------------------------------------------
(* croncheck, run by whoever scheduled it. *)
Check(w) ==
  /\ Fresh(w)
  /\ Goto(w, "probe")
  /\ written' = written \ {w}
  /\ replaced' = replaced \ {w}
  /\ UNCHANGED <<crontab, port, record, lock, seen, crashes, marks>>

(* Any answer, and any ambiguous failure, ends the check: only a refused   *)
(* connection goes on.  It also ends if the path of its own executable is  *)
(* gone before it asks for it.                                             *)
Probe(w) ==
  \/ Refused /\ Step(w, "probe", "create")
  \/ ~Refused /\ Step(w, "probe", "off")
  \/ w \in replaced /\ Step(w, "probe", "off")

TakeLock(w) ==
  /\ lock' = w
  /\ Goto(w, "write")
  /\ UNCHANGED <<crontab, port, record, written, seen, replaced, crashes, marks>>

\* MUTANT: the lock file is opened without create_new.
CreateLockShared(w) == pc[w] = "create" /\ TakeLock(w)

CreateLock(w) ==
  /\ pc[w] = "create"
  /\ IF lock = None THEN TakeLock(w) ELSE Step(w, "create", "read")

(* The write goes to the file this watcher opened, wherever it is now. *)
WriteLock(w) ==
  /\ pc[w] = "write"
  /\ written' = written \cup {w}
  /\ Goto(w, "reprobe")
  /\ UNCHANGED <<crontab, port, record, lock, seen, replaced, crashes, marks>>

ReadLock(w) ==
  /\ pc[w] = "read"
  /\ read_pid_record(w, IF lock \in written THEN lock ELSE None, "vet")

\* MUTANT: a stale lock also blocks.
VetLockTimid(w) ==
  /\ pc[w] = "vet"
  /\ Goto(w, "off")
  /\ Forget(w)
  /\ UNCHANGED <<files, replaced, crashes, marks>>

VetLock(w) ==
  /\ pc[w] = "vet"
  /\ Goto(w, IF seen[w] = None \/ process_matches(seen[w]) THEN "off" ELSE "remove")
  /\ Forget(w)
  /\ UNCHANGED <<files, replaced, crashes, marks>>

(* remove_file removes whatever is at the path by now. *)
RemoveLock(w) ==
  /\ pc[w] = "remove"
  /\ IF lock = None THEN Step(w, "remove", "off")
     ELSE /\ lock' = None
          /\ marks' = IF Running(lock) THEN marks \cup {"takeover"} ELSE marks
          /\ Goto(w, "recreate")
          /\ UNCHANGED <<crontab, port, record, written, seen, replaced, crashes>>

RecreateLock(w) ==
  /\ pc[w] = "recreate"
  /\ IF lock = None THEN TakeLock(w) ELSE Step(w, "recreate", "off")

\* MUTANT: no recheck under the lock.
ReprobeSkipped(w) == Step(w, "reprobe", "spawn")

Reprobe(w) ==
  \/ Refused /\ Step(w, "reprobe", "spawn")
  \/ ~Refused /\ Step(w, "reprobe", "unlock")

(* The log file or the process cannot be opened: the error is returned     *)
(* after the lock is removed.                                              *)
Spawn(w) ==
  \/ pc[w] = "spawn" /\ spawn_detached(w, "await", {})
  \/ /\ pc[w] = "spawn" /\ crashes < MaxCrashes
     /\ crashes' = crashes + 1
     /\ Goto(w, "unlock")
     /\ UNCHANGED <<files, seen, replaced, marks>>

(* The server answers, or the polls are used up without an answer. *)
Await(w) ==
  \/ Answered /\ Step(w, "await", "unlock")
  \/ /\ pc[w] = "await" /\ Goto(w, "unlock")
     /\ marks' = marks \cup {"unguarded"}
     /\ UNCHANGED <<files, seen, replaced, crashes>>

(* The lock is removed without asking whose it is. *)
Unlock(w) ==
  /\ pc[w] = "unlock"
  /\ lock' = None
  /\ Goto(w, "off")
  /\ UNCHANGED <<crontab, port, record, written, seen, replaced, crashes, marks>>

croncheck(w) ==
  \/ Probe(w) \/ CreateLock(w) \/ WriteLock(w) \/ ReadLock(w) \/ VetLock(w) \/ RemoveLock(w)
  \/ RecreateLock(w) \/ Reprobe(w) \/ Spawn(w) \/ Await(w) \/ Unlock(w)

-----------------------------------------------------------------------------
(* A server: PidFileGuard::create, http::run, and the guard's destructor. *)

(* The crontab entry, every minute: the entry is the command line of the    *)
(* server, so cron runs no check and takes no lock.                         *)
Fire(s) ==
  /\ crontab /\ Fresh(s)
  /\ Goto(s, "look")
  /\ replaced' = replaced \ {s}
  /\ marks' = marks \cup {"unguarded"} \cup SpawnMarks
  /\ UNCHANGED <<files, seen, crashes>>

(* A server that cannot find its own executable any more gives up. *)
LookForRecord(s) ==
  \/ record = None /\ Step(s, "look", "persist")
  \/ record # None /\ Step(s, "look", "read")
  \/ s \in replaced /\ Step(s, "look", "off")

ReadRecord(s) == pc[s] = "read" /\ read_pid_record(s, record, "vet")

\* MUTANT: the recorded process is not looked up.
VetRecordTrusting(s) ==
  /\ pc[s] = "vet"
  /\ Goto(s, "clear")
  /\ Forget(s)
  /\ UNCHANGED <<files, replaced, crashes, marks>>

\* MUTANT: a stale record also ends the server.
VetRecordTimid(s) ==
  /\ pc[s] = "vet"
  /\ Goto(s, "off")
  /\ Forget(s)
  /\ UNCHANGED <<files, replaced, crashes, marks>>

(* A record of a running server ends this one; one that is stale, or could *)
(* not be read, is removed.                                                *)
VetRecord(s) ==
  /\ pc[s] = "vet"
  /\ Goto(s, IF process_matches(seen[s]) THEN "off" ELSE "clear")
  /\ marks' = marks \cup (IF Running(seen[s]) /\ ~process_matches(seen[s])
                          THEN {"disowned"} ELSE {})
  /\ Forget(s)
  /\ UNCHANGED <<files, replaced, crashes>>

ClearRecord(s) ==
  \/ record = None /\ Step(s, "clear", "off")
  \/ /\ pc[s] = "clear" /\ record # None
     /\ record' = None
     /\ Goto(s, "persist")
     /\ UNCHANGED <<crontab, port, lock, written, seen, replaced, crashes, marks>>

(* persist renames the staged record over whatever is there. *)
PersistRecord(s) ==
  /\ pc[s] = "persist"
  /\ record' = s
  /\ Goto(s, "bind")
  /\ UNCHANGED <<crontab, port, lock, written, seen, replaced, crashes, marks>>

\* MUTANT: the port is shared.
BindAnyway(s) ==
  /\ pc[s] = "bind"
  /\ port' = s
  /\ Goto(s, "serve")
  /\ UNCHANGED <<crontab, record, lock, written, seen, replaced, crashes, marks>>

Bind(s) ==
  \/ port # None /\ Step(s, "bind", "drop")
  \/ /\ pc[s] = "bind" /\ port = None
     /\ port' = s
     /\ Goto(s, "serve")
     /\ UNCHANGED <<crontab, record, lock, written, seen, replaced, crashes, marks>>

(* Sessions have drained, or the drain timed out: the guard reads the file *)
(* back and removes it if it is its own.                                   *)
CompareRecord(s) ==
  /\ pc[s] = "drop"
  /\ Step(s, "drop", IF record = s THEN "unrecord" ELSE "off")

RemoveRecord(s) ==
  /\ pc[s] = "unrecord"
  /\ record' = None
  /\ Goto(s, "off")
  /\ UNCHANGED <<crontab, port, lock, written, seen, replaced, crashes, marks>>

serve(s) ==
  \/ LookForRecord(s) \/ ReadRecord(s) \/ VetRecord(s) \/ ClearRecord(s) \/ PersistRecord(s)
  \/ Bind(s) \/ CompareRecord(s) \/ RemoveRecord(s)

-----------------------------------------------------------------------------
(* The operator's commands. *)

(* SIGTERM closes the listener and drains a server that listens, ends one  *)
(* that has no handler yet, and changes nothing for one that is stopping.  *)
AfterSignal(s) ==
  CASE pc[s] = "serve" -> "drop"
    [] Starting(s) -> "off"
    [] OTHER -> pc[s]

stop_owned_process(c, from, vet, to) ==
  \/ pc[c] = from /\ read_pid_record(c, record, vet)
  \/ /\ pc[c] = vet
     /\ IF process_matches(seen[c])
        THEN /\ pc' = [pc EXCEPT ![c] = to, ![seen[c]] = AfterSignal(seen[c])]
             /\ port' = IF port = seen[c] THEN None ELSE port
        ELSE Goto(c, "off") /\ UNCHANGED port
     /\ Forget(c)
     /\ UNCHANGED <<crontab, record, lock, written, replaced, crashes, marks>>

install_cron(c) ==
  \/ /\ pc[c] = "new"
     /\ crontab' = TRUE
     /\ Goto(c, "probe")
     /\ UNCHANGED <<port, record, lock, written, seen, replaced, crashes, marks>>
  \/ Step(c, "probe", IF Refused THEN "spawn" ELSE "off")

(* restart refuses when no manager is registered. *)
restart_cron(c) ==
  \/ crontab /\ Step(c, "new", "stop")
  \/ stop_owned_process(c, "stop", "stopvet", "refused")
  \/ Refused /\ Step(c, "refused", "spawn")
  \/ ~Refused /\ Step(c, "refused", "off")

uninstall_cron(c) ==
  \/ /\ pc[c] = "new"
     /\ crontab' = FALSE
     /\ Goto(c, "unstop")
     /\ UNCHANGED <<port, record, lock, written, seen, replaced, crashes, marks>>
  \/ stop_owned_process(c, "unstop", "unstopvet", "off")

command(c) ==
  \/ install_cron(c) \/ restart_cron(c) \/ uninstall_cron(c)
  \/ pc[c] = "spawn" /\ spawn_detached(c, "off", {"unguarded"})

(* A process is killed, or a file operation fails and it exits there. *)
Crash(p) ==
  /\ crashes < MaxCrashes
  /\ pc[p] \notin {"off", "new"}
  /\ crashes' = crashes + 1
  /\ Goto(p, "off")
  /\ Forget(p)
  /\ port' = IF port = p THEN None ELSE port
  /\ marks' = IF p \in Watchers THEN marks \cup {"unguarded"} ELSE marks
  /\ UNCHANGED <<crontab, record, lock, written, replaced>>

(* "eggsearch update" renames another executable over the installed one.   *)
Replace ==
  /\ crashes < MaxCrashes
  /\ crashes' = crashes + 1
  /\ replaced' = {p \in Procs : pc[p] \notin {"off", "new"}}
  /\ UNCHANGED <<files, pc, seen, marks>>

Next ==
  \/ \E w \in Watchers : Check(w) \/ croncheck(w)
  \/ \E s \in Servers : Fire(s) \/ serve(s)
  \/ \E c \in Commands : command(c)
  \/ \E p \in Procs : Crash(p)
  \/ Replace

(* cron fires every minute, croncheck is run again and again, and the      *)
(* scheduler runs every process; a command that was entered runs to its    *)
(* end, but none has to be entered.                                        *)
Fairness ==
  /\ WF_vars(\E s \in Servers : Fire(s))
  /\ WF_vars(\E w \in Watchers : Check(w))
  /\ \A w \in Watchers : WF_vars(croncheck(w))
  /\ \A s \in Servers : WF_vars(serve(s))
  /\ \A c \in Commands : WF_vars(pc[c] # "new" /\ command(c))

Spec == Init /\ [][Next]_vars
FairSpec == Spec /\ Fairness

-----------------------------------------------------------------------------
(* The critical section of croncheck: the lock was created and not yet     *)
(* removed by w.                                                           *)
Holding(w) == pc[w] \in {"write", "reprobe", "spawn", "await", "unlock"}
Stale == lock # None /\ ~Running(lock)

(* A watcher between the creation and the removal of its lock is alone     *)
(* there and the file at the path is its own, unless a lock was removed    *)
(* under a running owner: create_new in croncheck, for any number of       *)
(* crashes and stale locks.                                                *)
LockExclusive ==
  "takeover" \notin marks =>
    \A w \in Watchers : Holding(w) =>
      lock = w /\ \A v \in Watchers : Holding(v) => v = w

(* The recheck under the lock: a server is started beside one that is      *)
(* starting or serving only after a watcher was killed or lost patience,   *)
(* after a live lock was removed, or after cron or a command started one   *)
(* without the lock.                                                       *)
NoDuplicate == "duplicate" \in marks => marks \cap {"takeover", "unguarded"} # {}

(* PidFileGuard: if no two servers ever started together, and none took a  *)
(* running one for gone, a server that serves is the one recorded in the   *)
(* PID file, whatever restarts, stale records and guards that are being    *)
(* dropped around it do; restart and uninstall can find it.                *)
RecordKept ==
  marks \cap {"overlap", "disowned"} = {} =>
    \A s \in Servers : pc[s] = "serve" => record = s

(* A server comes up again and again, whatever was killed, restarted,      *)
(* replaced or left behind, as long as the entry is installed; without it  *)
(* croncheck brings it up, except behind a lock whose creator died before  *)
(* it had written its record.                                              *)
Recovery ==
  []<>(port # None \/ (~crontab /\ Stale /\ lock \notin written))

-----------------------------------------------------------------------------
(* docs/service.md shows a crontab entry that runs croncheck, which starts *)
(* a server only when the port is refused; architecture/commands.md says   *)
(* that a cron-managed server either holds its PID record or exits.  No    *)
(* step contradicts both: cron starts no server beside one that listens    *)
(* and has no record.                                                      *)
DocumentedCron ==
  [][(\E s \in Servers : Fire(s)) => Refused \/ record = port]_vars

=============================================================================
