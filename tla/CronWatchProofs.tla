--------------------------- MODULE CronWatchProofs ---------------------------
(***************************************************************************)
(* Proofs about the cron watchdog, for any number of watchers, servers,    *)
(* commands and crashes.                                                   *)
(***************************************************************************)
EXTENDS CronWatch, TLAPS

-----------------------------------------------------------------------------
(* Type correctness: a step moves its own process, and only the server that *)
(* is given or loses the port enters or leaves "serve".                     *)

LEMMA StepTyped ==
  ASSUME TypeOK, NEW p \in Procs, NEW from, NEW to, Step(p, from, to),
         from # "serve", to # "serve",
         p \in Watchers => to \in WatchSteps,
         p \in Servers => to \in ServeSteps,
         p \in Commands => to \in CommandSteps
  PROVE  TypeOK'
BY CronAssumption DEF Step, Goto, files, TypeOK, Procs

LEMMA SpawnTyped ==
  ASSUME TypeOK, NEW p \in Procs, NEW from, NEW to, NEW mark \in SUBSET Marks,
         pc[p] = from, spawn_detached(p, to, mark),
         p \notin Servers,
         p \in Watchers => to \in WatchSteps,
         p \in Commands => to \in CommandSteps
  PROVE  TypeOK'
<1>1. PICK s \in Servers : /\ Fresh(s) /\ pc' = [pc EXCEPT ![s] = "look", ![p] = to]
                           /\ marks' = marks \cup mark \cup SpawnMarks
                           /\ replaced' = replaced \ {s} /\ UNCHANGED <<files, seen, crashes>>
  BY DEF spawn_detached
<1>2. SpawnMarks \subseteq Marks
  BY DEF SpawnMarks, Marks
<1>3. marks' \subseteq Marks
  BY <1>1, <1>2 DEF TypeOK
<1>4. pc[s] = "off"
  BY <1>1 DEF Fresh
<1> QED  BY <1>1, <1>3, <1>4, CronAssumption DEF TypeOK, Procs, files, ServeSteps

LEMMA WatchTyped ==
  ASSUME TypeOK, NEW w \in Watchers, Check(w) \/ croncheck(w)
  PROVE  TypeOK'
<1> w \in Procs /\ w \notin Servers /\ w \notin Commands
  BY CronAssumption DEF Procs
<1>1. CASE Check(w) \/ WriteLock(w) \/ ReadLock(w) \/ VetLock(w) \/ Unlock(w)
  <2>1. PICK to \in WatchSteps : pc' = [pc EXCEPT ![w] = to]
    BY <1>1, CronAssumption DEF TypeOK, Check, WriteLock, ReadLock, VetLock, Unlock, Goto,
       read_pid_record, WatchSteps, Procs
  <2>2. /\ written' \subseteq Watchers /\ lock' \in Watchers \cup {None}
        /\ seen' \in [Procs -> Watchers \cup Servers \cup {None}]
        /\ \A p \in Procs \ Watchers : seen'[p] = seen[p]
    BY <1>1, CronAssumption DEF TypeOK, Check, WriteLock, ReadLock, VetLock, Unlock, Goto,
       Forget, read_pid_record, files
  <2>3. UNCHANGED <<crontab, port, record, crashes, marks>> /\ replaced' \subseteq replaced
    BY <1>1 DEF Check, WriteLock, ReadLock, VetLock, Unlock, read_pid_record, files
  <2>4. pc' \in [Procs -> WatchSteps \cup ServeSteps \cup CommandSteps]
    BY <2>1 DEF TypeOK
  <2>5. /\ \A v \in Watchers : pc'[v] \in WatchSteps
        /\ \A s \in Servers : pc'[s] = pc[s]
        /\ \A c \in Commands : pc'[c] = pc[c]
    BY <2>1, CronAssumption DEF TypeOK, Procs
  <2> QED  BY <2>2, <2>3, <2>4, <2>5 DEF TypeOK
<1>2. CASE Probe(w) \/ Reprobe(w)
  BY <1>2, StepTyped DEF Probe, Reprobe, WatchSteps
<1>3. CASE Spawn(w)
  <2>1. CASE pc[w] = "spawn" /\ spawn_detached(w, "await", {})
    BY <2>1, SpawnTyped DEF WatchSteps
  <2>2. CASE /\ pc[w] = "spawn" /\ crashes' = crashes + 1 /\ Goto(w, "unlock")
             /\ UNCHANGED <<files, seen, replaced, marks>>
    BY <2>2, CronAssumption DEF TypeOK, WatchSteps, Goto, files, Procs
  <2> QED  BY <1>3, <2>1, <2>2 DEF Spawn
<1>4. CASE Await(w)
  <2>1. CASE Step(w, "await", "unlock")
    BY <2>1, StepTyped DEF WatchSteps
  <2>2. CASE /\ pc[w] = "await" /\ Goto(w, "unlock")
             /\ marks' = marks \cup {"unguarded"}
             /\ UNCHANGED <<files, seen, replaced, crashes>>
    BY <2>2, CronAssumption DEF TypeOK, WatchSteps, Goto, files, Procs, Marks
  <2> QED  BY <1>4, <2>1, <2>2 DEF Await
<1>5. CASE CreateLock(w) \/ RecreateLock(w)
  <2>1. CASE Step(w, "create", "read") \/ Step(w, "recreate", "off")
    BY <2>1, StepTyped DEF WatchSteps
  <2>2. CASE TakeLock(w) /\ pc[w] \in {"create", "recreate"}
    BY <2>2, CronAssumption DEF TakeLock, TypeOK, WatchSteps, Goto, Procs
  <2> QED  BY <1>5, <2>1, <2>2 DEF CreateLock, RecreateLock
<1>6. CASE RemoveLock(w)
  <2>1. CASE Step(w, "remove", "off")
    BY <2>1, StepTyped DEF WatchSteps
  <2>2. CASE ~Step(w, "remove", "off")
    <3>1. /\ pc[w] = "remove" /\ pc' = [pc EXCEPT ![w] = "recreate"] /\ lock' = None
          /\ UNCHANGED <<crontab, port, record, written, seen, replaced, crashes>>
      BY <1>6, <2>2 DEF RemoveLock, Goto
    <3>2. marks' \subseteq Marks
      BY <1>6, <2>2 DEF RemoveLock, TypeOK, Marks
    <3> QED  BY <3>1, <3>2, CronAssumption DEF TypeOK, WatchSteps, Procs
  <2> QED  BY <2>1, <2>2
<1> QED  BY <1>1, <1>2, <1>3, <1>4, <1>5, <1>6 DEF croncheck

LEMMA ServeTyped ==
  ASSUME TypeOK, NEW s \in Servers, Fire(s) \/ serve(s)
  PROVE  TypeOK'
<1> s \in Procs /\ s \notin Watchers /\ s \notin Commands
  BY CronAssumption DEF Procs
<1>0. CASE Fire(s)
  <2>1. marks' \subseteq Marks
    BY <1>0 DEF Fire, SpawnMarks, Marks, TypeOK
  <2>2. pc[s] = "off"
    BY <1>0 DEF Fire, Fresh
  <2> QED  BY <1>0, <2>1, <2>2, CronAssumption DEF Fire, Goto, files, TypeOK, Procs, ServeSteps
<1>1. CASE LookForRecord(s)
  BY <1>1, StepTyped DEF LookForRecord, ServeSteps
<1>2. CASE CompareRecord(s)
  BY <1>2, StepTyped DEF CompareRecord, ServeSteps
<1>3. CASE ReadRecord(s) \/ PersistRecord(s) \/ RemoveRecord(s)
  BY <1>3, CronAssumption DEF TypeOK, ReadRecord, PersistRecord, RemoveRecord, Goto,
     read_pid_record, files, Procs, ServeSteps
<1>6. CASE VetRecord(s)
  <2>1. marks' \subseteq Marks
    BY <1>6 DEF VetRecord, Marks, TypeOK
  <2>2. pc[s] = "vet" /\ pc' \in {[pc EXCEPT ![s] = "off"], [pc EXCEPT ![s] = "clear"]}
    BY <1>6 DEF VetRecord, Goto
  <2> QED  BY <1>6, <2>1, <2>2, CronAssumption DEF VetRecord, Forget, files, TypeOK, Procs, ServeSteps
<1>4. CASE ClearRecord(s)
  <2>1. CASE Step(s, "clear", "off")
    BY <2>1, StepTyped DEF ServeSteps
  <2>2. CASE ~Step(s, "clear", "off")
    BY <1>4, <2>2, CronAssumption DEF ClearRecord, TypeOK, ServeSteps, Goto, files, Procs
  <2> QED  BY <2>1, <2>2
<1>5. CASE Bind(s)
  <2>1. CASE Step(s, "bind", "drop")
    BY <2>1, StepTyped DEF ServeSteps
  <2>2. CASE ~Step(s, "bind", "drop")
    BY <1>5, <2>2, CronAssumption DEF Bind, TypeOK, ServeSteps, Goto, files, Procs
  <2> QED  BY <2>1, <2>2
<1> QED  BY <1>0, <1>1, <1>2, <1>3, <1>4, <1>5, <1>6 DEF serve

(* What stopping the recorded process does: its record is read; or nothing *)
(* runs that matches it; or the server it names gets the signal.           *)
LEMMA StopCases ==
  ASSUME TypeOK, NEW c \in Commands, NEW from, NEW vet, NEW to,
         stop_owned_process(c, from, vet, to)
  PROVE  /\ UNCHANGED <<crontab, record, lock, written, replaced, crashes, marks>>
         /\ \/ pc[c] = from /\ read_pid_record(c, record, vet)
            \/ pc[c] = vet /\ Goto(c, "off") /\ Forget(c) /\ UNCHANGED port
            \/ \E s \in Servers :
                 /\ pc[c] = vet /\ Forget(c) /\ pc[s] # "off"
                 /\ pc' = [pc EXCEPT ![c] = to, ![s] = AfterSignal(s)]
                 /\ port' = IF port = s THEN None ELSE port
<1> c \in Procs /\ c \notin Watchers
  BY CronAssumption DEF Procs
<1>1. CASE pc[c] = from /\ read_pid_record(c, record, vet)
  BY <1>1 DEF read_pid_record, files
<1>2. CASE pc[c] = vet /\ ~process_matches(seen[c]) /\ ~(pc[c] = from /\ read_pid_record(c, record, vet))
  BY <1>2 DEF stop_owned_process
<1>3. CASE pc[c] = vet /\ process_matches(seen[c]) /\ ~(pc[c] = from /\ read_pid_record(c, record, vet))
  <2>1. seen[c] \in Servers /\ pc[seen[c]] # "off"
    BY <1>3 DEF process_matches, Running, TypeOK
  <2> QED  BY <1>3, <2>1 DEF stop_owned_process
<1> QED  BY <1>1, <1>2, <1>3 DEF stop_owned_process

LEMMA StopTyped ==
  ASSUME TypeOK, NEW c \in Commands, NEW from, NEW vet \in CommandSteps, NEW to \in CommandSteps,
         stop_owned_process(c, from, vet, to)
  PROVE  TypeOK'
<1> c \in Procs /\ c \notin Watchers /\ c \notin Servers
  BY CronAssumption DEF Procs
<1>0. /\ UNCHANGED <<crontab, record, lock, written, replaced, crashes, marks>>
      /\ \/ read_pid_record(c, record, vet) /\ pc[c] = from
         \/ Goto(c, "off") /\ Forget(c) /\ UNCHANGED port
         \/ \E s \in Servers :
              /\ Forget(c) /\ pc[s] # "off"
              /\ pc' = [pc EXCEPT ![c] = to, ![s] = AfterSignal(s)]
              /\ port' = IF port = s THEN None ELSE port
  BY StopCases
<1>1. CASE read_pid_record(c, record, vet)
  BY <1>1, CronAssumption DEF TypeOK, read_pid_record, Goto, files, Procs
<1>2. CASE Goto(c, "off") /\ Forget(c) /\ UNCHANGED port
  BY <1>0, <1>2, CronAssumption DEF TypeOK, Goto, Forget, Procs, CommandSteps
<1>3. ASSUME NEW s \in Servers, Forget(c), pc[s] # "off",
             pc' = [pc EXCEPT ![c] = to, ![s] = AfterSignal(s)],
             port' = IF port = s THEN None ELSE port
      PROVE  TypeOK'
  <2>1. AfterSignal(s) \in ServeSteps \ {"serve"}
    BY DEF AfterSignal, TypeOK, ServeSteps, Starting
  <2>2. /\ pc' \in [Procs -> WatchSteps \cup ServeSteps \cup CommandSteps]
        /\ \A w \in Watchers : pc'[w] = pc[w]
        /\ pc'[c] = to /\ \A d \in Commands \ {c} : pc'[d] = pc[d]
        /\ pc'[s] = AfterSignal(s) /\ \A t \in Servers \ {s} : pc'[t] = pc[t]
    BY <1>3, <2>1, CronAssumption DEF TypeOK, Procs
  <2>3. \A t \in Servers : pc'[t] = "serve" <=> port' = t
    BY <1>3, <2>1, <2>2, CronAssumption DEF TypeOK
  <2>4. /\ seen' \in [Procs -> Watchers \cup Servers \cup {None}]
        /\ \A p \in Procs \ Watchers : seen'[p] \notin Watchers
    BY <1>3, CronAssumption DEF TypeOK, Forget
  <2>5. \A d \in Commands : pc'[d] \in CommandSteps
    BY <2>2 DEF TypeOK
  <2>6. \A t \in Servers : pc'[t] \in ServeSteps
    BY <2>1, <2>2 DEF TypeOK
  <2> QED  BY <1>0, <1>3, <2>2, <2>3, <2>4, <2>5, <2>6, CronAssumption DEF TypeOK
<1> QED  BY <1>0, <1>1, <1>2, <1>3

LEMMA CommandTyped ==
  ASSUME TypeOK, NEW c \in Commands, command(c)
  PROVE  TypeOK'
<1> c \in Procs /\ c \notin Watchers /\ c \notin Servers
  BY CronAssumption DEF Procs
<1>1. CASE install_cron(c)
  <2>1. CASE \E to \in CommandSteps : Step(c, "probe", to)
    BY <2>1, StepTyped DEF CommandSteps
  <2>2. CASE pc[c] = "new" /\ crontab' = TRUE /\ Goto(c, "probe")
             /\ UNCHANGED <<port, record, lock, written, seen, replaced, crashes, marks>>
    BY <2>2, CronAssumption DEF TypeOK, Goto, Procs, CommandSteps
  <2> QED  BY <1>1, <2>1, <2>2 DEF install_cron, CommandSteps
<1>2. CASE restart_cron(c)
  BY <1>2, StepTyped, StopTyped DEF restart_cron, CommandSteps
<1>3. CASE uninstall_cron(c)
  <2>1. CASE pc[c] = "new" /\ crontab' = FALSE /\ Goto(c, "unstop")
             /\ UNCHANGED <<port, record, lock, written, seen, replaced, crashes, marks>>
    BY <2>1, CronAssumption DEF TypeOK, Goto, Procs, CommandSteps
  <2> QED  BY <1>3, <2>1, StopTyped DEF uninstall_cron, CommandSteps
<1>4. CASE pc[c] = "spawn" /\ spawn_detached(c, "off", {"unguarded"})
  BY <1>4, SpawnTyped DEF CommandSteps, Marks
<1> QED  BY <1>1, <1>2, <1>3, <1>4 DEF command

LEMMA CrashTyped ==
  ASSUME TypeOK, NEW p \in Procs, Crash(p)
  PROVE  TypeOK'
<1>1. marks' \subseteq Marks
  BY DEF Crash, TypeOK, Marks
<1> QED  BY <1>1, CronAssumption
         DEF Crash, TypeOK, Goto, Forget, Procs, WatchSteps, ServeSteps, CommandSteps

LEMMA TypePreserved ==
  TypeOK /\ [Next]_vars => TypeOK'
<1> SUFFICES ASSUME TypeOK, [Next]_vars PROVE TypeOK'
  OBVIOUS
<1>1. CASE UNCHANGED vars
  BY <1>1 DEF vars, TypeOK
<1>2. CASE Next
  <2>1. CASE Replace
    BY <2>1 DEF Replace, files, TypeOK
  <2> QED  BY <1>2, <2>1, WatchTyped, ServeTyped, CommandTyped, CrashTyped DEF Next
<1> QED  BY <1>1, <1>2

(* TypeOK holds in every state of the watchdog.                             *)
THEOREM TypeCorrect == Spec => []TypeOK
<1>1. Init => TypeOK
  BY CronAssumption DEF Init, TypeOK, Procs, WatchSteps, ServeSteps, CommandSteps
<1> QED  BY <1>1, TypePreserved, PTL DEF Spec

-----------------------------------------------------------------------------
(* Frames: what the steps of one kind of process leave alone.               *)

LEMMA MarksGrow ==
  ASSUME [Next]_vars PROVE marks \subseteq marks'
<1>1. CASE \E w \in Watchers : Check(w) \/ croncheck(w)
  <2>1. PICK w \in Watchers : Check(w) \/ croncheck(w)
    BY <1>1
  <2> QED  BY <2>1 DEF Check, croncheck, Probe, CreateLock, TakeLock, WriteLock, ReadLock, VetLock,
              RemoveLock, RecreateLock, Reprobe, Spawn, Await, Unlock, Step, spawn_detached,
              read_pid_record
<1>2. CASE \E s \in Servers : Fire(s) \/ serve(s)
  BY <1>2 DEF Fire, serve, LookForRecord, ReadRecord, VetRecord, ClearRecord, PersistRecord, Bind,
     CompareRecord, RemoveRecord, Step, read_pid_record
<1>3. CASE \E c \in Commands : command(c)
  BY <1>3 DEF command, install_cron, restart_cron, uninstall_cron, stop_owned_process, Step,
     spawn_detached, read_pid_record
<1>4. CASE (\E p \in Procs : Crash(p)) \/ Replace
  BY <1>4 DEF Crash, Replace
<1> QED  BY <1>1, <1>2, <1>3, <1>4 DEF Next, vars

LEMMA FireFrame ==
  ASSUME TypeOK, NEW s \in Servers, Fire(s)
  PROVE  /\ UNCHANGED <<record, lock>>
         /\ \A w \in Watchers : pc'[w] = pc[w]
         /\ \A t \in Servers \ {s} : pc'[t] = pc[t]
         /\ pc[s] = "off" /\ pc'[s] = "look"
         /\ "unguarded" \in marks' /\ SpawnMarks \subseteq marks'
BY CronAssumption DEF Fire, Fresh, Goto, files, TypeOK, Procs

LEMMA ServeFrame ==
  ASSUME TypeOK, NEW s \in Servers, serve(s)
  PROVE  /\ UNCHANGED <<crontab, lock, written>>
         /\ marks' \subseteq marks \cup {"disowned"}
         /\ \A w \in Watchers : pc'[w] = pc[w]
         /\ \A t \in Servers \ {s} : pc'[t] = pc[t]
         /\ pc[s] # "off"
<1> s \in Procs /\ s \notin Watchers
  BY CronAssumption DEF Procs
<1>1. \E to : pc' = [pc EXCEPT ![s] = to]
  BY DEF serve, LookForRecord, ReadRecord, VetRecord, ClearRecord, PersistRecord, Bind,
     CompareRecord, RemoveRecord, Step, read_pid_record, Goto
<1>2. UNCHANGED <<crontab, lock, written>> /\ pc[s] # "off"
  BY DEF serve, LookForRecord, ReadRecord, VetRecord, ClearRecord, PersistRecord, Bind,
     CompareRecord, RemoveRecord, Step, read_pid_record, files
<1>3. marks' \subseteq marks \cup {"disowned"}
  BY DEF serve, LookForRecord, ReadRecord, VetRecord, ClearRecord, PersistRecord, Bind,
     CompareRecord, RemoveRecord, Step, read_pid_record
<1> QED  BY <1>1, <1>2, <1>3 DEF TypeOK

(* A command starts a server, or stops at most one. *)
LEMMA CommandFrame ==
  ASSUME TypeOK, NEW c \in Commands, command(c)
  PROVE  /\ UNCHANGED <<record, lock, written>>
         /\ \A w \in Watchers : pc'[w] = pc[w]
         /\ \A s \in Servers : seen'[s] = seen[s]
         /\ \/ /\ UNCHANGED marks
               /\ \A t \in Servers : pc'[t] \in {pc[t], AfterSignal(t)}
            \/ spawn_detached(c, "off", {"unguarded"})
<1> c \in Procs /\ c \notin Watchers /\ c \notin Servers
  BY CronAssumption DEF Procs
<1>1. ASSUME NEW to, Goto(c, to), UNCHANGED <<record, lock, written, seen, marks>>
      PROVE  /\ \A w \in Watchers : pc'[w] = pc[w]
             /\ \A s \in Servers : seen'[s] = seen[s]
             /\ \A t \in Servers : pc'[t] = pc[t]
  BY <1>1 DEF Goto, TypeOK, Procs
<1>2. ASSUME NEW from, NEW vet, NEW to, stop_owned_process(c, from, vet, to)
      PROVE  /\ UNCHANGED <<record, lock, written, marks>>
             /\ \A w \in Watchers : pc'[w] = pc[w]
             /\ \A s \in Servers : seen'[s] = seen[s]
             /\ \A t \in Servers : pc'[t] \in {pc[t], AfterSignal(t)}
  <2>1. UNCHANGED <<record, lock, written, marks>>
    BY <1>2, StopCases
  <2>2. CASE read_pid_record(c, record, vet)
    BY <2>1, <2>2 DEF read_pid_record, Goto, TypeOK, Procs
  <2>3. CASE Goto(c, "off") /\ Forget(c)
    BY <2>1, <2>3 DEF Forget, Goto, TypeOK, Procs
  <2>4. CASE \E s \in Servers : Forget(c) /\ pc' = [pc EXCEPT ![c] = to, ![s] = AfterSignal(s)]
    BY <2>1, <2>4, CronAssumption DEF Forget, TypeOK, Procs
  <2> QED  BY <1>2, <2>1, <2>2, <2>3, <2>4, StopCases
<1>3. CASE install_cron(c)
  BY <1>1, <1>3 DEF install_cron, Step, files
<1>4. CASE restart_cron(c)
  BY <1>1, <1>2, <1>4 DEF restart_cron, Step, files
<1>5. CASE uninstall_cron(c)
  BY <1>1, <1>2, <1>5 DEF uninstall_cron
<1>6. CASE spawn_detached(c, "off", {"unguarded"})
  BY <1>6, CronAssumption DEF spawn_detached, files, TypeOK, Procs
<1> QED  BY <1>3, <1>4, <1>5, <1>6 DEF command

LEMMA WatchFrame ==
  ASSUME TypeOK, NEW w \in Watchers, Check(w) \/ croncheck(w)
  PROVE  /\ UNCHANGED <<port, record>>
         /\ \A s \in Servers : seen'[s] = seen[s]
         /\ \A v \in Watchers \ {w} : pc'[v] = pc[v]
         /\ \/ \A s \in Servers : pc'[s] = pc[s]
            \/ pc[w] = "spawn" /\ spawn_detached(w, "await", {})
<1> w \in Procs /\ w \notin Servers
  BY CronAssumption DEF Procs
<1>1. CASE pc[w] = "spawn" /\ spawn_detached(w, "await", {})
  BY <1>1, CronAssumption DEF spawn_detached, files, TypeOK, Procs
<1>2. CASE ~(pc[w] = "spawn" /\ spawn_detached(w, "await", {}))
  <2>1. \E to : pc' = [pc EXCEPT ![w] = to]
    BY <1>2 DEF Check, croncheck, Probe, CreateLock, TakeLock, WriteLock, ReadLock, VetLock,
       RemoveLock, RecreateLock, Reprobe, Spawn, Await, Unlock, Step, read_pid_record, Goto
  <2>2. UNCHANGED <<port, record>> /\ \A s \in Servers : seen'[s] = seen[s]
    BY <1>2 DEF Check, croncheck, Probe, CreateLock, TakeLock, WriteLock, ReadLock, VetLock,
       RemoveLock, RecreateLock, Reprobe, Spawn, Await, Unlock, Step, read_pid_record, Forget,
       files, TypeOK, Procs
  <2> QED  BY <2>1, <2>2, CronAssumption DEF TypeOK, Procs
<1> QED  BY <1>1, <1>2

-----------------------------------------------------------------------------
(* The startup lock.  Until a live lock is removed, whoever is past the      *)
(* creation of its lock still has it at the path: a new lock is made only    *)
(* where there is none, and a lock is removed by its holder or after its     *)
(* holder has stopped running.                                               *)

LockInv ==
  "takeover" \notin marks => \A w \in Watchers : Holding(w) => lock = w

LEMMA LockWatch ==
  ASSUME TypeOK, LockInv, NEW w \in Watchers, Check(w) \/ croncheck(w),
         "takeover" \notin marks, "takeover" \notin marks',
         NEW v \in Watchers, Holding(v)'
  PROVE  lock' = v
<1> w \in Procs /\ v \in Procs /\ v # None
  BY CronAssumption DEF Procs
<1>1. v # w => Holding(v) /\ lock = v
  BY WatchFrame DEF Holding, LockInv
<1>2. CASE TakeLock(w) /\ lock = None
  BY <1>1, <1>2 DEF TakeLock
<1>3. CASE Unlock(w)
  <2>1. lock = w
    BY <1>3 DEF Unlock, Holding, LockInv
  <2>2. ~Holding(w)'
    BY <1>3 DEF Unlock, Goto, TypeOK, Holding
  <2> QED  BY <1>1, <2>1, <2>2
<1>4. CASE /\ pc[w] = "remove" /\ lock # None /\ lock' = None /\ Goto(w, "recreate")
           /\ marks' = IF Running(lock) THEN marks \cup {"takeover"} ELSE marks
  <2>1. ~Running(lock)
    BY <1>4
  <2>2. ~Holding(w)'
    BY <1>4 DEF Goto, TypeOK, Holding
  <2> QED  BY <1>1, <2>1, <2>2 DEF Running, Holding
<1>5. CASE lock' = lock /\ (Holding(w)' => Holding(w))
  BY <1>1, <1>5 DEF LockInv
<1>6. CASE Check(w)
  BY <1>5, <1>6 DEF Check, Goto, TypeOK, Holding
<1>7. CASE croncheck(w) /\ ~Unlock(w)
  <2>1. CASE CreateLock(w) \/ RecreateLock(w)
    BY <1>2, <1>5, <2>1 DEF CreateLock, RecreateLock, Step, Goto, files, TypeOK, Holding
  <2>2. CASE RemoveLock(w)
    BY <1>4, <1>5, <2>2 DEF RemoveLock, Step, Goto, files, TypeOK, Holding
  <2>3. CASE Spawn(w)
    BY <1>5, <2>3 DEF Spawn, spawn_detached, Goto, files, Holding
  <2>4. CASE Probe(w) \/ WriteLock(w) \/ ReadLock(w) \/ VetLock(w) \/ Reprobe(w) \/ Await(w)
    BY <1>5, <2>4 DEF Probe, WriteLock, ReadLock, VetLock, Reprobe, Await, Step, Goto, files,
       read_pid_record, TypeOK, Holding
  <2> QED  BY <1>7, <2>1, <2>2, <2>3, <2>4 DEF croncheck
<1> QED  BY <1>3, <1>6, <1>7

LEMMA LockPreserved ==
  TypeOK /\ LockInv /\ [Next]_vars => LockInv'
<1> SUFFICES ASSUME TypeOK, LockInv, [Next]_vars, "takeover" \notin marks',
                    NEW v \in Watchers, Holding(v)'
             PROVE  lock' = v
  BY DEF LockInv
<1>0. "takeover" \notin marks
  BY MarksGrow
<1>1. CASE \E w \in Watchers : Check(w) \/ croncheck(w)
  BY <1>0, <1>1, LockWatch
<1>2. CASE \/ \E s \in Servers : Fire(s) \/ serve(s)
           \/ \E c \in Commands : command(c)
           \/ Replace \/ UNCHANGED vars
  <2>1. lock' = lock /\ pc'[v] = pc[v]
    BY <1>2, FireFrame, ServeFrame, CommandFrame DEF Replace, files, vars
  <2> QED  BY <1>0, <2>1 DEF LockInv, Holding
<1>3. CASE \E p \in Procs : Crash(p)
  <2>1. lock' = lock /\ Holding(v)
    BY <1>3 DEF Crash, Goto, TypeOK, Holding, Procs
  <2> QED  BY <1>0, <2>1 DEF LockInv
<1> QED  BY <1>1, <1>2, <1>3 DEF Next

(* LockExclusive holds in every state: see LockInv.                         *)
THEOREM LockCorrect == Spec => []LockExclusive
<1>1. Init => TypeOK /\ LockInv
  BY CronAssumption DEF Init, TypeOK, LockInv, Holding, Procs, WatchSteps, ServeSteps, CommandSteps
<1>2. LockInv => LockExclusive
  BY DEF LockInv, LockExclusive
<1> QED  BY <1>1, <1>2, TypePreserved, LockPreserved, PTL DEF Spec

-----------------------------------------------------------------------------
(* The PID record.  Until two servers start together, or one takes the       *)
(* record of a running one for stale, at most one is starting, and it        *)
(* replaces the record only when the one it found was not running: the       *)
(* record of a server stays from its persist to its exit.                    *)

RecordInv ==
  marks \cap {"overlap", "disowned"} = {} =>
    /\ \A s, t \in Servers : Starting(s) /\ Starting(t) => s = t
    /\ \A s \in Servers : pc[s] \in {"bind", "serve", "drop", "unrecord"} => record = s
    /\ \A s \in Servers : pc[s] = "persist" => record = None
    /\ \A s \in Servers : pc[s] = "clear" => ~Running(record)
    /\ \A s \in Servers : pc[s] = "vet" => record \in {None, seen[s]}

(* A step that only ends servers, or makes a serving one drop its guard.     *)
LEMMA RecordKeptByEnding ==
  ASSUME TypeOK, RecordInv, UNCHANGED record, marks \subseteq marks',
         \A s \in Servers : pc'[s] \in {pc[s], "off"} \/ (pc[s] = "serve" /\ pc'[s] = "drop"),
         \A s \in Servers : pc'[s] = "vet" => seen'[s] = seen[s]
  PROVE  RecordInv'
<1>1. \A s \in Servers : Starting(s)' => Starting(s)
  BY DEF Starting
<1>2. Running(record)' => Running(record)
  BY DEF Running, TypeOK
<1> QED  BY <1>1, <1>2 DEF RecordInv

(* A step that starts a server.                                             *)
LEMMA RecordKeptByStart ==
  ASSUME TypeOK, RecordInv, NEW s \in Servers, UNCHANGED record,
         pc[s] = "off", pc'[s] = "look", \A t \in Servers \ {s} : pc'[t] = pc[t],
         marks \subseteq marks', SpawnMarks \subseteq marks'
  PROVE  RecordInv'
<1> SUFFICES ASSUME marks' \cap {"overlap", "disowned"} = {} PROVE RecordInv'
  BY DEF RecordInv
<1>1. marks \cap {"overlap", "disowned"} = {} /\ \A t \in Servers : ~Starting(t)
  BY DEF SpawnMarks
<1>2. \A t \in Servers : Starting(t)' => t = s
  BY <1>1 DEF Starting
<1> QED  BY <1>1, <1>2 DEF RecordInv, Starting

LEMMA RecordKeptBySpawn ==
  ASSUME TypeOK, RecordInv, NEW p \in Procs \ Servers, NEW to, NEW mark,
         spawn_detached(p, to, mark)
  PROVE  RecordInv'
<1>1. PICK s \in Servers : /\ Fresh(s) /\ pc' = [pc EXCEPT ![s] = "look", ![p] = to]
                           /\ marks' = marks \cup mark \cup SpawnMarks
                           /\ UNCHANGED <<files, seen, crashes>>
  BY DEF spawn_detached
<1>2. /\ pc[s] = "off" /\ pc'[s] = "look"
      /\ \A t \in Servers \ {s} : pc'[t] = pc[t]
  BY <1>1 DEF TypeOK, Fresh, Procs
<1>3. record' = record
  BY <1>1 DEF files
<1> QED  BY <1>1, <1>2, <1>3, RecordKeptByStart

LEMMA RecordKeptByServing ==
  ASSUME TypeOK, RecordInv, NEW s \in Servers, serve(s)
  PROVE  RecordInv'
<1> SUFFICES ASSUME marks' \cap {"overlap", "disowned"} = {} PROVE RecordInv'
  BY DEF RecordInv
<1>0. marks \cap {"overlap", "disowned"} = {}
  BY MarksGrow DEF Next
<1> USE <1>0
<1> s \in Procs /\ s # None
  BY CronAssumption DEF Procs
<1> DEFINE Others == \A t \in Servers \ {s} : pc'[t] = pc[t]
<1>1. Others
  BY ServeFrame
<1>2. CASE pc[s] = "look" /\ LookForRecord(s)
  <2>1. record' = record /\ seen' = seen
    BY <1>2 DEF LookForRecord, Step, files
  <2>2. pc'[s] \in {"read", "off"} \/ (pc'[s] = "persist" /\ record = None)
    BY <1>2 DEF LookForRecord, Step, Goto, TypeOK
  <2>3. \A t \in Servers : Starting(t) => t = s
    BY <1>2 DEF RecordInv, Starting
  <2> QED  BY <1>1, <1>2, <2>1, <2>2, <2>3 DEF RecordInv, Starting, Running
<1>3. CASE ReadRecord(s)
  <2>1. record' = record /\ seen'[s] = record /\ pc[s] = "read" /\ pc'[s] = "vet"
    BY <1>3 DEF ReadRecord, read_pid_record, Goto, files, TypeOK
  <2>2. \A t \in Servers : Starting(t) => t = s
    BY <2>1 DEF RecordInv, Starting
  <2> QED  BY <1>1, <2>1, <2>2 DEF RecordInv, Starting, Running
<1>4. CASE VetRecord(s)
  <2>1. record' = record /\ pc[s] = "vet" /\ record \in {None, seen[s]}
    BY <1>4 DEF VetRecord, files, RecordInv
  <2>2. \/ pc'[s] = "off"
        \/ pc'[s] = "clear" /\ ~Running(seen[s])
    BY <1>4 DEF VetRecord, process_matches, Goto, TypeOK
  <2>3. \A t \in Servers : Starting(t) => t = s
    BY <2>1 DEF RecordInv, Starting
  <2>4. pc'[s] = "clear" => ~Running(record) /\ record # s
    BY <2>1, <2>2 DEF Running
  <2>5. pc'[s] = "clear" => ~Running(record)'
    BY <1>1, <2>1, <2>4 DEF Running, TypeOK
  <2> QED  BY <1>1, <2>1, <2>2, <2>3, <2>5 DEF RecordInv, Starting
<1>5. CASE ClearRecord(s)
  <2>1. pc[s] = "clear" /\ ~Running(record) /\ record' = None /\ pc'[s] \in {"off", "persist"}
    BY <1>5 DEF ClearRecord, Step, Goto, files, TypeOK, RecordInv
  <2>2. \A t \in Servers : Starting(t) => t = s
    BY <2>1 DEF RecordInv, Starting
  <2>3. \A t \in Servers \ {s} : pc[t] \notin {"bind", "serve", "drop", "unrecord"}
    BY <2>1, CronAssumption DEF RecordInv, Running
  <2> QED  BY <1>1, <2>1, <2>2, <2>3 DEF RecordInv, Starting, Running
<1>6. CASE PersistRecord(s)
  <2>1. pc[s] = "persist" /\ record = None /\ record' = s /\ pc'[s] = "bind"
    BY <1>6 DEF PersistRecord, Goto, TypeOK, RecordInv
  <2>2. \A t \in Servers : Starting(t) => t = s
    BY <2>1 DEF RecordInv, Starting
  <2>3. \A t \in Servers \ {s} : pc[t] \notin {"bind", "serve", "drop", "unrecord"}
    BY <2>1, CronAssumption DEF RecordInv
  <2> QED  BY <1>1, <2>1, <2>2, <2>3 DEF RecordInv, Starting
<1>7. CASE Bind(s)
  <2>1. pc[s] = "bind" /\ record' = record /\ seen' = seen /\ pc'[s] \in {"drop", "serve"}
    BY <1>7 DEF Bind, Step, Goto, files, TypeOK
  <2>2. \A t \in Servers : Starting(t) => t = s
    BY <2>1 DEF RecordInv, Starting
  <2> QED  BY <1>1, <2>1, <2>2 DEF RecordInv, Starting, Running
<1>8. CASE CompareRecord(s)
  <2>1. pc[s] = "drop" /\ record' = record /\ seen' = seen /\ pc'[s] \in {"off", "unrecord"}
    BY <1>8 DEF CompareRecord, Step, Goto, files, TypeOK
  <2>2. record = s
    BY <2>1 DEF RecordInv
  <2>3. \A t \in Servers : Starting(t)' <=> Starting(t)
    BY <1>1, <2>1 DEF Starting
  <2>4. Running(record)' => Running(record)
    BY <2>1, <2>2 DEF Running
  <2> QED  BY <1>1, <2>1, <2>2, <2>3, <2>4 DEF RecordInv
<1>9. CASE RemoveRecord(s)
  <2>1. pc[s] = "unrecord" /\ record = s /\ record' = None /\ seen' = seen /\ pc'[s] = "off"
    BY <1>9 DEF RemoveRecord, Goto, TypeOK, RecordInv
  <2>2. \A t \in Servers : Starting(t)' <=> Starting(t)
    BY <1>1, <2>1 DEF Starting
  <2>3. \A t \in Servers \ {s} : pc[t] \notin {"bind", "serve", "drop", "unrecord"}
    BY <2>1 DEF RecordInv
  <2> QED  BY <1>1, <2>1, <2>2, <2>3 DEF RecordInv, Running
<1> QED
  BY <1>2, <1>3, <1>4, <1>5, <1>6, <1>7, <1>8, <1>9 DEF serve, LookForRecord, Step

LEMMA RecordPreserved ==
  TypeOK /\ RecordInv /\ [Next]_vars => RecordInv'
<1> SUFFICES ASSUME TypeOK, RecordInv, [Next]_vars PROVE RecordInv'
  OBVIOUS
<1>1. CASE \E w \in Watchers : Check(w) \/ croncheck(w)
  <2>1. PICK w \in Watchers : Check(w) \/ croncheck(w)
    BY <1>1
  <2>2. CASE spawn_detached(w, "await", {})
    BY <2>2, RecordKeptBySpawn, CronAssumption DEF Procs
  <2>3. CASE \A s \in Servers : pc'[s] = pc[s]
    BY <2>1, <2>3, WatchFrame, MarksGrow, RecordKeptByEnding
  <2> QED  BY <2>1, <2>2, <2>3, WatchFrame
<1>2. CASE \E s \in Servers : Fire(s) \/ serve(s)
  BY <1>2, FireFrame, MarksGrow, RecordKeptByStart, RecordKeptByServing
<1>3. CASE \E c \in Commands : command(c)
  <2>1. PICK c \in Commands : command(c)
    BY <1>3
  <2>2. CASE spawn_detached(c, "off", {"unguarded"})
    BY <2>2, RecordKeptBySpawn, CronAssumption DEF Procs
  <2>3. CASE \A t \in Servers : pc'[t] \in {pc[t], AfterSignal(t)}
    <3>1. \A t \in Servers : pc'[t] \in {pc[t], "off"} \/ (pc[t] = "serve" /\ pc'[t] = "drop")
      BY <2>3 DEF AfterSignal
    <3> QED  BY <2>1, <3>1, CommandFrame, MarksGrow, RecordKeptByEnding
  <2> QED  BY <2>1, <2>2, <2>3, CommandFrame
<1>4. CASE \E p \in Procs : Crash(p)
  <2>1. \A s \in Servers : pc'[s] \in {pc[s], "off"} /\ (pc'[s] = "vet" => seen'[s] = seen[s])
    BY <1>4 DEF Crash, Goto, Forget, TypeOK, Procs
  <2> QED  BY <1>4, <2>1, MarksGrow, RecordKeptByEnding DEF Crash
<1>5. CASE Replace \/ UNCHANGED vars
  BY <1>5 DEF Replace, files, vars, RecordInv, Starting, Running
<1> QED  BY <1>1, <1>2, <1>3, <1>4, <1>5 DEF Next

(* RecordKept holds in every state: see RecordInv.                           *)
THEOREM RecordCorrect == Spec => []RecordKept
<1>1. Init => TypeOK /\ RecordInv
  BY CronAssumption DEF Init, TypeOK, RecordInv, Starting, Procs, WatchSteps, ServeSteps,
     CommandSteps
<1>2. RecordInv => RecordKept
  BY DEF RecordInv, RecordKept
<1> QED  BY <1>1, <1>2, TypePreserved, RecordPreserved, PTL DEF Spec

-----------------------------------------------------------------------------
(* No duplicate.  While neither of the two causes has happened, a starting  *)
(* server has a watcher that waits for it and holds the lock, so a watcher  *)
(* that has just seen the port refused under the lock is beside no server.  *)

Causes == {"takeover", "unguarded"}
Up(s) == Starting(s) \/ pc[s] = "serve"

NoDupInv ==
  marks \cap Causes = {} =>
    /\ "duplicate" \notin marks
    /\ \A s, t \in Servers : Up(s) /\ Up(t) => s = t
    /\ \A s \in Servers : Starting(s) => \E w \in Watchers : pc[w] = "await"
    /\ \A w \in Watchers : pc[w] = "spawn" => \A s \in Servers : ~Up(s)

(* A step of the servers alone that brings none up.                         *)
LEMMA NoDupKeptByServers ==
  ASSUME NoDupInv, marks \subseteq marks', marks' \subseteq marks \cup {"disowned"}, \A w \in Watchers : pc'[w] = pc[w],
         \A s \in Servers : /\ Up(s)' => Up(s)
                            /\ Starting(s)' => Starting(s)
  PROVE  NoDupInv'
<1> SUFFICES ASSUME marks' \cap Causes = {} PROVE NoDupInv'
  BY DEF NoDupInv
<1>1. marks \cap Causes = {} /\ ("duplicate" \in marks' => "duplicate" \in marks)
  OBVIOUS
<1> QED  BY <1>1 DEF NoDupInv

LEMMA NoDupKeptBySpawn ==
  ASSUME TypeOK, LockInv, NoDupInv, NEW w \in Watchers, pc[w] = "spawn",
         spawn_detached(w, "await", {})
  PROVE  NoDupInv'
<1> SUFFICES ASSUME marks' \cap Causes = {} PROVE NoDupInv'
  BY DEF NoDupInv
<1>1. PICK s \in Servers : /\ Fresh(s) /\ pc' = [pc EXCEPT ![s] = "look", ![w] = "await"]
                           /\ marks' = marks \cup {} \cup SpawnMarks
  BY DEF spawn_detached
<1>2. marks \cap Causes = {} /\ "takeover" \notin marks
  BY <1>1 DEF Causes
<1>3. \A t \in Servers : ~Up(t)
  BY <1>2 DEF NoDupInv
<1>4. "duplicate" \notin marks'
  BY <1>1, <1>2, <1>3 DEF NoDupInv, SpawnMarks, Up, Starting
<1>5. /\ pc'[w] = "await"
      /\ \A t \in Servers \ {s} : pc'[t] = pc[t]
      /\ \A v \in Watchers \ {w} : pc'[v] = pc[v]
  BY <1>1, CronAssumption DEF TypeOK, Procs
<1>6. \A v \in Watchers : pc'[v] # "spawn"
  BY <1>2, <1>5 DEF LockInv, Holding
<1>7. \A t \in Servers : Up(t)' => t = s
  BY <1>3, <1>5 DEF Up, Starting
<1> QED  BY <1>4, <1>5, <1>6, <1>7 DEF NoDupInv

LEMMA NoDupKeptByWatch ==
  ASSUME TypeOK, LockInv, NoDupInv, NEW w \in Watchers, Check(w) \/ croncheck(w),
         \A s \in Servers : pc'[s] = pc[s]
  PROVE  NoDupInv'
<1> SUFFICES ASSUME marks' \cap Causes = {} PROVE NoDupInv'
  BY DEF NoDupInv
<1> w \in Procs
  BY DEF Procs
<1>1. marks \cap Causes = {} /\ "takeover" \notin marks
  BY MarksGrow DEF Causes, Next
<1>2. \A s \in Servers : (Up(s)' <=> Up(s)) /\ (Starting(s)' <=> Starting(s))
  BY DEF Up, Starting
<1>3. \A v \in Watchers \ {w} : pc'[v] = pc[v]
  BY WatchFrame
<1>4. ASSUME pc[w] # "await", pc'[w] # "spawn", marks' \subseteq marks \cup {"takeover"}
      PROVE  NoDupInv'
  BY <1>1, <1>2, <1>3, <1>4 DEF NoDupInv
<1>5. CASE Await(w)
  <2>1. Step(w, "await", "unlock") /\ Answered
    BY <1>5 DEF Await, Causes
  <2>2. \A s \in Servers : ~Starting(s)
    <3>1. port \in Servers /\ pc[port] = "serve"
      BY <2>1 DEF Answered, TypeOK
    <3> QED  BY <1>1, <3>1 DEF NoDupInv, Up, Starting
  <2>3. pc'[w] = "unlock" /\ marks' = marks
    BY <2>1 DEF Step, Goto, TypeOK
  <2> QED  BY <1>1, <1>2, <1>3, <2>2, <2>3 DEF NoDupInv
<1>6. CASE Reprobe(w)
  <2>1. pc[w] = "reprobe" /\ marks' = marks /\ (pc'[w] = "spawn" => Refused)
    BY <1>6 DEF Reprobe, Step, Goto, TypeOK
  <2>2. ASSUME Refused PROVE \A s \in Servers : ~Up(s)
    <3>1. \A s \in Servers : pc[s] # "serve"
      BY <2>2, CronAssumption DEF Refused, TypeOK
    <3>2. \A v \in Watchers : pc[v] # "await"
      BY <1>1, <2>1 DEF LockInv, Holding
    <3> QED  BY <1>1, <3>1, <3>2 DEF NoDupInv, Up
  <2> QED  BY <1>1, <1>2, <1>3, <2>1, <2>2 DEF NoDupInv
<1>7. CASE Spawn(w)
  <2>1. \/ pc'[w] = "unlock" /\ pc[w] = "spawn" /\ marks' = marks
        \/ spawn_detached(w, "await", {})
    BY <1>7 DEF Spawn, Goto, TypeOK
  <2>2. CASE spawn_detached(w, "await", {})
    BY <1>7, <2>2, NoDupKeptBySpawn DEF Spawn
  <2> QED  BY <1>4, <2>1, <2>2
<1>8. CASE Check(w)
  BY <1>4, <1>8 DEF Check, Fresh, Goto, TypeOK
<1>9. CASE Probe(w) \/ CreateLock(w) \/ WriteLock(w) \/ ReadLock(w) \/ VetLock(w)
           \/ RecreateLock(w) \/ Unlock(w)
  BY <1>4, <1>9 DEF Probe, CreateLock, TakeLock, WriteLock, ReadLock, VetLock, RecreateLock, Unlock,
     Step, Goto, read_pid_record, TypeOK
<1>10. CASE RemoveLock(w)
  BY <1>4, <1>10 DEF RemoveLock, Step, Goto, TypeOK
<1> QED  BY <1>5, <1>6, <1>7, <1>8, <1>9, <1>10 DEF croncheck

LEMMA NoDupPreserved ==
  TypeOK /\ LockInv /\ NoDupInv /\ [Next]_vars => NoDupInv'
<1> SUFFICES ASSUME TypeOK, LockInv, NoDupInv, [Next]_vars PROVE NoDupInv'
  OBVIOUS
<1>1. CASE \E w \in Watchers : Check(w) \/ croncheck(w)
  BY <1>1, WatchFrame, NoDupKeptBySpawn, NoDupKeptByWatch
<1>2. CASE \E s \in Servers : Fire(s) \/ serve(s)
  <2>1. PICK s \in Servers : Fire(s) \/ serve(s)
    BY <1>2
  <2>2. CASE Fire(s)
    BY <2>2, FireFrame DEF NoDupInv, Causes
  <2>3. CASE serve(s)
    <3>1. (Up(s)' => Up(s)) /\ (Starting(s)' => Starting(s))
      BY <2>3 DEF serve, LookForRecord, ReadRecord, VetRecord, ClearRecord, PersistRecord, Bind,
         CompareRecord, RemoveRecord, Step, read_pid_record, Goto, Up, Starting, TypeOK, Procs
    <3>2. \A t \in Servers : (Up(t)' => Up(t)) /\ (Starting(t)' => Starting(t))
      BY <2>3, <3>1, ServeFrame DEF Up, Starting
    <3> QED  BY <2>3, <3>2, ServeFrame, MarksGrow, NoDupKeptByServers
  <2> QED  BY <2>1, <2>2, <2>3
<1>3. CASE \E c \in Commands : command(c)
  <2>1. PICK c \in Commands : command(c)
    BY <1>3
  <2>2. CASE spawn_detached(c, "off", {"unguarded"})
    BY <2>2 DEF spawn_detached, NoDupInv, Causes
  <2>3. CASE marks' = marks /\ \A t \in Servers : pc'[t] \in {pc[t], AfterSignal(t)}
    <3>1. \A t \in Servers : (Up(t)' => Up(t)) /\ (Starting(t)' => Starting(t))
      BY <2>3 DEF AfterSignal, Up, Starting
    <3> QED  BY <2>1, <2>3, <3>1, CommandFrame, NoDupKeptByServers
  <2> QED  BY <2>1, <2>2, <2>3, CommandFrame
<1>4. CASE \E p \in Procs : Crash(p)
  <2>1. PICK p \in Procs : Crash(p)
    BY <1>4
  <2>2. CASE p \in Watchers
    BY <2>1, <2>2 DEF Crash, NoDupInv, Causes
  <2>3. CASE p \notin Watchers
    <3>1. /\ marks' = marks /\ \A w \in Watchers : pc'[w] = pc[w]
          /\ \A s \in Servers : pc'[s] \in {pc[s], "off"}
      BY <2>1, <2>3 DEF Crash, Goto, TypeOK, Procs
    <3> QED  BY <3>1, NoDupKeptByServers DEF Up, Starting
  <2> QED  BY <2>2, <2>3
<1>5. CASE Replace \/ UNCHANGED vars
  BY <1>5 DEF Replace, vars, NoDupInv, Up, Starting
<1> QED  BY <1>1, <1>2, <1>3, <1>4, <1>5 DEF Next

(* NoDuplicate holds in every state: see NoDupInv.                           *)
THEOREM NoDuplicateCorrect == Spec => []NoDuplicate
<1>1. Init => TypeOK /\ LockInv /\ NoDupInv
  BY CronAssumption DEF Init, TypeOK, LockInv, NoDupInv, Holding, Up, Starting, Procs, WatchSteps,
     ServeSteps, CommandSteps
<1>2. NoDupInv => NoDuplicate
  BY DEF NoDupInv, NoDuplicate, Causes
<1> QED  BY <1>1, <1>2, TypePreserved, LockPreserved, NoDupPreserved, PTL DEF Spec
=============================================================================
