---------------------------- MODULE MCCronWatch ----------------------------
(* Instances of CronWatch for TLC. *)
EXTENDS CronWatch

CONSTANTS w1, w2, s1, s2, c1

(* Either commands are entered, or a process is killed or replaced. *)
MCInit ==
  /\ crontab \in BOOLEAN
  /\ port = None /\ record = None /\ lock = None
  /\ written = {}
  /\ pc \in {[p \in Procs |-> IF p \in S THEN "new" ELSE "off"] : S \in SUBSET Commands}
  /\ seen = [p \in Procs |-> None]
  /\ replaced = {}
  /\ crashes = IF \E c \in Commands : pc[c] = "new" THEN MaxCrashes ELSE 0
  /\ marks = {}
MCSpec == MCInit /\ [][Next]_vars /\ Fairness
=============================================================================
