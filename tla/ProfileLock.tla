---------------------------- MODULE ProfileLock ----------------------------
(***************************************************************************)
(* The lock file of a persistent browser profile (ProfileLock in           *)
(* src/fetch/browser/profiles.rs), which web_fetch takes before it renders *)
(* with the profile and keeps until it returns.  The requests belong to    *)
(* any number of server processes.  A file is an inode: flock locks the    *)
(* inode that was opened, remove_file removes the name.                    *)
(***************************************************************************)
EXTENDS FiniteSets

CONSTANTS
    Request,    \* web_fetch requests for the profile
    LockFile,   \* inodes that the lock file may have
    NoFile,     \* the name does not exist; nothing is open
    Unlocked    \* nobody has the flock

ASSUME ProfileAssumption == NoFile \notin LockFile /\ Unlocked \notin Request

VARIABLES
    profile_pc,     \* "out", "opened", "locked" or "unlocked"
    lock_path,      \* the inode that the name .lock refers to
    lock_file,      \* the inode every request has open
    flock,          \* who has the flock of an inode
    undercut        \* history: the name was removed while another request had the file open

profile_vars == <<profile_pc, lock_path, lock_file, flock, undercut>>

ProfileInit ==
    /\ profile_pc = [r \in Request |-> "out"]
    /\ lock_path = NoFile
    /\ lock_file = [r \in Request |-> NoFile]
    /\ flock = [f \in LockFile |-> Unlocked]
    /\ undercut = FALSE

ProfileStep(r, from, to) ==
    profile_pc[r] = from /\ profile_pc' = [profile_pc EXCEPT ![r] = to]

Unused(f) == f # lock_path /\ \A r \in Request : lock_file[r] # f

-----------------------------------------------------------------------------
(* try_acquire *)

\* open with create(true): the file of that name, or a new one.
OpenLock(r) ==
    /\ ProfileStep(r, "out", "opened")
    /\ \E f \in LockFile :
        /\ IF lock_path = NoFile THEN Unused(f) ELSE f = lock_path
        /\ lock_path' = f
        /\ lock_file' = [lock_file EXCEPT ![r] = f]
    /\ UNCHANGED <<flock, undercut>>

\* MUTANT: what flock returns is not looked at.
FlockAnyway(r) ==
    /\ ProfileStep(r, "opened", "locked")
    /\ flock' = [flock EXCEPT ![lock_file[r]] = r]
    /\ UNCHANGED <<lock_path, lock_file, undercut>>

\* LOCK_EX | LOCK_NB: locked, or ProfileBusy.
Flock(r) ==
    \/ /\ ProfileStep(r, "opened", "locked")
       /\ flock[lock_file[r]] = Unlocked
       /\ flock' = [flock EXCEPT ![lock_file[r]] = r]
       /\ UNCHANGED <<lock_path, lock_file, undercut>>
    \/ /\ ProfileStep(r, "opened", "out")
       /\ flock[lock_file[r]] # Unlocked
       /\ lock_file' = [lock_file EXCEPT ![r] = NoFile]
       /\ UNCHANGED <<lock_path, flock, undercut>>

-----------------------------------------------------------------------------
(* drop, when the request is over *)

\* What closing the file does, also for a process that is killed.
CloseLock(r) ==
    /\ lock_file' = [lock_file EXCEPT ![r] = NoFile]
    /\ flock' = [f \in LockFile |-> IF flock[f] = r THEN Unlocked ELSE flock[f]]

\* LOCK_UN, and the file is closed.
UnlockProfile(r) ==
    /\ ProfileStep(r, "locked", "unlocked")
    /\ CloseLock(r)
    /\ UNCHANGED <<lock_path, undercut>>

\* remove_file: whatever the name refers to by now.
RemoveLock(r) ==
    /\ ProfileStep(r, "unlocked", "out")
    /\ lock_path' = NoFile
    /\ undercut' = (undercut \/ \E q \in Request : lock_path # NoFile /\ lock_file[q] = lock_path)
    /\ UNCHANGED <<lock_file, flock>>

KillRequest(r) ==
    /\ profile_pc[r] # "out"
    /\ profile_pc' = [profile_pc EXCEPT ![r] = "out"]
    /\ CloseLock(r)
    /\ UNCHANGED <<lock_path, undercut>>

ProfileNext ==
    \E r \in Request :
        OpenLock(r) \/ Flock(r) \/ UnlockProfile(r) \/ RemoveLock(r) \/ KillRequest(r)

ProfileSpec == ProfileInit /\ [][ProfileNext]_profile_vars

-----------------------------------------------------------------------------
\* Every variable has its type; a request has a file open exactly while it
\* tries for the lock or has it, and the flock exactly while it has it.
ProfileTypeOK ==
    /\ profile_pc \in [Request -> {"out", "opened", "locked", "unlocked"}]
    /\ lock_path \in LockFile \cup {NoFile}
    /\ lock_file \in [Request -> LockFile \cup {NoFile}]
    /\ flock \in [LockFile -> Request \cup {Unlocked}]
    /\ undercut \in BOOLEAN
    /\ \A r \in Request :
        /\ lock_file[r] # NoFile <=> profile_pc[r] \in {"opened", "locked"}
        /\ \A f \in LockFile : flock[f] = r <=> profile_pc[r] = "locked" /\ lock_file[r] = f

\* docs/safety.md: "Persistent fetches are request-scoped and serialized by the
\* profile lock".  They are until a request removes the lock file after another
\* one has opened it: that one's lock then has no name any more, and the next
\* request makes a lock file of its own.
ProfileExclusive ==
    undercut \/ \A q, r \in Request : profile_pc[q] = "locked" /\ profile_pc[r] = "locked" => q = r
=============================================================================
