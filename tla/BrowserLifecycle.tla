-------------------------- MODULE BrowserLifecycle --------------------------
(***************************************************************************)
(* The shared headless browser of src/fetch/browser/lifecycle.rs and the   *)
(* renders of run_browser_fetch (src/mcp/tools/common.rs) that use it.     *)
(* Whoever finds no browser launches one; a task of its own drives each    *)
(* browser's connection and empties the shared slot when that ends.  A     *)
(* render may be dropped wherever it waits.                                *)
(*                                                                         *)
(* A launch is a number: the slot, the process, its driver and the handles *)
(* that renders hold are all named by the launch they belong to.           *)
(***************************************************************************)
EXTENDS Integers, FiniteSets

CONSTANTS
    Render,                 \* browser renders
    Nobody,                 \* the restart lock is free
    global_concurrency,     \* renders at a time
    MAX_RESTARTS

ASSUME BrowserAssumption ==
    /\ Nobody \notin Render
    /\ global_concurrency \in Nat \ {0}
    /\ MAX_RESTARTS \in Nat

VARIABLES
    render_pc,      \* the next step of every render
    render_browser, \* the launch whose handle it holds, or NoBrowser
    browser,        \* the shared slot
    restart_state,  \* who holds the lock on the restart count
    ever_launched,
    restarts,
    chrome,         \* the browser process of every launch
    driver,         \* the task that drives its connection
    browser_marks   \* history: which of the BrowserMarks has happened

browser_vars == <<render_pc, render_browser, browser, restart_state, ever_launched, restarts,
                  chrome, driver, browser_marks>>
launch_count == <<ever_launched, restarts>>
processes == <<chrome, driver, browser_marks>>

NoBrowser == 0
Launch == 1..(MAX_RESTARTS + 1)
RenderStep == {"idle", "queue", "look", "lock", "recheck", "start", "handle", "store", "use"}

(* wiped: a driver emptied the slot of another launch's browser;           *)
(* late: a browser was stored after its driver had emptied the slot.       *)
BrowserMarks == {"wiped", "late"}

\* The launch in progress, for the render that holds the restart lock.
ThisLaunch == restarts + 1

Rendering == {r \in Render : render_pc[r] \notin {"idle", "queue"}}
Held(n) == browser = n \/ \E r \in Render : render_browser[r] = n

BrowserInit ==
    /\ render_pc = [r \in Render |-> "idle"]
    /\ render_browser = [r \in Render |-> NoBrowser]
    /\ browser = NoBrowser
    /\ restart_state = Nobody
    /\ ever_launched = FALSE
    /\ restarts = 0
    /\ chrome = [n \in Launch |-> "none"]
    /\ driver = [n \in Launch |-> "none"]
    /\ browser_marks = {}

RenderTo(r, step) == render_pc' = [render_pc EXCEPT ![r] = step]

-----------------------------------------------------------------------------
(* run_browser_fetch: a permit for the whole render. *)

AskToRender(r) ==
    /\ render_pc[r] = "idle"
    /\ RenderTo(r, "queue")
    /\ UNCHANGED <<render_browser, browser, restart_state, launch_count, processes>>

AdmitRender(r) ==
    /\ render_pc[r] = "queue"
    /\ Cardinality(Rendering) < global_concurrency
    /\ RenderTo(r, "look")
    /\ UNCHANGED <<render_browser, browser, restart_state, launch_count, processes>>

-----------------------------------------------------------------------------
(* ensure_browser *)

TakeBrowser(r) ==
    /\ render_browser' = [render_browser EXCEPT ![r] = browser]
    /\ RenderTo(r, "use")

LookForBrowser(r) ==
    /\ render_pc[r] = "look"
    /\ IF browser # NoBrowser
       THEN TakeBrowser(r)
       ELSE RenderTo(r, "lock") /\ UNCHANGED render_browser
    /\ UNCHANGED <<browser, restart_state, launch_count, processes>>

LockRestarts(r) ==
    /\ render_pc[r] = "lock" /\ restart_state = Nobody
    /\ restart_state' = r
    /\ RenderTo(r, "recheck")
    /\ UNCHANGED <<render_browser, browser, launch_count, processes>>

\* A concurrent cold start has finished.
FoundUnderLock(r) ==
    /\ render_pc[r] = "recheck" /\ browser # NoBrowser
    /\ TakeBrowser(r)
    /\ restart_state' = Nobody
    /\ UNCHANGED <<browser, launch_count, processes>>

RestartLimitReached(r) ==
    /\ render_pc[r] = "recheck" /\ browser = NoBrowser
    /\ ever_launched /\ restarts >= MAX_RESTARTS
    /\ restart_state' = Nobody
    /\ RenderTo(r, "idle")
    /\ UNCHANGED <<render_browser, browser, launch_count, processes>>

\* MUTANT: CountLaunch as it would be without the second look.
CountLaunchBlindly(r) ==
    /\ render_pc[r] = "recheck"
    /\ ~(ever_launched /\ restarts >= MAX_RESTARTS)
    /\ ever_launched' = TRUE
    /\ restarts' = IF ever_launched THEN restarts + 1 ELSE restarts
    /\ RenderTo(r, "start")
    /\ UNCHANGED <<render_browser, browser, restart_state, processes>>

CountLaunch(r) ==
    /\ render_pc[r] = "recheck" /\ browser = NoBrowser
    /\ ~(ever_launched /\ restarts >= MAX_RESTARTS)
    /\ ever_launched' = TRUE
    /\ restarts' = IF ever_launched THEN restarts + 1 ELSE restarts
    /\ RenderTo(r, "start")
    /\ UNCHANGED <<render_browser, browser, restart_state, processes>>

-----------------------------------------------------------------------------
(* launch, under the restart lock *)

\* MUTANT: an early return that keeps the lock.
LaunchFailsLocked(r) ==
    /\ render_pc[r] = "start"
    /\ RenderTo(r, "idle")
    /\ UNCHANGED <<render_browser, browser, restart_state, launch_count, processes>>

\* No directory, no executable, or Chrome does not come up in time.
LaunchFails(r) ==
    /\ render_pc[r] = "start"
    /\ restart_state' = Nobody
    /\ RenderTo(r, "idle")
    /\ UNCHANGED <<render_browser, browser, launch_count, processes>>

Start(r, lock) ==
    /\ render_pc[r] = "start"
    /\ chrome' = [chrome EXCEPT ![ThisLaunch] = "up"]
    /\ driver' = [driver EXCEPT ![ThisLaunch] = "driving"]
    /\ render_browser' = [render_browser EXCEPT ![r] = ThisLaunch]
    /\ RenderTo(r, "handle")
    /\ restart_state' = lock
    /\ UNCHANGED <<browser, launch_count, browser_marks>>

\* MUTANT: the restart lock is not held across the launch.
StartChromeUnlocked(r) == Start(r, Nobody)

\* The process is up and its driver spawned.
StartChrome(r) == Start(r, restart_state)

StoreHandle(r) ==
    /\ render_pc[r] = "handle"
    /\ RenderTo(r, "store")
    /\ UNCHANGED <<render_browser, browser, restart_state, launch_count, processes>>

StoreBrowser(r) ==
    /\ render_pc[r] = "store"
    /\ browser' = render_browser[r]
    /\ restart_state' = Nobody
    /\ RenderTo(r, "use")
    /\ browser_marks' = IF driver[render_browser[r]] = "ended"
                        THEN browser_marks \cup {"late"} ELSE browser_marks
    /\ UNCHANGED <<render_browser, launch_count, chrome, driver>>

-----------------------------------------------------------------------------
(* The rest of a render, and its end. *)

Leave(r) ==
    /\ RenderTo(r, "idle")
    /\ render_browser' = [render_browser EXCEPT ![r] = NoBrowser]

\* Navigated, or failed to: every wait on the browser has a timeout.
FinishRender(r) ==
    /\ render_pc[r] = "use"
    /\ Leave(r)
    /\ UNCHANGED <<browser, restart_state, launch_count, processes>>

\* The call is dropped: its locks and its handle go with it.
DropRender(r) ==
    /\ render_pc[r] # "idle"
    /\ Leave(r)
    /\ restart_state' = IF restart_state = r THEN Nobody ELSE restart_state
    /\ UNCHANGED <<browser, launch_count, processes>>

-----------------------------------------------------------------------------
(* The browser process and the task that drives it. *)

\* It crashes, or is killed because the last handle was dropped.
ChromeExits(n) ==
    /\ chrome[n] = "up"
    /\ chrome' = [chrome EXCEPT ![n] = "gone"]
    /\ UNCHANGED <<render_pc, render_browser, browser, restart_state, launch_count, driver,
                   browser_marks>>

Abandoned(n) == ~Held(n) /\ ChromeExits(n)

DriverEnds(n) ==
    /\ driver[n] = "driving" /\ chrome[n] = "gone"
    /\ driver' = [driver EXCEPT ![n] = "ending"]
    /\ UNCHANGED <<render_pc, render_browser, browser, restart_state, launch_count, chrome,
                   browser_marks>>

\* MUTANT: the driver ends without a look at the slot.
DriverLeavesSlot(n) ==
    /\ driver[n] = "ending"
    /\ driver' = [driver EXCEPT ![n] = "ended"]
    /\ UNCHANGED <<render_pc, render_browser, browser, restart_state, launch_count, chrome,
                   browser_marks>>

\* Whatever is in the slot.
DriverClears(n) ==
    /\ driver[n] = "ending"
    /\ driver' = [driver EXCEPT ![n] = "ended"]
    /\ browser' = NoBrowser
    /\ browser_marks' = IF browser \notin {n, NoBrowser}
                        THEN browser_marks \cup {"wiped"} ELSE browser_marks
    /\ UNCHANGED <<render_pc, render_browser, restart_state, launch_count, chrome>>

-----------------------------------------------------------------------------
RenderMoves(r) ==
    \/ LookForBrowser(r) \/ FoundUnderLock(r) \/ RestartLimitReached(r) \/ CountLaunch(r)
    \/ LaunchFails(r) \/ StartChrome(r) \/ StoreHandle(r) \/ StoreBrowser(r)
    \/ FinishRender(r)

BrowserNext ==
    \/ \E r \in Render :
        AskToRender(r) \/ AdmitRender(r) \/ LockRestarts(r) \/ RenderMoves(r) \/ DropRender(r)
    \/ \E n \in Launch : ChromeExits(n) \/ DriverEnds(n) \/ DriverClears(n)

BrowserSpec == BrowserInit /\ [][BrowserNext]_browser_vars

(* The semaphore and the lock serve their waiters in turn; a task that can *)
(* run is run, and a browser nobody refers to is killed.                   *)
BrowserFairness ==
    /\ \A r \in Render :
        /\ SF_browser_vars(AdmitRender(r))
        /\ SF_browser_vars(LockRestarts(r))
        /\ WF_browser_vars(RenderMoves(r))
    /\ \A n \in Launch : WF_browser_vars(Abandoned(n) \/ DriverEnds(n) \/ DriverClears(n))

-----------------------------------------------------------------------------
\* Every variable has its type, and the restart lock is held exactly from the
\* second look to the end of the launch.
BrowserTypeOK ==
    /\ render_pc \in [Render -> RenderStep]
    /\ render_browser \in [Render -> Launch \cup {NoBrowser}]
    /\ browser \in Launch \cup {NoBrowser}
    /\ restart_state \in Render \cup {Nobody}
    /\ ever_launched \in BOOLEAN
    /\ restarts \in 0..MAX_RESTARTS
    /\ chrome \in [Launch -> {"none", "up", "gone"}]
    /\ driver \in [Launch -> {"none", "driving", "ending", "ended"}]
    /\ browser_marks \subseteq BrowserMarks
    /\ \A r \in Render :
        restart_state = r <=> render_pc[r] \in {"recheck", "start", "handle", "store"}

\* Renders that arrive together, and renders that find the browser dead, never
\* bring up a second one beside a live one (the second look in ensure_browser),
\* unless an earlier launch's driver has emptied the slot of the live one.
OneLiveBrowser ==
    \/ "wiped" \in browser_marks
    \/ \A m, n \in Launch : chrome[m] = "up" /\ Held(m) /\ chrome[n] = "up" /\ Held(n) => m = n

\* A render is refused for the restart limit only when no live browser is in
\* use, with the same exception: architecture/fetch.md says that ensure_browser
\* "allows exactly one restart and is safe under concurrent cold starts".
RefusedOnlyWithoutBrowser ==
    [][\A r \in Render : RestartLimitReached(r) =>
        "wiped" \in browser_marks \/ \A n \in Launch : ~(chrome[n] = "up" /\ Held(n))]_browser_vars

\* A dead browser does not stay in the slot while its driver has not emptied it
\* yet.  (One that is stored after that stays for ever: mark "late".)
DeadBrowserCleared ==
    (\E n \in Launch : browser = n /\ chrome[n] = "gone" /\ driver[n] # "ended")
        ~> (browser = NoBrowser \/ chrome[browser] = "up")

\* No render waits for ever for its permit, for the restart lock or for a
\* launch, also when launches fail and other renders are dropped halfway.
EveryRenderEnds == \A r \in Render : render_pc[r] = "queue" ~> render_pc[r] = "idle"
=============================================================================
