--------------------------- MODULE ProcessProofs ----------------------------
(***************************************************************************)
(* Proofs about the parts of the server that own processes and files: the  *)
(* shared browser and the locks of its profiles, a bounded command, and    *)
(* the update of the executable; for any number of callers.                *)
(***************************************************************************)
EXTENDS BrowserLifecycle, ProfileLock, BoundedCommand, Update, TLAPS

-----------------------------------------------------------------------------
(* Type correctness.                                                       *)

LEMMA BrowserInitTyped == BrowserInit => BrowserTypeOK
<1>1. 0 \in 0..MAX_RESTARTS
  BY BrowserAssumption
<1> QED  BY <1>1, BrowserAssumption DEF BrowserInit, BrowserTypeOK, RenderStep

LEMMA LaunchTyped ==
    ASSUME BrowserTypeOK
    PROVE  ThisLaunch \in Launch /\ ThisLaunch # NoBrowser /\ NoBrowser \notin Launch
  BY BrowserAssumption DEF BrowserTypeOK, ThisLaunch, Launch, NoBrowser

LEMMA WaitTyped ==
    ASSUME BrowserTypeOK, NEW r \in Render,
           AskToRender(r) \/ AdmitRender(r) \/ LockRestarts(r) \/ DropRender(r)
    PROVE  BrowserTypeOK'
<1> USE BrowserAssumption DEF BrowserTypeOK, RenderTo, RenderStep, launch_count, processes
<1>1. CASE AskToRender(r) \/ AdmitRender(r)
  BY <1>1 DEF AskToRender, AdmitRender
<1>2. CASE LockRestarts(r)
  BY <1>2 DEF LockRestarts
<1>3. CASE DropRender(r)
  BY <1>3 DEF DropRender, Leave
<1> QED  BY <1>1, <1>2, <1>3

LEMMA MoveTyped ==
    ASSUME BrowserTypeOK, NEW r \in Render, RenderMoves(r)
    PROVE  BrowserTypeOK'
<1> USE BrowserAssumption DEF BrowserTypeOK, RenderTo, RenderStep, launch_count, processes
<1>1. CASE LookForBrowser(r) \/ FoundUnderLock(r)
  BY <1>1 DEF LookForBrowser, FoundUnderLock, TakeBrowser
<1>2. CASE RestartLimitReached(r) \/ LaunchFails(r)
  BY <1>2 DEF RestartLimitReached, LaunchFails
<1>3. CASE CountLaunch(r)
  BY <1>3 DEF CountLaunch
<1>4. CASE StartChrome(r)
  BY <1>4, LaunchTyped DEF StartChrome, Start
<1>5. CASE StoreHandle(r)
  BY <1>5 DEF StoreHandle
<1>6. CASE StoreBrowser(r)
  BY <1>6 DEF StoreBrowser, BrowserMarks
<1>7. CASE FinishRender(r)
  BY <1>7 DEF FinishRender, Leave
<1> QED  BY <1>1, <1>2, <1>3, <1>4, <1>5, <1>6, <1>7 DEF RenderMoves

LEMMA ProcessTyped ==
    ASSUME BrowserTypeOK, NEW n \in Launch, ChromeExits(n) \/ DriverEnds(n) \/ DriverClears(n)
    PROVE  BrowserTypeOK'
  BY DEF BrowserTypeOK, ChromeExits, DriverEnds, DriverClears, BrowserMarks, launch_count

LEMMA BrowserTypePreserved == BrowserTypeOK /\ [BrowserNext]_browser_vars => BrowserTypeOK'
<1> SUFFICES ASSUME BrowserTypeOK, [BrowserNext]_browser_vars PROVE BrowserTypeOK'
  OBVIOUS
<1>1. CASE UNCHANGED browser_vars
  BY <1>1 DEF browser_vars, BrowserTypeOK
<1> QED  BY <1>1, WaitTyped, MoveTyped, ProcessTyped DEF BrowserNext

(* The lifecycle keeps its types, and the restart lock is held exactly     *)
(* from the second look in ensure_browser to the end of the launch.        *)
THEOREM BrowserTypeCorrect == BrowserSpec => []BrowserTypeOK
  BY BrowserInitTyped, BrowserTypePreserved, PTL DEF BrowserSpec

-----------------------------------------------------------------------------
(* Launches.  A render that is launching a browser, or has launched one    *)
(* and not stored it yet.                                                  *)
Launching(r) == render_pc[r] \in {"start", "handle", "store"}
Unstored(r) == render_pc[r] \in {"handle", "store"}

(* No launch has a number yet that is beyond the one under way.            *)
NumberInv ==
    /\ browser <= ThisLaunch /\ \A r \in Render : render_browser[r] <= ThisLaunch
    /\ ~ever_launched =>
        restarts = 0 /\ browser = NoBrowser /\ \A r \in Render : render_browser[r] = NoBrowser

(* While a render launches the slot is empty, and nobody else holds the    *)
(* browser that it launches.                                               *)
LaunchInv ==
    \A r \in Render :
        /\ Launching(r) => browser = NoBrowser
        /\ Launching(r) => \A q \in Render \ {r} : render_browser[q] # ThisLaunch
        /\ Unstored(r) => render_browser[r] = ThisLaunch
        /\ Launching(r) => ever_launched

(* A driver ends after its process.                                        *)
DriverInv == \A n \in Launch : driver[n] \in {"ending", "ended"} => chrome[n] = "gone"

(* A live browser that somebody refers to is in the slot, or about to be   *)
(* put there, unless the driver of another one has emptied the slot.       *)
LiveInv ==
    \/ "wiped" \in browser_marks
    \/ \A n \in Launch : chrome[n] = "up" /\ Held(n) =>
        browser = n \/ \E r \in Render : Unstored(r) /\ render_browser[r] = n

BrowserInv == NumberInv /\ LaunchInv /\ DriverInv /\ LiveInv

LEMMA BrowserInvInit == BrowserInit => BrowserInv
  BY BrowserAssumption DEF BrowserInit, BrowserInv, NumberInv, LaunchInv, DriverInv, LiveInv, Held,
     Launching, Unstored, ThisLaunch, NoBrowser, Launch

(* Only one render has the restart lock.                                   *)
LEMMA OneLaunches ==
    ASSUME BrowserTypeOK, NEW q \in Render, NEW r \in Render, Launching(q),
           Launching(r) \/ render_pc[r] = "recheck"
    PROVE  q = r
  BY DEF BrowserTypeOK, Launching

-----------------------------------------------------------------------------
(* A step of a render that takes no handle, and launches nothing.          *)
LEMMA QuietKeeps ==
    ASSUME BrowserTypeOK, BrowserInv, NEW r \in Render,
           NEW step \in {"idle", "queue", "look", "lock", "recheck"}, RenderTo(r, step),
           ~Unstored(r),
           UNCHANGED <<render_browser, browser, launch_count, processes>>
    PROVE  BrowserInv'
<1>1. /\ ~Launching(r)' /\ ~Unstored(r)'
      /\ \A q \in Render \ {r} : (Launching(q)' <=> Launching(q)) /\ (Unstored(q)' <=> Unstored(q))
  BY DEF RenderTo, BrowserTypeOK, Launching, Unstored
<1>2. UNCHANGED <<render_browser, browser, ever_launched, restarts, chrome, driver, browser_marks>>
  BY DEF launch_count, processes
<1>3. NumberInv' /\ DriverInv'
  BY <1>2 DEF BrowserInv, NumberInv, DriverInv, ThisLaunch
<1>4. LaunchInv'
  BY <1>1, <1>2 DEF BrowserInv, LaunchInv, ThisLaunch
<1>5. LiveInv'
  BY <1>1, <1>2 DEF BrowserInv, LiveInv, Held
<1> QED  BY <1>3, <1>4, <1>5 DEF BrowserInv

(* A render takes the browser it finds in the slot.                        *)
LEMMA TakeKeeps ==
    ASSUME BrowserTypeOK, BrowserInv, NEW r \in Render, browser # NoBrowser,
           render_pc[r] \in {"look", "recheck"}, TakeBrowser(r),
           UNCHANGED <<browser, launch_count, processes>>
    PROVE  BrowserInv'
<1>1. \A q \in Render : ~Launching(q)
  BY DEF BrowserInv, LaunchInv
<1>2. \A q \in Render : ~Launching(q)' /\ ~Unstored(q) /\ ~Unstored(q)'
  BY <1>1 DEF TakeBrowser, RenderTo, BrowserTypeOK, Launching, Unstored
<1>3. UNCHANGED <<browser, ever_launched, restarts, chrome, driver, browser_marks>>
  BY DEF launch_count, processes
<1>4. render_browser' = [render_browser EXCEPT ![r] = browser]
  BY DEF TakeBrowser
<1>5. NumberInv' /\ DriverInv'
  BY <1>3, <1>4 DEF BrowserInv, NumberInv, DriverInv, ThisLaunch, BrowserTypeOK
<1>6. LaunchInv'
  BY <1>2 DEF LaunchInv
<1>7. \A n \in Launch : Held(n)' => Held(n)
  BY <1>3, <1>4 DEF Held, BrowserTypeOK
<1>8. LiveInv'
  BY <1>2, <1>3, <1>7 DEF BrowserInv, LiveInv
<1> QED  BY <1>5, <1>6, <1>8 DEF BrowserInv

LEMMA CountKeeps ==
    ASSUME BrowserTypeOK, BrowserInv, NEW r \in Render, CountLaunch(r)
    PROVE  BrowserInv'
<1> USE DEF BrowserTypeOK, NoBrowser, Launch
<1>1. /\ UNCHANGED <<render_browser, browser, chrome, driver, browser_marks>>
      /\ render_pc' = [render_pc EXCEPT ![r] = "start"]
      /\ ever_launched' /\ browser = NoBrowser
      /\ restarts' = IF ever_launched THEN restarts + 1 ELSE restarts
  BY DEF CountLaunch, processes, RenderTo
<1>2. /\ browser < ThisLaunch' /\ ThisLaunch <= ThisLaunch'
      /\ \A q \in Render : render_browser[q] < ThisLaunch'
  <2>1. restarts \in Nat /\ \A q \in Render : render_browser[q] \in Nat
    BY BrowserAssumption
  <2>2. CASE ever_launched
    BY <1>1, <2>1, <2>2 DEF ThisLaunch, BrowserInv, NumberInv
  <2>3. CASE ~ever_launched
    BY <1>1, <2>1, <2>3 DEF ThisLaunch, BrowserInv, NumberInv
  <2> QED  BY <2>2, <2>3
<1>3. /\ \A q \in Render \ {r} : ~Launching(q) /\ ~Launching(q)' /\ ~Unstored(q)'
      /\ \A q \in Render : ~Unstored(q) /\ ~Unstored(q)'
      /\ Launching(r)'
  BY <1>1, OneLaunches DEF CountLaunch, Launching, Unstored
<1>4. NumberInv'
  BY <1>1, <1>2, BrowserAssumption DEF NumberInv, ThisLaunch
<1>5. LaunchInv'
  <2>1. \A q \in Render : render_browser'[q] # ThisLaunch'
    BY <1>1, <1>2, BrowserAssumption DEF ThisLaunch
  <2> QED  BY <1>1, <1>3, <2>1 DEF LaunchInv
<1>6. DriverInv' /\ LiveInv'
  BY <1>1, <1>3 DEF BrowserInv, DriverInv, LiveInv, Held
<1> QED  BY <1>4, <1>5, <1>6 DEF BrowserInv

LEMMA StartKeeps ==
    ASSUME BrowserTypeOK, BrowserInv, NEW r \in Render, StartChrome(r)
    PROVE  BrowserInv'
<1>1. /\ render_pc[r] = "start" /\ render_pc' = [render_pc EXCEPT ![r] = "handle"]
      /\ chrome' = [chrome EXCEPT ![ThisLaunch] = "up"]
      /\ driver' = [driver EXCEPT ![ThisLaunch] = "driving"]
      /\ render_browser' = [render_browser EXCEPT ![r] = ThisLaunch]
      /\ UNCHANGED <<browser, ever_launched, restarts, browser_marks>>
  BY DEF StartChrome, Start, RenderTo, launch_count
<1>2. /\ Launching(r) /\ Launching(r)' /\ Unstored(r)' /\ browser = NoBrowser
      /\ \A q \in Render \ {r} : ~Launching(q) /\ ~Launching(q)' /\ ~Unstored(q)'
      /\ \A q \in Render : ~Unstored(q)
  BY <1>1, OneLaunches DEF BrowserInv, LaunchInv, Launching, Unstored, BrowserTypeOK
<1>3. ThisLaunch' = ThisLaunch /\ ThisLaunch \in Launch /\ render_browser'[r] = ThisLaunch
  BY <1>1, LaunchTyped DEF ThisLaunch, BrowserTypeOK
<1>4. NumberInv'
  BY <1>1, <1>2, <1>3, BrowserAssumption
     DEF BrowserInv, NumberInv, LaunchInv, BrowserTypeOK, ThisLaunch
<1>5. LaunchInv'
  BY <1>1, <1>2, <1>3 DEF BrowserInv, LaunchInv, BrowserTypeOK
<1>6. DriverInv'
  BY <1>1, <1>3 DEF BrowserInv, DriverInv, BrowserTypeOK
<1>7. LiveInv'
  <2> SUFFICES ASSUME "wiped" \notin browser_marks,
                      NEW n \in Launch, n # ThisLaunch, chrome'[n] = "up", Held(n)'
               PROVE  FALSE
    BY <1>1, <1>2, <1>3 DEF LiveInv
  <2>1. chrome[n] = "up" /\ Held(n)
    BY <1>1, <1>3 DEF Held, BrowserTypeOK
  <2>2. n # NoBrowser
    BY LaunchTyped
  <2> QED  BY <1>2, <2>1, <2>2 DEF BrowserInv, LiveInv
<1> QED  BY <1>4, <1>5, <1>6, <1>7 DEF BrowserInv

LEMMA StoreHandleKeeps ==
    ASSUME BrowserTypeOK, BrowserInv, NEW r \in Render, StoreHandle(r)
    PROVE  BrowserInv'
<1>1. /\ UNCHANGED <<render_browser, browser, ever_launched, restarts, chrome, driver, browser_marks>>
      /\ \A q \in Render : (Launching(q)' <=> Launching(q)) /\ (Unstored(q)' <=> Unstored(q))
  BY DEF StoreHandle, RenderTo, launch_count, processes, BrowserTypeOK, Launching, Unstored
<1>2. NumberInv' /\ DriverInv'
  BY <1>1 DEF BrowserInv, NumberInv, DriverInv, ThisLaunch
<1>3. LaunchInv' /\ LiveInv'
  BY <1>1 DEF BrowserInv, LaunchInv, LiveInv, Held, ThisLaunch
<1> QED  BY <1>2, <1>3 DEF BrowserInv

LEMMA StoreKeeps ==
    ASSUME BrowserTypeOK, BrowserInv, NEW r \in Render, StoreBrowser(r)
    PROVE  BrowserInv'
<1>1. /\ render_pc[r] = "store" /\ render_pc' = [render_pc EXCEPT ![r] = "use"]
      /\ browser' = render_browser[r]
      /\ UNCHANGED <<render_browser, ever_launched, restarts, chrome, driver>>
      /\ "wiped" \in browser_marks' <=> "wiped" \in browser_marks
  BY DEF StoreBrowser, RenderTo, launch_count
<1>2. /\ Launching(r) /\ Unstored(r) /\ browser = NoBrowser /\ render_browser[r] = ThisLaunch
      /\ ever_launched
  BY <1>1 DEF BrowserInv, LaunchInv, Launching, Unstored
<1>3. \A q \in Render : ~Launching(q)' /\ ~Unstored(q)' /\ (Unstored(q) => q = r)
  BY <1>1, <1>2, OneLaunches DEF Launching, Unstored, BrowserTypeOK
<1>4. NumberInv'
  BY <1>1, <1>2, BrowserAssumption DEF BrowserInv, NumberInv, ThisLaunch, BrowserTypeOK
<1>5. LaunchInv' /\ DriverInv'
  BY <1>1, <1>3 DEF BrowserInv, LaunchInv, DriverInv
<1>6. LiveInv'
  <2> SUFFICES ASSUME "wiped" \notin browser_marks, NEW n \in Launch, chrome[n] = "up", Held(n)'
               PROVE  n = render_browser[r]
    BY <1>1 DEF LiveInv
  <2>1. Held(n)
    BY <1>1 DEF Held
  <2>2. n # NoBrowser
    BY LaunchTyped
  <2> QED  BY <1>2, <1>3, <2>1, <2>2 DEF BrowserInv, LiveInv
<1> QED  BY <1>4, <1>5, <1>6 DEF BrowserInv

(* A render ends, wherever it is.                                          *)
LEMMA LeaveKeeps ==
    ASSUME BrowserTypeOK, BrowserInv, NEW r \in Render, Leave(r),
           UNCHANGED <<browser, launch_count, processes>>
    PROVE  BrowserInv'
<1>1. /\ render_pc' = [render_pc EXCEPT ![r] = "idle"]
      /\ render_browser' = [render_browser EXCEPT ![r] = NoBrowser]
      /\ UNCHANGED <<browser, ever_launched, restarts, chrome, driver, browser_marks>>
  BY DEF Leave, RenderTo, launch_count, processes
<1>2. /\ ~Launching(r)' /\ ~Unstored(r)'
      /\ \A q \in Render \ {r} : (Launching(q)' <=> Launching(q)) /\ (Unstored(q)' <=> Unstored(q))
  BY <1>1 DEF BrowserTypeOK, Launching, Unstored
<1>3. NumberInv' /\ DriverInv'
  BY <1>1, BrowserAssumption
     DEF BrowserInv, NumberInv, DriverInv, ThisLaunch, BrowserTypeOK, NoBrowser
<1>4. LaunchInv'
  BY <1>1, <1>2, LaunchTyped DEF BrowserInv, LaunchInv, ThisLaunch, BrowserTypeOK
<1>5. LiveInv'
  <2> SUFFICES ASSUME "wiped" \notin browser_marks, NEW n \in Launch, chrome[n] = "up", Held(n)'
               PROVE  browser = n \/ \E q \in Render : Unstored(q)' /\ render_browser'[q] = n
    BY <1>1 DEF LiveInv
  <2>1. Held(n) /\ (browser = n \/ \E q \in Render \ {r} : render_browser[q] = n)
    BY <1>1, LaunchTyped DEF Held, BrowserTypeOK
  <2>2. CASE \E q \in Render : Unstored(q) /\ render_browser[q] = n
    <3>1. PICK q \in Render : Unstored(q) /\ render_browser[q] = n
      BY <2>2
    <3>2. browser = NoBrowser /\ n = ThisLaunch
             /\ \A p \in Render \ {q} : render_browser[p] # ThisLaunch
      BY <3>1 DEF BrowserInv, LaunchInv, Launching, Unstored
    <3>3. q # r
      BY <2>1, <3>2, LaunchTyped
    <3> QED  BY <1>1, <1>2, <3>1, <3>3 DEF BrowserTypeOK
  <2> QED  BY <2>1, <2>2 DEF BrowserInv, LiveInv
<1> QED  BY <1>3, <1>4, <1>5 DEF BrowserInv

LEMMA ProcessKeeps ==
    ASSUME BrowserTypeOK, BrowserInv, NEW n \in Launch,
           ChromeExits(n) \/ DriverEnds(n) \/ DriverClears(n)
    PROVE  BrowserInv'
<1>1. /\ UNCHANGED <<render_pc, render_browser, ever_launched, restarts>>
      /\ \A m \in Launch : chrome'[m] = "up" => chrome[m] = "up"
      /\ "wiped" \in browser_marks => "wiped" \in browser_marks'
      /\ browser' \in {browser, NoBrowser}
  BY DEF ChromeExits, DriverEnds, DriverClears, launch_count, BrowserTypeOK
<1>2. NumberInv'
  BY <1>1, BrowserAssumption DEF BrowserInv, NumberInv, ThisLaunch, BrowserTypeOK, NoBrowser
<1>3. LaunchInv'
  BY <1>1 DEF BrowserInv, LaunchInv, Launching, Unstored, ThisLaunch
<1>4. DriverInv'
  BY DEF ChromeExits, DriverEnds, DriverClears, BrowserInv, DriverInv, BrowserTypeOK
<1>5. LiveInv'
  <2> SUFFICES ASSUME "wiped" \notin browser_marks', NEW m \in Launch, chrome'[m] = "up", Held(m)'
               PROVE  browser' = m \/ \E q \in Render : Unstored(q) /\ render_browser[q] = m
    BY <1>1 DEF LiveInv, Unstored
  <2>1. chrome[m] = "up" /\ Held(m) /\ "wiped" \notin browser_marks
    BY <1>1, LaunchTyped DEF Held
  <2>2. browser = m => browser' = m
    <3>1. CASE DriverClears(n)
      BY <2>1, <3>1, LaunchTyped DEF DriverClears, BrowserInv, DriverInv
    <3>2. CASE ~DriverClears(n)
      BY <3>2 DEF ChromeExits, DriverEnds
    <3> QED  BY <3>1, <3>2
  <2> QED  BY <2>1, <2>2 DEF BrowserInv, LiveInv
<1> QED  BY <1>2, <1>3, <1>4, <1>5 DEF BrowserInv

LEMMA BrowserInvStep == BrowserTypeOK /\ BrowserInv /\ [BrowserNext]_browser_vars => BrowserInv'
<1> SUFFICES ASSUME BrowserTypeOK, BrowserInv, [BrowserNext]_browser_vars PROVE BrowserInv'
  OBVIOUS
<1>1. ASSUME NEW r \in Render,
             \/ AskToRender(r) \/ AdmitRender(r) \/ LockRestarts(r)
             \/ RestartLimitReached(r) \/ LaunchFails(r)
      PROVE  BrowserInv'
  <2>1. /\ ~Unstored(r) /\ UNCHANGED <<render_browser, browser, launch_count, processes>>
        /\ \E step \in {"idle", "queue", "look", "lock", "recheck"} : RenderTo(r, step)
    BY <1>1 DEF AskToRender, AdmitRender, LockRestarts, RestartLimitReached, LaunchFails, Unstored
  <2> QED  BY <2>1, QuietKeeps
<1>2. ASSUME NEW r \in Render, LookForBrowser(r) PROVE BrowserInv'
  <2>1. CASE browser # NoBrowser
    BY <1>2, <2>1, TakeKeeps DEF LookForBrowser
  <2>2. CASE browser = NoBrowser
    BY <1>2, <2>2, QuietKeeps DEF LookForBrowser, Unstored
  <2> QED  BY <2>1, <2>2
<1>3. ASSUME NEW r \in Render, FoundUnderLock(r) PROVE BrowserInv'
  BY <1>3, TakeKeeps DEF FoundUnderLock
<1>4. ASSUME NEW r \in Render, FinishRender(r) \/ DropRender(r) PROVE BrowserInv'
  BY <1>4, LeaveKeeps DEF FinishRender, DropRender
<1>5. CASE UNCHANGED browser_vars
  BY <1>5 DEF browser_vars, BrowserInv, NumberInv, LaunchInv, DriverInv, LiveInv, Held,
     Launching, Unstored, ThisLaunch
<1> QED  BY <1>1, <1>2, <1>3, <1>4, <1>5, CountKeeps, StartKeeps, StoreHandleKeeps, StoreKeeps,
            ProcessKeeps DEF BrowserNext, RenderMoves

LEMMA BrowserAlways == BrowserSpec => [](BrowserTypeOK /\ BrowserInv)
  BY BrowserInitTyped, BrowserTypePreserved, BrowserInvInit, BrowserInvStep, PTL DEF BrowserSpec

-----------------------------------------------------------------------------
(* Renders that arrive together or find the browser dead never bring up a  *)
(* second one beside a live one, unless a driver has emptied the slot of a *)
(* browser that is not its own.                                            *)
THEOREM OneLiveCorrect == BrowserSpec => []OneLiveBrowser
<1>1. BrowserTypeOK /\ BrowserInv => OneLiveBrowser
  <2> SUFFICES ASSUME BrowserTypeOK, BrowserInv, "wiped" \notin browser_marks,
                      NEW m \in Launch, NEW n \in Launch,
                      chrome[m] = "up", Held(m), chrome[n] = "up", Held(n)
               PROVE  m = n
    BY DEF OneLiveBrowser
  <2>1. ASSUME NEW k \in Launch, chrome[k] = "up", Held(k)
        PROVE  k = IF browser = NoBrowser THEN ThisLaunch ELSE browser
    BY <2>1, LaunchTyped DEF BrowserInv, LiveInv, LaunchInv, Launching, Unstored
  <2> QED  BY <2>1
<1> QED  BY <1>1, BrowserAlways, PTL

(* A render is refused for the restart limit only when no live browser is  *)
(* in use, with the same exception.                                        *)
THEOREM RefusalCorrect == BrowserSpec => RefusedOnlyWithoutBrowser
<1>1. ASSUME BrowserTypeOK, BrowserInv, NEW r \in Render, RestartLimitReached(r),
             "wiped" \notin browser_marks, NEW n \in Launch, chrome[n] = "up", Held(n)
      PROVE  FALSE
  <2>1. browser = NoBrowser /\ render_pc[r] = "recheck" /\ n # NoBrowser
    BY <1>1, LaunchTyped DEF RestartLimitReached
  <2>2. \A q \in Render : ~Unstored(q)
    BY <2>1, <1>1, OneLaunches DEF Launching, Unstored
  <2> QED  BY <1>1, <2>1, <2>2 DEF BrowserInv, LiveInv
<1>2. BrowserTypeOK /\ BrowserInv =>
        [\A r \in Render : RestartLimitReached(r) =>
            "wiped" \in browser_marks \/ \A n \in Launch : ~(chrome[n] = "up" /\ Held(n))]_browser_vars
  BY <1>1
<1> QED  BY <1>2, BrowserAlways, PTL DEF RefusedOnlyWithoutBrowser

-----------------------------------------------------------------------------
(* The slot keeps a browser whose driver has ended only if it was stored   *)
(* after that, and every process has got a driver.                         *)
SlotInv ==
    /\ \A n \in Launch : browser = n /\ driver[n] = "ended" => "late" \in browser_marks
    /\ \A n \in Launch : chrome[n] # "none" => driver[n] # "none"

LEMMA SlotInvStep == BrowserTypeOK /\ SlotInv /\ [BrowserNext]_browser_vars => SlotInv'
<1> SUFFICES ASSUME BrowserTypeOK, SlotInv, [BrowserNext]_browser_vars PROVE SlotInv'
  OBVIOUS
<1>n. NoBrowser \notin Launch
  BY LaunchTyped
<1> USE DEF BrowserTypeOK, SlotInv
<1>1. ASSUME NEW r \in Render, RenderMoves(r) PROVE SlotInv'
  <2>1. CASE StartChrome(r)
    BY <2>1, LaunchTyped DEF StartChrome, Start
  <2>2. CASE StoreBrowser(r)
    BY <2>2 DEF StoreBrowser, launch_count, processes
  <2>3. CASE ~StartChrome(r) /\ ~StoreBrowser(r)
    BY <1>1, <2>3 DEF RenderMoves, LookForBrowser, FoundUnderLock, RestartLimitReached, CountLaunch,
       LaunchFails, StoreHandle, FinishRender, processes
  <2> QED  BY <2>1, <2>2, <2>3
<1>2. ASSUME NEW r \in Render, AskToRender(r) \/ AdmitRender(r) \/ LockRestarts(r) \/ DropRender(r)
      PROVE  SlotInv'
  BY <1>2 DEF AskToRender, AdmitRender, LockRestarts, DropRender, processes
<1>3. ASSUME NEW n \in Launch, ChromeExits(n) \/ DriverEnds(n) \/ DriverClears(n) PROVE SlotInv'
  BY <1>3, <1>n DEF ChromeExits, DriverEnds, DriverClears
<1>4. CASE UNCHANGED browser_vars
  BY <1>4 DEF browser_vars
<1> QED  BY <1>1, <1>2, <1>3, <1>4 DEF BrowserNext

(* The safety half of DeadBrowserCleared: whenever the slot holds a dead   *)
(* browser, the driver that will empty it has not ended yet, unless the    *)
(* browser was stored after its driver had emptied the slot.               *)
THEOREM DeadHasDriver ==
    BrowserSpec => [](\A n \in Launch : browser = n /\ chrome[n] = "gone" =>
                        driver[n] \in {"driving", "ending"} \/ "late" \in browser_marks)
<1>1. BrowserInit => SlotInv
  BY LaunchTyped, BrowserInitTyped DEF BrowserInit, SlotInv
<1>2. BrowserTypeOK /\ SlotInv =>
        \A n \in Launch : browser = n /\ chrome[n] = "gone" =>
            driver[n] \in {"driving", "ending"} \/ "late" \in browser_marks
  BY DEF BrowserTypeOK, SlotInv
<1> QED  BY <1>1, <1>2, SlotInvStep, BrowserInitTyped, BrowserTypePreserved, PTL DEF BrowserSpec

-----------------------------------------------------------------------------
(* Until a name is removed under somebody, every open lock file is the one *)
(* that the name refers to.                                                *)
NameInv ==
    undercut \/ \A r \in Request : lock_file[r] # NoFile => lock_file[r] = lock_path

ProfileInv == ProfileTypeOK /\ NameInv

LEMMA ProfileInvInit == ProfileInit => ProfileInv
  BY ProfileAssumption DEF ProfileInit, ProfileInv, ProfileTypeOK, NameInv

(* Closing the file of a request gives up its flock and nobody else's.     *)
LEMMA CloseTyped ==
    ASSUME ProfileTypeOK, NEW r \in Request, CloseLock(r)
    PROVE  /\ lock_file' \in [Request -> LockFile \cup {NoFile}]
           /\ flock' \in [LockFile -> Request \cup {Unlocked}]
           /\ lock_file'[r] = NoFile /\ \A f \in LockFile : flock'[f] # r
           /\ \A q \in Request \ {r} :
                /\ lock_file'[q] = lock_file[q]
                /\ \A f \in LockFile : flock'[f] = q <=> flock[f] = q
  BY ProfileAssumption DEF ProfileTypeOK, CloseLock

LEMMA ProfileInvStep == ProfileInv /\ [ProfileNext]_profile_vars => ProfileInv'
<1> SUFFICES ASSUME ProfileInv, [ProfileNext]_profile_vars PROVE ProfileInv'
  OBVIOUS
<1> USE ProfileAssumption DEF ProfileInv, ProfileStep
<1>1. ASSUME NEW r \in Request, OpenLock(r) PROVE ProfileInv'
  <2>1. PICK f \in LockFile :
            /\ IF lock_path = NoFile THEN Unused(f) ELSE f = lock_path
            /\ lock_path' = f
            /\ lock_file' = [lock_file EXCEPT ![r] = f]
    BY <1>1 DEF OpenLock
  <2>2. \A g \in LockFile : flock[g] # r
    BY <1>1 DEF OpenLock, ProfileTypeOK
  <2>3. ProfileTypeOK'
    BY <1>1, <2>1, <2>2 DEF OpenLock, ProfileTypeOK
  <2>4. NameInv'
    BY <1>1, <2>1 DEF OpenLock, ProfileTypeOK, NameInv
  <2> QED  BY <2>3, <2>4
<1>2. ASSUME NEW r \in Request, Flock(r) PROVE ProfileInv'
  <2>1. lock_file[r] \in LockFile
    BY <1>2 DEF Flock, ProfileTypeOK
  <2>2. ProfileTypeOK'
    BY <1>2, <2>1 DEF Flock, ProfileTypeOK
  <2>3. NameInv'
    BY <1>2 DEF Flock, ProfileTypeOK, NameInv
  <2> QED  BY <2>2, <2>3
<1>3. ASSUME NEW r \in Request, UnlockProfile(r) \/ KillRequest(r) PROVE ProfileInv'
  <2>1. CloseLock(r) /\ UNCHANGED <<lock_path, undercut>>
    BY <1>3 DEF UnlockProfile, KillRequest
  <2>2. ProfileTypeOK'
    BY <1>3, <2>1, CloseTyped DEF UnlockProfile, KillRequest, ProfileTypeOK
  <2>3. NameInv'
    BY <2>1, CloseTyped DEF NameInv
  <2> QED  BY <2>2, <2>3
<1>4. ASSUME NEW r \in Request, RemoveLock(r) PROVE ProfileInv'
  <2>1. ProfileTypeOK'
    BY <1>4 DEF RemoveLock, ProfileTypeOK
  <2>2. NameInv'
    BY <1>4 DEF RemoveLock, ProfileTypeOK, NameInv
  <2> QED  BY <2>1, <2>2
<1>5. CASE UNCHANGED profile_vars
  BY <1>5 DEF profile_vars, ProfileTypeOK, NameInv
<1> QED  BY <1>1, <1>2, <1>3, <1>4, <1>5 DEF ProfileNext

(* The lock file's states keep their types: a request has the flock of the *)
(* file it has open exactly while it has the profile.                      *)
THEOREM ProfileTypeCorrect == ProfileSpec => []ProfileTypeOK
<1>1. ProfileInv => ProfileTypeOK
  BY DEF ProfileInv
<1> QED  BY <1>1, ProfileInvInit, ProfileInvStep, PTL DEF ProfileSpec

(* Fetches with a profile are serialized, until a request removes the lock *)
(* file after another one has opened it (drop of ProfileLock).             *)
THEOREM ProfileExclusiveCorrect == ProfileSpec => []ProfileExclusive
<1>1. ProfileInv => ProfileExclusive
  <2> SUFFICES ASSUME ProfileInv, ~undercut, NEW q \in Request, NEW r \in Request,
                      profile_pc[q] = "locked", profile_pc[r] = "locked"
               PROVE  q = r
    BY DEF ProfileExclusive
  <2>1. lock_file[q] = lock_path /\ lock_file[r] = lock_path /\ lock_path \in LockFile
    BY ProfileAssumption DEF ProfileInv, ProfileTypeOK, NameInv
  <2>2. flock[lock_path] = q /\ flock[lock_path] = r
    BY <2>1 DEF ProfileInv, ProfileTypeOK
  <2> QED  BY <2>2
<1> QED  BY <1>1, ProfileInvInit, ProfileInvStep, PTL DEF ProfileSpec

-----------------------------------------------------------------------------
(* try_terminate: one thread at most is past the swap, and the trigger is  *)
(* either still to be stored by it or names it.                            *)
KillInv ==
    /\ \A t \in Threads :
        /\ thread_pc[t] \in {"store", "kill"} =>
            kill_sent /\ \A u \in Threads \ {t} : thread_pc[u] \notin {"store", "kill"}
        /\ thread_pc[t] = "store" => trigger = NoTrigger
        /\ thread_pc[t] = "kill" => trigger = t
    /\ trigger # NoTrigger => kill_sent
    /\ kill_sent /\ trigger = NoTrigger => \E t \in Threads : thread_pc[t] = "store"

(* A reader kills because something was dropped, and then somebody kills.  *)
TruncationInv ==
    /\ \A t \in Readers : thread_pc[t] \in {"swap", "store", "kill"} => t \in truncated
    /\ trigger \in Readers => trigger \in truncated
    /\ \A t \in truncated : thread_pc[t] # "run" /\ (thread_pc[t] = "ended" => kill_sent)

(* The caller joins the readers, waits, and joins the kill thread.         *)
CallerInv ==
    /\ caller_pc \in {"wait", "flag", "reap", "done"} => \A t \in Readers : thread_pc[t] = "ended"
    /\ caller_pc = "done" => thread_pc["timeout"] = "ended"
    /\ reaped => caller_pc \in {"flag", "reap", "done"}

CommandInv ==
    CommandTypeOK /\ KillInv /\ TruncationInv /\ CallerInv /\ OnlyTheTimeoutStrays

LEMMA CommandInvInit == CommandInit => CommandInv
  BY CommandAssumption DEF CommandInit, CommandInv, CommandTypeOK, KillInv, TruncationInv, CallerInv,
     OnlyTheTimeoutStrays, Threads, Readers

-----------------------------------------------------------------------------
(* Steps that leave the threads and their flags alone.                     *)
LEMMA CallerKeeps ==
    ASSUME CommandInv, CallerMoves \/ Spawn
    PROVE  CommandInv'
<1> USE DEF CallerMoves, Spawn, JoinReaders, Wait, SetExited, JoinKillThread, CallerStep, controller
<1>1. UNCHANGED <<thread_pc, truncated, kill_sent, trigger, stray>>
  OBVIOUS
<1>2. CommandTypeOK'
  BY DEF CommandInv, CommandTypeOK
<1>3. KillInv' /\ TruncationInv' /\ OnlyTheTimeoutStrays'
  BY <1>1 DEF CommandInv, KillInv, TruncationInv, OnlyTheTimeoutStrays
<1>4. CallerInv'
  BY DEF CommandInv, CallerInv
<1> QED  BY <1>2, <1>3, <1>4 DEF CommandInv

LEMMA ChildKeeps ==
    ASSUME CommandInv, NEW p \in {"child", "helper", "daemon"}, Fork(p) \/ Exit(p)
    PROVE  CommandInv'
<1>1. UNCHANGED <<thread_pc, caller_pc, reaped, truncated, exited, kill_sent, trigger, stray>>
  BY DEF Fork, Exit, controller
<1>2. alive' \subseteq {"child", "helper", "daemon"}
  BY DEF Fork, Exit, CommandInv, CommandTypeOK
<1> QED  BY <1>1, <1>2 DEF CommandInv, CommandTypeOK, KillInv, TruncationInv, CallerInv,
            OnlyTheTimeoutStrays

(* The ways of a thread, one by one.                                       *)
LEMMA ThreadKeepsType ==
    ASSUME CommandInv, NEW t \in Threads,
           \/ t \in Readers /\ (PassLimit(t) \/ EndOfStream(t))
           \/ t = "timeout" /\ (SeeExited \/ TimeOut)
           \/ ThreadMoves(t)
    PROVE  CommandTypeOK' /\ CallerInv' /\ OnlyTheTimeoutStrays'
<1> USE DEF CommandInv, PassLimit, EndOfStream, SeeExited, TimeOut, ThreadMoves, Swap, StoreTrigger,
            KillGroup, ThreadStep, controller
<1>1. CommandTypeOK'
  BY DEF CommandTypeOK
<1>2. thread_pc[t] # "ended" /\ thread_pc' = [thread_pc EXCEPT ![t] = thread_pc'[t]]
        /\ UNCHANGED <<caller_pc, reaped>>
  BY DEF CommandTypeOK
<1>3. CallerInv'
  BY <1>2, <1>1 DEF CallerInv, CommandTypeOK, Threads, Readers
<1>4. OnlyTheTimeoutStrays'
  <2>1. CASE KillGroup(t) /\ reaped
    <3>1. t \notin Readers
      BY <2>1, <1>2 DEF CallerInv
    <3> QED  BY <3>1 DEF OnlyTheTimeoutStrays, Threads, Readers
  <2>2. CASE ~(KillGroup(t) /\ reaped)
    BY <2>2 DEF OnlyTheTimeoutStrays
  <2> QED  BY <2>1, <2>2
<1> QED  BY <1>1, <1>3, <1>4

LEMMA ReaderKeeps ==
    ASSUME CommandInv, NEW t \in Readers, PassLimit(t) \/ EndOfStream(t)
    PROVE  CommandInv'
<1>1. t \in Threads
  BY DEF Threads
<1>2. CommandTypeOK' /\ CallerInv' /\ OnlyTheTimeoutStrays'
  BY <1>1, ThreadKeepsType
<1>3. /\ thread_pc[t] = "run"
      /\ thread_pc' = [thread_pc EXCEPT ![t] = thread_pc'[t]]
      /\ \/ thread_pc'[t] = "swap" /\ truncated' = truncated \cup {t}
         \/ thread_pc'[t] = "ended" /\ truncated' = truncated
      /\ UNCHANGED <<kill_sent, trigger>>
  BY <1>1 DEF PassLimit, EndOfStream, ThreadStep, controller, CommandInv, CommandTypeOK
<1>4. KillInv'
  BY <1>1, <1>3 DEF CommandInv, CommandTypeOK, KillInv
<1>5. TruncationInv'
  BY <1>1, <1>3 DEF CommandInv, CommandTypeOK, TruncationInv, Threads
<1> QED  BY <1>2, <1>4, <1>5 DEF CommandInv

LEMMA ClockKeeps ==
    ASSUME CommandInv, SeeExited \/ TimeOut
    PROVE  CommandInv'
<1>1. "timeout" \in Threads /\ "timeout" \notin Readers
  BY DEF Threads, Readers
<1>2. CommandTypeOK' /\ CallerInv' /\ OnlyTheTimeoutStrays'
  BY <1>1, ThreadKeepsType
<1>3. /\ thread_pc["timeout"] = "run"
      /\ thread_pc' = [thread_pc EXCEPT !["timeout"] = thread_pc'["timeout"]]
      /\ thread_pc'["timeout"] \in {"swap", "ended"}
      /\ UNCHANGED <<kill_sent, trigger, truncated>>
  BY <1>1 DEF SeeExited, TimeOut, ThreadStep, controller, CommandInv, CommandTypeOK
<1>4. KillInv'
  BY <1>1, <1>3 DEF CommandInv, CommandTypeOK, KillInv
<1>5. TruncationInv'
  BY <1>1, <1>3 DEF CommandInv, CommandTypeOK, TruncationInv, Threads
<1> QED  BY <1>2, <1>4, <1>5 DEF CommandInv

LEMMA TerminateKeeps ==
    ASSUME CommandInv, NEW t \in Threads, ThreadMoves(t)
    PROVE  CommandInv'
<1>1. CommandTypeOK' /\ CallerInv' /\ OnlyTheTimeoutStrays'
  BY ThreadKeepsType
<1> USE CommandAssumption DEF CommandInv, CommandTypeOK, ThreadStep, controller
<1>2. CASE Swap(t)
  <2>1. KillInv'
    BY <1>2 DEF Swap, KillInv
  <2>2. TruncationInv'
    BY <1>2 DEF Swap, TruncationInv, Threads
  <2> QED  BY <1>1, <2>1, <2>2
<1>3. CASE StoreTrigger(t)
  <2>1. KillInv'
    BY <1>3 DEF StoreTrigger, KillInv
  <2>2. TruncationInv'
    BY <1>3 DEF StoreTrigger, TruncationInv, Threads
  <2> QED  BY <1>1, <2>1, <2>2
<1>4. CASE KillGroup(t)
  <2>1. KillInv'
    BY <1>4 DEF KillGroup, KillInv
  <2>2. TruncationInv'
    BY <1>4 DEF KillGroup, KillInv, TruncationInv, Threads
  <2> QED  BY <1>1, <2>1, <2>2
<1> QED  BY <1>2, <1>3, <1>4 DEF ThreadMoves

LEMMA CommandInvStep == CommandInv /\ [CommandNext]_command_vars => CommandInv'
<1> SUFFICES ASSUME CommandInv, [CommandNext]_command_vars PROVE CommandInv'
  OBVIOUS
<1>1. alive \subseteq {"child", "helper", "daemon"}
  BY DEF CommandInv, CommandTypeOK
<1>2. CASE UNCHANGED command_vars
  BY <1>2 DEF command_vars, CommandInv, CommandTypeOK, KillInv, TruncationInv, CallerInv,
     OnlyTheTimeoutStrays
<1>3. CASE CommandNext
  BY <1>1, <1>3, CallerKeeps, ChildKeeps, ReaderKeeps, ClockKeeps, TerminateKeeps DEF CommandNext
<1> QED  BY <1>2, <1>3

-----------------------------------------------------------------------------
LEMMA CommandAlways == CommandSpec => []CommandInv
  BY CommandInvInit, CommandInvStep, PTL DEF CommandSpec

(* Every variable of a bounded command keeps its type.                     *)
THEOREM CommandTypeCorrect == CommandSpec => []CommandTypeOK
<1>1. CommandInv => CommandTypeOK
  BY DEF CommandInv
<1> QED  BY <1>1, CommandAlways, PTL

(* What the caller reports at the end of run_bounded_command is what was   *)
(* done to the child, and Signaled is never reported.                      *)
THEOREM ReasonCorrect == CommandSpec => []ReasonNamesTheKill
<1>1. CommandInv => ReasonNamesTheKill
  <2> SUFFICES ASSUME CommandInv, caller_pc = "done"
               PROVE  /\ termination = "Exited" <=> ~kill_sent
                      /\ termination \in Threads \cup {"Exited"}
                      /\ truncated # {} => termination # "Exited"
                      /\ termination \in Readers => termination \in truncated
    BY DEF ReasonNamesTheKill
  <2>1. \A t \in Threads : thread_pc[t] = "ended"
    BY DEF CommandInv, CallerInv, Threads
  <2>2. kill_sent <=> trigger # NoTrigger
    BY <2>1 DEF CommandInv, KillInv
  <2>3. trigger \in Threads \cup {NoTrigger} /\ truncated \subseteq Threads
    BY DEF CommandInv, CommandTypeOK, Threads
  <2>4. termination = IF trigger # NoTrigger THEN trigger ELSE "Exited"
    BY <2>2 DEF termination
  <2>5. truncated # {} => kill_sent
    BY <2>1, <2>3 DEF CommandInv, TruncationInv
  <2> QED  BY <2>2, <2>3, <2>4, <2>5 DEF CommandInv, TruncationInv, Threads, Readers
<1> QED  BY <1>1, CommandAlways, PTL

(* No reader kills a process group whose child was reaped.                 *)
THEOREM StrayCorrect == CommandSpec => []OnlyTheTimeoutStrays
<1>1. CommandInv => OnlyTheTimeoutStrays
  BY DEF CommandInv
<1> QED  BY <1>1, CommandAlways, PTL

-----------------------------------------------------------------------------
(* Who is past the comparison has looked up a newer version than it is.    *)
Decided == {"permission", "download", "verify", "cargo", "replace"}

(* An updater under way is the version that is installed, unless another   *)
(* one has replaced that.                                                  *)
VersionInv ==
    /\ \A u \in Updater : Running(u) /\ u \notin orphaned => current[u] = file
    /\ \A u \in Updater : update_pc[u] \in Decided => latest[u] > current[u]

UpdateInv == UpdateTypeOK /\ VersionInv

LEMMA UpdateInvInit == UpdateInit => UpdateInv
  BY UpdateAssumption DEF UpdateInit, UpdateInv, UpdateTypeOK, VersionInv, Running, Decided,
     Manager, ReleaseVersion, UpdateStep, Outcome

(* Only "replace" changes the executable: the other steps move one updater *)
(* to a step that is Decided only if the one it comes from is.             *)
LEMMA MoveKeeps ==
    ASSUME UpdateInv, NEW u \in Updater, NEW from \in UpdateStep \ {"new"},
           NEW steps \in SUBSET (UpdateStep \cup Outcome), "new" \notin steps,
           from \in Decided \/ steps \cap Decided = {},
           UpdateMoves(u, from, steps)
    PROVE  UpdateInv'
<1> USE DEF UpdateInv, UpdateTypeOK, VersionInv, Running, Decided, UpdateMoves, UpdateGoto, host, plan,
            UpdateStep, Outcome
<1>1. PICK step \in steps : update_pc' = [update_pc EXCEPT ![u] = step]
  OBVIOUS
<1>2. UpdateTypeOK'
  BY <1>1
<1>3. VersionInv'
  BY <1>1
<1> QED  BY <1>2, <1>3

LEMMA StartUpdateKeeps ==
    ASSUME UpdateInv, NEW u \in Updater, StartUpdate(u) PROVE UpdateInv'
<1> USE DEF UpdateInv, UpdateTypeOK, VersionInv, Running, Decided, UpdateGoto, host, StartUpdate,
            UpdateStep, Outcome
<1>1. UpdateTypeOK'
  OBVIOUS
<1>2. VersionInv'
  OBVIOUS
<1> QED  BY <1>1, <1>2

LEMMA SnapshotKeeps ==
    ASSUME UpdateInv, NEW u \in Updater, Snapshot(u) PROVE UpdateInv'
<1>1. CASE UpdateMoves(u, "snapshot", {"Lifecycle"})
  BY <1>1, MoveKeeps DEF UpdateStep, Outcome, Decided
<1>2. CASE ~UpdateMoves(u, "snapshot", {"Lifecycle"})
  <2> USE DEF UpdateInv, UpdateTypeOK, VersionInv, Running, Decided, UpdateGoto, host, Snapshot,
              UpdateStep, Outcome
  <2>1. UpdateTypeOK'
    BY <1>2
  <2>2. VersionInv'
    BY <1>2
  <2> QED  BY <2>1, <2>2
<1> QED  BY <1>1, <1>2

LEMMA LookUpKeeps ==
    ASSUME UpdateInv, NEW u \in Updater, LookUpVersion(u) PROVE UpdateInv'
<1>1. CASE UpdateMoves(u, "lookup", {"Failed"})
  BY <1>1, MoveKeeps DEF UpdateStep, Outcome, Decided
<1>2. CASE ~UpdateMoves(u, "lookup", {"Failed"})
  <2> USE UpdateAssumption DEF UpdateInv, UpdateTypeOK, VersionInv, Running, Decided, UpdateGoto, host,
          LookUpVersion, Compared, ReleaseVersion, Unknown, UpdateStep, Outcome
  <2>1. UpdateTypeOK'
    BY <1>2
  <2>2. VersionInv'
    BY <1>2
  <2> QED  BY <2>1, <2>2
<1> QED  BY <1>1, <1>2

LEMMA PermissionKeeps ==
    ASSUME UpdateInv, NEW u \in Updater, ensure_replacement_permission(u) PROVE UpdateInv'
<1> USE DEF UpdateInv, UpdateTypeOK, VersionInv, Running, Decided, UpdateGoto, host,
            ensure_replacement_permission, UpdateStep, Outcome
<1>1. UpdateTypeOK'
  OBVIOUS
<1>2. VersionInv'
  OBVIOUS
<1> QED  BY <1>1, <1>2

LEMMA InstallKeeps ==
    ASSUME UpdateInv, NEW u \in Updater, Install(u) PROVE UpdateInv'
<1> USE UpdateAssumption DEF UpdateInv, UpdateTypeOK, VersionInv, Running, Decided, UpdateGoto, host, plan,
            Install, ReleaseVersion, Unknown, UpdateStep, Outcome
<1>1. latest[u] \in ReleaseVersion
  OBVIOUS
<1>2. UpdateTypeOK'
  BY <1>1
<1>3. VersionInv'
  OBVIOUS
<1> QED  BY <1>2, <1>3

LEMMA ServiceKeeps ==
    ASSUME UpdateInv, UNCHANGED <<linux, method, file, update_pc, plan, orphaned, installed>>,
           published' \in ReleaseVersion, server' \in ReleaseVersion \cup {Down}
    PROVE  UpdateInv'
  BY DEF UpdateInv, UpdateTypeOK, VersionInv, Running, plan

LEMMA RestartKeeps ==
    ASSUME UpdateInv, NEW u \in Updater, StopService(u) \/ StartService(u) PROVE UpdateInv'
<1>1. CASE UpdateMoves(u, "restart", {"RestartFailed"}) \/ UpdateMoves(u, "start", {"RestartFailed"})
  BY <1>1, MoveKeeps DEF UpdateStep, Outcome, Decided
<1>2. CASE ~(UpdateMoves(u, "restart", {"RestartFailed"}) \/ UpdateMoves(u, "start", {"RestartFailed"}))
  <2> USE DEF UpdateInv, UpdateTypeOK, VersionInv, Running, Decided, UpdateGoto, host, plan,
              StopService, StartService, UpdateStep, Outcome
  <2>1. UpdateTypeOK'
    BY <1>2
  <2>2. VersionInv'
    BY <1>2
  <2> QED  BY <2>1, <2>2
<1> QED  BY <1>1, <1>2

LEMMA UpdateInvStep == UpdateInv /\ [UpdateNext]_update_vars => UpdateInv'
<1> SUFFICES ASSUME UpdateInv, [UpdateNext]_update_vars PROVE UpdateInv'
  OBVIOUS
<1>1. ASSUME NEW u \in Updater, updater(u) PROVE UpdateInv'
  <2>1. CASE StartUpdate(u) \/ Snapshot(u) \/ LookUpVersion(u) \/ ensure_replacement_permission(u)
    BY <2>1, StartUpdateKeeps, SnapshotKeeps, LookUpKeeps, PermissionKeeps
  <2>2. CASE Download(u) \/ Verify(u) \/ BuildWithCargo(u)
    BY <2>2, MoveKeeps DEF Download, Verify, BuildWithCargo, UpdateStep, Outcome, Decided
  <2>3. CASE replace_candidate(u)
    <3>1. CASE UpdateMoves(u, "replace", {"Failed"})
      BY <3>1, MoveKeeps DEF UpdateStep, Outcome, Decided
    <3> QED  BY <2>3, <3>1, InstallKeeps DEF replace_candidate
  <2>4. CASE finish_lifecycle(u) \/ AwaitHealth(u)
    BY <2>4, MoveKeeps DEF finish_lifecycle, AwaitHealth, UpdateStep, Outcome, Decided
  <2>5. CASE StopService(u) \/ StartService(u)
    BY <2>5, RestartKeeps
  <2> QED  BY <1>1, <2>1, <2>2, <2>3, <2>4, <2>5 DEF updater
<1>2. CASE Release \/ ServiceChanges \/ UNCHANGED update_vars
  BY <1>2, ServiceKeeps, UpdateAssumption
     DEF Release, ServiceChanges, update_vars, host, plan, UpdateInv, UpdateTypeOK, ReleaseVersion
<1> QED  BY <1>1, <1>2 DEF UpdateNext

LEMMA UpdateAlways == UpdateSpec => []UpdateInv
  BY UpdateInvInit, UpdateInvStep, PTL DEF UpdateSpec

(* Every variable of an update, and of the host it runs on, keeps its type. *)
THEOREM UpdateTypeCorrect == UpdateSpec => []UpdateTypeOK
<1>1. UpdateInv => UpdateTypeOK
  BY DEF UpdateInv
<1> QED  BY <1>1, UpdateAlways, PTL

(* replace_candidate goes back to an older version only in an update that   *)
(* another one has overtaken: who is at the replacement has looked up a     *)
(* newer version than it is, and is what is installed unless overtaken.     *)
THEOREM DowngradeCorrect == UpdateSpec => DowngradeNeedsOverlap
<1>1. UpdateInv /\ [UpdateNext]_update_vars =>
          [file' < file => installed' \ installed \subseteq orphaned]_update_vars
  <2> SUFFICES ASSUME UpdateInv, UpdateNext, file' < file
               PROVE  installed' \ installed \subseteq orphaned
    OBVIOUS
  <2>1. PICK u \in Updater : Install(u)
    <3>1. file' # file
      BY DEF UpdateInv, UpdateTypeOK, ReleaseVersion
    <3> QED  BY <3>1 DEF UpdateNext, updater, UpdateMoves, StartUpdate, Snapshot, LookUpVersion,
        ensure_replacement_permission, Download, Verify, BuildWithCargo, replace_candidate,
        finish_lifecycle, StopService, StartService, AwaitHealth, Release, ServiceChanges
  <2>2. latest[u] > current[u] /\ latest[u] < file /\ (u \notin orphaned => current[u] = file)
    BY <2>1 DEF Install, UpdateInv, VersionInv, Decided, Running, Outcome
  <2>3. latest[u] \in Int /\ current[u] \in Int /\ file \in Int
    BY UpdateAssumption DEF UpdateInv, UpdateTypeOK, ReleaseVersion, Unknown
  <2>4. u \in orphaned
    BY <2>2, <2>3
  <2> QED  BY <2>1, <2>4 DEF Install
<1> QED  BY <1>1, UpdateAlways, PTL DEF UpdateSpec, DowngradeNeedsOverlap

-----------------------------------------------------------------------------
(* What becomes of an update that has replaced the executable.             *)
Replaced == {"finish", "restart", "start", "await",
             "Updated", "UpdatedAndRestarted", "Lifecycle", "RestartFailed"}
Restarting == {"restart", "start", "await", "UpdatedAndRestarted", "RestartFailed"}

(* It goes on to the restart only on a host where it finds its executable, *)
(* and only for a service that it had found healthy.                       *)
ReplacedInv ==
    \A u \in installed :
        /\ update_pc[u] \in Replaced
        /\ linux => u \in orphaned
        /\ update_pc[u] = "Updated" => ~should_restart[u]
        /\ update_pc[u] = "Lifecycle" => should_restart[u] /\ linux
        /\ update_pc[u] \in Restarting => should_restart[u] /\ ~linux

LEMMA ReplacedInvStep == UpdateTypeOK /\ ReplacedInv /\ [UpdateNext]_update_vars => ReplacedInv'
<1> SUFFICES ASSUME UpdateTypeOK, ReplacedInv, [UpdateNext]_update_vars PROVE ReplacedInv'
  OBVIOUS
<1> USE DEF UpdateTypeOK, ReplacedInv, Replaced, Restarting, UpdateMoves, UpdateGoto, host, plan, Lost
<1>1. ASSUME NEW u \in Updater, updater(u) PROVE ReplacedInv'
  <2>1. CASE StartUpdate(u) \/ Snapshot(u) \/ LookUpVersion(u) \/ ensure_replacement_permission(u)
    BY <2>1 DEF StartUpdate, Snapshot, LookUpVersion, ensure_replacement_permission
  <2>2. CASE Download(u) \/ Verify(u) \/ BuildWithCargo(u) \/ UpdateMoves(u, "replace", {"Failed"})
    BY <2>2 DEF Download, Verify, BuildWithCargo
  <2>3. CASE Install(u)
    BY <2>3 DEF Install, Running, Outcome
  <2>4. CASE finish_lifecycle(u)
    BY <2>4 DEF finish_lifecycle
  <2>5. CASE StopService(u) \/ StartService(u) \/ AwaitHealth(u)
    BY <2>5 DEF StopService, StartService, AwaitHealth
  <2> QED  BY <1>1, <2>1, <2>2, <2>3, <2>4, <2>5 DEF updater, replace_candidate
<1>2. CASE Release \/ ServiceChanges \/ UNCHANGED update_vars
  BY <1>2 DEF Release, ServiceChanges, update_vars
<1> QED  BY <1>1, <1>2 DEF UpdateNext

(* How such an update may end.                                             *)
ReplacementReported ==
    \A u \in installed : update_pc[u] \in Outcome =>
        /\ should_restart[u] /\ ~linux => update_pc[u] \in {"UpdatedAndRestarted", "RestartFailed"}
        /\ should_restart[u] /\ linux => update_pc[u] = "Lifecycle"
        /\ ~should_restart[u] => update_pc[u] = "Updated"

(* An update that has replaced the executable below a service it had found *)
(* healthy ends with a restart, or an error that names the restart, on     *)
(* every host but Linux; there it always ends with the lifecycle error     *)
(* instead (docs/update.md knows only the first).  Without a healthy       *)
(* service it ends as updated.                                             *)
THEOREM ReplacedOutcome == UpdateSpec => []ReplacementReported
<1>1. UpdateInit => ReplacedInv
  BY DEF UpdateInit, ReplacedInv
<1>2. UpdateInv => UpdateTypeOK
  BY DEF UpdateInv
<1>3. ReplacedInv => ReplacementReported
  BY DEF ReplacedInv, ReplacementReported, Replaced, Restarting, Outcome
<1> QED  BY <1>1, <1>2, <1>3, ReplacedInvStep, UpdateAlways, PTL DEF UpdateSpec

(* So the sentence of docs/update.md on the restart, which Linux refutes,  *)
(* holds on every other host.                                              *)
THEOREM RestartReportedElsewhere == UpdateSpec => [](linux \/ RestartReported)
<1>1. ReplacementReported => linux \/ RestartReported
  BY DEF ReplacementReported, RestartReported
<1> QED  BY <1>1, ReplacedOutcome, PTL
=============================================================================
