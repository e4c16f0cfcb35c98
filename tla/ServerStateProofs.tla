------------------------- MODULE ServerStateProofs -------------------------
(***************************************************************************)
(* The parts of the server side by side: every behaviour of all of them is *)
(* a behaviour of each, so that what is proved of a part holds of the      *)
(* server.                                                                 *)
(***************************************************************************)
EXTENDS MCServerState, ProcessProofs, WebSearchProofs, SharedStateProofs

-----------------------------------------------------------------------------
(* A step of the server is, for each part, a step of it or none.           *)
LEMMA PartSteps ==
    ASSUME [StateNext]_state
    PROVE  /\ [BrowserNext]_browser_vars /\ [ProfileNext]_profile_vars
           /\ [CacheNext]_cache_vars /\ [SearchNext]_search_vars
           /\ [CommandNext]_command_vars /\ [UpdateNext]_update_vars
           /\ [KevNext]_kev_vars /\ [GateNext]_arxiv_vars
  BY DEF StateNext, state, BrowserPart, ProfilePart, CachePart, SearchPart, CommandPart, UpdatePart,
     KevPart, GatePart

LEMMA PartsRun ==
    StateSpec => /\ BrowserSpec /\ ProfileSpec /\ CacheSpec /\ SearchSpec
                 /\ CommandSpec /\ UpdateSpec /\ KevSpec /\ GateSpec
<1>1. StateInit => /\ BrowserInit /\ ProfileInit /\ CacheInit /\ SearchInit
                   /\ CommandInit /\ UpdateInit /\ KevInit /\ GateInit
  BY DEF StateInit
<1> QED  BY <1>1, PartSteps, PTL DEF StateSpec, BrowserSpec, ProfileSpec, CacheSpec, SearchSpec,
            CommandSpec, UpdateSpec, KevSpec, GateSpec

-----------------------------------------------------------------------------
(* Type correctness of the server: every variable of every part keeps its  *)
(* type.                                                                   *)
THEOREM StateTypeCorrect == StateSpec => []StateTypeOK
<1>1. BrowserTypeOK /\ ProfileTypeOK /\ CacheTypeOK /\ SearchTypeOK /\ CommandTypeOK
      /\ UpdateTypeOK /\ KevTypeOK /\ GateTypeOK => StateTypeOK
  BY DEF StateTypeOK
<1> QED  BY <1>1, PartsRun, BrowserTypeCorrect, ProfileTypeCorrect,
            CacheTypeCorrect, SearchTypeCorrect, CommandTypeCorrect, UpdateTypeCorrect,
            KevTypeCorrect, GateTypeCorrect, PTL

(* The safety of the parts, all at once: one live browser, one holder of a *)
(* profile, an exact byte counter, cooldowns and fan-outs with a reason,   *)
(* and terminations that say what killed.                                  *)
THEOREM StateSafe ==
    StateSpec => [](/\ OneLiveBrowser /\ ProfileExclusive /\ BytesMatch
                    /\ CooldownMeansFailures /\ AlwaysAsksSomeone
                    /\ ReasonNamesTheKill /\ OnlyTheTimeoutStrays)
  BY PartsRun, OneLiveCorrect, ProfileExclusiveCorrect, BytesCorrect, CooldownCorrect, AskCorrect,
     ReasonCorrect, StrayCorrect, PTL

(* What no step of the server does: refuse a render while a browser lives, *)
(* bring an old body back, blame a provider before the deadline, or        *)
(* install an older version without an overlap.                            *)
THEOREM StateStepsSafe ==
    StateSpec => /\ RefusedOnlyWithoutBrowser /\ NeverGoesBack
                 /\ BlameOnlyAtDeadline /\ DowngradeNeedsOverlap
  BY PartsRun, RefusalCorrect, NeverGoesBackCorrect, BlameCorrect, DowngradeCorrect, PTL

(* No lookup is told of a catalogue that is too old, and arXiv is asked    *)
(* once at a time and not too often, while everything else goes on.        *)
THEOREM EnginesCorrect == StateSpec => EnginesKeepTime
  BY PartsRun, AnswerCorrect, GateCorrect, PTL DEF EnginesKeepTime
=============================================================================
