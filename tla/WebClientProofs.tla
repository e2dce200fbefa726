-------------------------- MODULE WebClientProofs --------------------------
(***************************************************************************)
(* Proofs about the parts of the web client taken together: a behaviour of *)
(* the whole is one of every part, so that what is proved of each part     *)
(* holds of the whole.                                                     *)
(***************************************************************************)
EXTENDS MCWebClient, BrowserProofs, MontageProofs, UploadClientProofs

\* The whole starts with every part at its start, and each of its steps is a step
\* of one part, or none.
LEMMA PartsAreRun ==
    WebSpec => /\ OfflineSpec /\ TimelineSpec /\ SessionSpec /\ AuthSpec
               /\ CapabilitySpec /\ ScheduleSpec /\ UploadSpec /\ SearchSpec
<1>1. WebInit => /\ OfflineInit /\ TimelineInit /\ SessionInit /\ AuthInit
                 /\ CapabilityInit /\ ScheduleInit /\ UploadInit /\ SearchInit
  BY DEF WebInit
<1>2. [WebNext]_webVars => [OfflineNext]_offlineVars
  BY DEF WebNext, webVars
<1>3. [WebNext]_webVars => [TimelineNext]_timelineVars
  BY DEF WebNext, webVars
<1>4. [WebNext]_webVars => [SessionNext]_sessionVars
  BY DEF WebNext, webVars
<1>5. [WebNext]_webVars => [AuthNext]_authVars
  BY DEF WebNext, webVars
<1>6. [WebNext]_webVars => [CapabilityNext]_capabilityVars
  BY DEF WebNext, webVars
<1>7. [WebNext]_webVars => [ScheduleNext]_scheduleVars
  BY DEF WebNext, webVars
<1>8. [WebNext]_webVars => [UploadNext]_uploadVars
  BY DEF WebNext, webVars
<1>9. [WebNext]_webVars => [SearchNext]_searchVars
  BY DEF WebNext, webVars
<1> QED
  BY <1>1, <1>2, <1>3, <1>4, <1>5, <1>6, <1>7, <1>8, <1>9, PTL
     DEF WebSpec, OfflineSpec, TimelineSpec, SessionSpec, AuthSpec, CapabilitySpec,
         ScheduleSpec, UploadSpec, SearchSpec

\* Every part keeps its types, whichever part the page shows.
THEOREM PartsKeepTypes == WebSpec => []WebTypeOK
<1>1. (OfflineTypeOK /\ SessionTypeOK /\ AuthTypeOK /\ CapabilityTypeOK
          /\ ScheduleTypeOK /\ UploadTypeOK /\ SearchTypeOK) => WebTypeOK
  BY DEF WebTypeOK
<1> QED
  BY <1>1, PartsAreRun, OfflineTypesHold, SessionTypes, AuthTypesHold, CapabilityTypes,
     ScheduleTypes, UploadTypesHold, SearchTypesHold, PTL

\* What the web client's run checks holds of it for every value of the constants,
\* whichever part the page shows.
THEOREM WebClientIsSound ==
    WebSpec => /\ [](NothingLostInSilence /\ AcceptedIsGone)
               /\ [](ClipsAreValid /\ HistoryIsALine /\ OthersWorkIsKept)
               /\ [](ScreenFollowsSearch /\ CookieStaysAlive /\ OverwritesTheKnown /\ VerdictIsRight)
               /\ [](MadeOfOneFile /\ NothingIsLeftOut /\ InterruptedIsResumed)
               /\ SplitKeepsProgramme /\ AddCoversNothing
BY PartsAreRun, KeptUntilAnswered, AcceptedLeaves, ClipsStayValid, HistoriesAreLines, WorkIsKept,
   ScreenFollows, CookieLives, KnownOverwritten, VerdictsAreRight, MadeFromOneFile,
   SkipsWhatIsThere, ResumesAfterReload, SplitIsUnseen, AddsCoverNothing, PTL

=============================================================================
