--------------------------- MODULE BrowserProofs ----------------------------
(***************************************************************************)
(* Proofs about the pages of the browser, each for any number of tabs,     *)
(* searches, zones or switches: the search page shows what was searched    *)
(* for last, a time sent is right, tabs that rotate one cookie keep it     *)
(* alive, a switch overwrites only what its administrator knew, and the    *)
(* offline queue loses nothing in silence.                                 *)
(***************************************************************************)
EXTENDS SearchPage, ScheduleTime, AuthSession, CapabilitySettings, OfflineQueue,
        FiniteSetTheorems, TLAPS

-----------------------------------------------------------------------------
(* SearchPage: the screen follows the search.                              *)

\* There is a first page of results.
LEMMA FirstPage == 1 \in PageNumbers
BY SearchAssumption DEF PageNumbers

-----------------------------------------------------------------------------
(* Types                                                                   *)

\* A search sent for the first page keeps the types (runSearch).
LEMMA SearchTypes ==
    ASSUME SearchTypeOK, NEW q \in Terms, Search(q, 1)
    PROVE  /\ searchRequestId' \in Nat /\ searches' \subseteq Searches
           /\ searchStatus' \in {"idle", "loading"} /\ allRecords' \in Terms
           /\ searchedFor' \in Terms
<1> USE DEF Search, SearchTypeOK
<1>1. CASE q = NoQuery
  BY <1>1 DEF Terms
<1>2. CASE q /= NoQuery
  <2>1. Sent(searchRequestId + 1, q, 1) \in Searches
    BY <1>2, FirstPage DEF Searches, Terms, Sent
  <2> QED
    BY <1>2, <2>1
<1> QED
  BY <1>1, <1>2

\* Opening the page keeps the types, whichever of its two effects searches.
LEMMA MountTypes ==
    ASSUME SearchTypeOK, Mount
    PROVE  SearchTypeOK'
<1>1. CASE MountFromAddress
  <2> DEFINE first == Sent(1, address.query, 1)
             second == Sent(2, address.query, address.page)
             only == Sent(1, address.query, address.page)
  <2>1. first \in Searches /\ second \in Searches /\ only \in Searches
    BY <1>1, FirstPage DEF MountFromAddress, SearchTypeOK, Searches, Terms, Sent
  <2>2. searches' \subseteq {first, second, only} /\ searchRequestId' \in {1, 2}
    BY <1>1 DEF MountFromAddress
  <2>3. searchForm' \in Terms /\ searchStatus' = "loading"
    BY <1>1 DEF MountFromAddress, SearchTypeOK, Terms
  <2> QED
    BY <1>1, <2>1, <2>2, <2>3 DEF Mount, MountFromAddress, SearchTypeOK
<1>2. CASE \E q \in Terms : MountFromPreferences(q)
  <2> PICK q \in Terms : MountFromPreferences(q)
    BY <1>2
  <2>1. CASE q = NoQuery
    BY <2>1 DEF Mount, MountFromPreferences, SearchTypeOK, screenVars
  <2>2. CASE q /= NoQuery
    BY <2>2, SearchTypes DEF Mount, MountFromPreferences, SearchTypeOK
  <2> QED
    BY <2>1, <2>2
<1> QED
  BY <1>1, <1>2 DEF Mount

\* An answer, current or stale, keeps the types.
LEMMA AnswerTypes ==
    ASSUME SearchTypeOK, AnswerArrives, UNCHANGED mounted
    PROVE  SearchTypeOK'
<1> PICK c \in searches :
        ResultsArrive(c) \/ SearchFails(c) \/ SuggestionsArrive(c) \/ StaleAnswer(c)
  BY DEF AnswerArrives
<1>1. c \in Searches /\ c.query \in Terms /\ c.page \in PageNumbers
  BY DEF SearchTypeOK, Searches, Terms
<1> USE <1>1 DEF SearchTypeOK, formVars, screenVars, Forget
<1>2. CASE ResultsArrive(c)
  <2>1. [c EXCEPT !.awaits = "suggestions"] \in Searches
    BY DEF Searches
  <2> QED
    BY <1>2, <2>1 DEF ResultsArrive
<1>3. CASE SearchFails(c)
  BY <1>3 DEF SearchFails
<1>4. CASE SuggestionsArrive(c)
  BY <1>4 DEF SuggestionsArrive
<1>5. CASE StaleAnswer(c)
  BY <1>5 DEF StaleAnswer
<1> QED
  BY <1>2, <1>3, <1>4, <1>5

\* What the user does on the page keeps the types.
LEMMA UserTypes ==
    ASSUME SearchTypeOK, UserActs, UNCHANGED mounted
    PROVE  SearchTypeOK'
<1> USE FirstPage
<1>1. ASSUME NEW q \in Terms, EditForm(q) PROVE SearchTypeOK'
  BY <1>1 DEF EditForm, SearchTypeOK, screenVars
<1>2. CASE SubmitSearch
  <2>1. searchForm \in Terms
    BY DEF SearchTypeOK
  <2> QED
    BY <1>2, <2>1, SearchTypes DEF SubmitSearch, SearchTypeOK
<1>3. ASSUME NEW q \in Queries, ChooseSearch(q) PROVE SearchTypeOK'
  <2>1. q \in Terms
    BY DEF Terms
  <2> QED
    BY <1>3, <2>1, SearchTypes DEF ChooseSearch, SearchTypeOK
<1>4. ASSUME NEW page \in PageNumbers, TurnPage(page) PROVE SearchTypeOK'
  BY <1>4 DEF TurnPage, SearchTypeOK, screenVars
<1>5. CASE ResetSearch
  BY <1>5 DEF ResetSearch, SearchTypeOK, Terms
<1> QED
  BY <1>1, <1>2, <1>3, <1>4, <1>5 DEF UserActs

\* The page, the calls that wait and the address keep their types.
THEOREM SearchTypesHold == SearchSpec => []SearchTypeOK
<1>1. SearchInit => SearchTypeOK
  <2> SUFFICES ASSUME SearchInit PROVE SearchTypeOK
    OBVIOUS
  <2>1. address.query \in Terms /\ address.page \in PageNumbers
    BY DEF SearchInit
  <2> QED
    BY <2>1 DEF SearchInit, SearchTypeOK, Terms
<1>2. SearchTypeOK /\ [SearchNext]_searchVars => SearchTypeOK'
  <2> SUFFICES ASSUME SearchTypeOK, [SearchNext]_searchVars PROVE SearchTypeOK'
    OBVIOUS
  <2>1. CASE Mount
    BY <2>1, MountTypes
  <2>2. CASE AnswerArrives /\ UNCHANGED mounted
    BY <2>2, AnswerTypes
  <2>3. CASE UserActs /\ UNCHANGED mounted
    BY <2>3, UserTypes
  <2>4. CASE UNCHANGED searchVars
    BY <2>4 DEF SearchTypeOK, searchVars, screenVars, formVars
  <2> QED
    BY <2>1, <2>2, <2>3, <2>4 DEF SearchNext
<1> QED
  BY <1>1, <1>2, PTL DEF SearchSpec

-----------------------------------------------------------------------------
(* What is on the screen                                                   *)

\* Only the latest call can be applied, and it asks for what was searched for.
LatestIsSearchedFor ==
    \A c \in searches :
        /\ c.id <= searchRequestId
        /\ IsLatest(c) => c.query = searchedFor

SearchInv == SearchTypeOK /\ LatestIsSearchedFor /\ ScreenFollowsSearch

\* A new call of search() leaves every earlier one behind.
LEMMA SearchKeeps ==
    ASSUME SearchInv, NEW q \in Terms, Search(q, 1)
    PROVE  (LatestIsSearchedFor /\ ScreenFollowsSearch)'
<1>1. searchRequestId' = searchRequestId + 1 /\ searchedFor' = q
  BY DEF Search
<1>2. \A c \in searches : c.id <= searchRequestId' /\ ~IsLatest(c)'
  BY <1>1 DEF SearchInv, LatestIsSearchedFor, SearchTypeOK, Searches, IsLatest
<1>3. CASE q = NoQuery
  BY <1>1, <1>2, <1>3 DEF Search, LatestIsSearchedFor, ScreenFollowsSearch
<1>4. CASE q /= NoQuery
  <2> DEFINE new == Sent(searchRequestId + 1, q, 1)
  <2>1. searches' = searches \cup {new} /\ searchStatus' = "loading"
    BY <1>4 DEF Search
  <2>2. /\ new.id = searchRequestId' /\ new.id <= searchRequestId'
        /\ new.query = searchedFor' /\ new.awaits = "results"
    BY <1>1 DEF SearchInv, SearchTypeOK, Sent
  <2>3. Awaited'
    BY <2>1, <2>2 DEF Awaited, IsLatest
  <2> QED
    BY <1>2, <2>1, <2>2, <2>3 DEF LatestIsSearchedFor, ScreenFollowsSearch, IsLatest
<1> QED
  BY <1>3, <1>4

\* A step that only looks at the form, or makes the page idle.
LEMMA FormKeeps ==
    ASSUME SearchInv, UNCHANGED <<searchRequestId, searches, searchedFor>>,
           UNCHANGED screenVars \/ searchStatus' = "idle"
    PROVE  (LatestIsSearchedFor /\ ScreenFollowsSearch)'
BY DEF SearchInv, LatestIsSearchedFor, ScreenFollowsSearch, Awaited, IsLatest, screenVars

\* Opening the page searches for what its address says, or for what was saved.
LEMMA MountKeeps ==
    ASSUME SearchInv, Mount
    PROVE  (LatestIsSearchedFor /\ ScreenFollowsSearch)'
<1>1. CASE MountFromAddress
  <2> DEFINE first == Sent(1, address.query, 1)
             second == Sent(2, address.query, address.page)
             only == Sent(1, address.query, address.page)
  <2>1. /\ \/ searches' = {first, second} /\ searchRequestId' = 2
           \/ searches' = {only} /\ searchRequestId' = 1
        /\ searchStatus' = "loading" /\ searchedFor' = address.query
    BY <1>1 DEF MountFromAddress
  <2>2. /\ first.id = 1 /\ second.id = 2 /\ only.id = 1
        /\ second.awaits = "results" /\ only.awaits = "results"
        /\ first.query = address.query /\ second.query = address.query /\ only.query = address.query
    BY DEF Sent
  <2>3. Awaited'
    BY <2>1, <2>2 DEF Awaited, IsLatest
  <2> QED
    BY <2>1, <2>2, <2>3 DEF LatestIsSearchedFor, ScreenFollowsSearch
<1>2. CASE \E q \in Terms : MountFromPreferences(q)
  <2> PICK q \in Terms : MountFromPreferences(q)
    BY <1>2
  <2>1. CASE q = NoQuery
    BY <2>1, FormKeeps DEF MountFromPreferences
  <2>2. CASE q /= NoQuery
    BY <2>2, SearchKeeps DEF MountFromPreferences
  <2> QED
    BY <2>1, <2>2
<1> QED
  BY <1>1, <1>2 DEF Mount

\* An answer is shown only when it is of the latest search.
LEMMA AnswerKeeps ==
    ASSUME SearchInv, AnswerArrives
    PROVE  (LatestIsSearchedFor /\ ScreenFollowsSearch)'
<1> PICK c \in searches :
        ResultsArrive(c) \/ SearchFails(c) \/ SuggestionsArrive(c) \/ StaleAnswer(c)
  BY DEF AnswerArrives
<1>1. searchRequestId' = searchRequestId /\ searchedFor' = searchedFor
  BY DEF ResultsArrive, SearchFails, SuggestionsArrive, StaleAnswer
<1>2. CASE ResultsArrive(c)
  <2> DEFINE rest == [c EXCEPT !.awaits = "suggestions"]
  <2>1. rest.id = c.id /\ rest.query = c.query
    BY DEF SearchInv, SearchTypeOK, Searches
  <2>2. searchStatus' = "ready" /\ allRecords' = searchedFor'
    BY <1>1, <1>2 DEF ResultsArrive, SearchInv, LatestIsSearchedFor
  <2>3. searches' = (searches \ {c}) \cup {rest}
    BY <1>2 DEF ResultsArrive
  <2> QED
    BY <1>1, <2>1, <2>2, <2>3 DEF SearchInv, LatestIsSearchedFor, ScreenFollowsSearch, IsLatest
<1>3. CASE SearchFails(c)
  BY <1>1, <1>3 DEF SearchFails, Forget, SearchInv, LatestIsSearchedFor, ScreenFollowsSearch, IsLatest
<1>4. CASE SuggestionsArrive(c) \/ StaleAnswer(c)
  <2>1. searches' = searches \ {c} /\ UNCHANGED screenVars
    BY <1>4 DEF SuggestionsArrive, StaleAnswer, Forget
  <2>2. ~(IsLatest(c) /\ c.awaits = "results")
    BY <1>4 DEF SuggestionsArrive, StaleAnswer
  <2>3. Awaited => Awaited'
    BY <1>1, <2>1, <2>2 DEF Awaited, IsLatest
  <2> QED
    BY <1>1, <2>1, <2>3 DEF SearchInv, LatestIsSearchedFor, ScreenFollowsSearch, IsLatest, screenVars
<1> QED
  BY <1>2, <1>3, <1>4

\* Editing, submitting and turning the page keep the screen and the search together.
LEMMA UserKeeps ==
    ASSUME SearchInv, UserActs
    PROVE  (LatestIsSearchedFor /\ ScreenFollowsSearch)'
<1>1. ASSUME NEW q \in Terms, EditForm(q)
      PROVE  (LatestIsSearchedFor /\ ScreenFollowsSearch)'
  BY <1>1, FormKeeps DEF EditForm
<1>2. CASE SubmitSearch
  <2>1. searchForm \in Terms
    BY DEF SearchInv, SearchTypeOK
  <2> QED
    BY <1>2, <2>1, SearchKeeps DEF SubmitSearch
<1>3. ASSUME NEW q \in Queries, ChooseSearch(q)
      PROVE  (LatestIsSearchedFor /\ ScreenFollowsSearch)'
  <2>1. q \in Terms
    BY DEF Terms
  <2> QED
    BY <1>3, <2>1, SearchKeeps DEF ChooseSearch
<1>4. ASSUME NEW page \in PageNumbers, TurnPage(page)
      PROVE  (LatestIsSearchedFor /\ ScreenFollowsSearch)'
  BY <1>4, FormKeeps DEF TurnPage
<1>5. CASE ResetSearch
  BY <1>5, FormKeeps DEF ResetSearch
<1> QED
  BY <1>1, <1>2, <1>3, <1>4, <1>5 DEF UserActs

\* Whatever the order of the answers, the results on the screen are those of
\* the last search() called, and a page that is loading is still answered
\* (searchRequestIdRef in app/search/page.tsx).
THEOREM ScreenFollows == SearchSpec => []ScreenFollowsSearch
<1>1. SearchInit => LatestIsSearchedFor /\ ScreenFollowsSearch
  BY DEF SearchInit, LatestIsSearchedFor, ScreenFollowsSearch
<1>2. /\ SearchTypeOK /\ SearchTypeOK'
      /\ LatestIsSearchedFor /\ ScreenFollowsSearch /\ [SearchNext]_searchVars
      => (LatestIsSearchedFor /\ ScreenFollowsSearch)'
  <2> SUFFICES ASSUME SearchInv, [SearchNext]_searchVars
               PROVE  (LatestIsSearchedFor /\ ScreenFollowsSearch)'
    BY DEF SearchInv
  <2>1. CASE Mount
    BY <2>1, MountKeeps
  <2>2. CASE AnswerArrives
    BY <2>2, AnswerKeeps
  <2>3. CASE UserActs
    BY <2>3, UserKeeps
  <2>4. CASE UNCHANGED searchVars
    BY <2>4, FormKeeps DEF searchVars
  <2> QED
    BY <2>1, <2>2, <2>3, <2>4 DEF SearchNext
<1> QED
  BY <1>1, <1>2, SearchTypesHold, PTL DEF SearchSpec

-----------------------------------------------------------------------------
(* ScheduleTime: the guess and the one correction of resolveZonedInstant are *)
(* enough, so what the wizard and the dialog say of a reading is right.    *)

Zone == [before : Int, after : Int, change : Int]

\* The offset that the browser answers is an integer (getZoneOffsetMinutes).
LEMMA OffsetIsInt ==
    ASSUME NEW z \in Zone, NEW u \in Int
    PROVE  Offset(z, u) \in Int
  BY DEF Offset, Zone

\* resolveZonedInstant answers an instant, whatever the reading.
LEMMA ResolvedIsInt ==
    ASSUME NEW z \in Zone, NEW reading \in Int
    PROVE  Resolved(z, reading) \in Int
<1> DEFINE guess == reading - Offset(z, reading)
<1>1. Offset(z, reading) \in Int
  BY OffsetIsInt
<1>2. guess \in Int
  BY <1>1
<1>3. Offset(z, guess) \in Int
  BY <1>2, OffsetIsInt
<1> QED
  BY <1>1, <1>2, <1>3 DEF Resolved

\* A reading that the clocks of the zone show at some instant is resolved to
\* one at which they show it, on either side of a change, forward or back, of
\* any size: one correction of the first guess is enough.
LEMMA ShownIsFound ==
    ASSUME NEW z \in Zone, NEW u \in Int
    PROVE  Shows(z, Wall(z, u))
<1> DEFINE b == z.before
           a == z.after
           c == z.change
           reading == Wall(z, u)
           guess == reading - Offset(z, reading)
<1>1. b \in Int /\ a \in Int /\ c \in Int
  BY DEF Zone
<1>2. \A v \in Int : Offset(z, v) = IF v < c THEN b ELSE a
  BY DEF Offset
<1>3. reading = u + Offset(z, u) /\ reading \in Int
  BY <1>1, <1>2 DEF Wall
<1>4. guess \in Int
  BY <1>1, <1>2, <1>3
<1>5. CASE Offset(z, guess) = Offset(z, reading)
  <2>1. Resolved(z, reading) = guess
    BY <1>5 DEF Resolved
  <2>2. guess + Offset(z, guess) = reading
    BY <1>1, <1>2, <1>3, <1>4, <1>5
  <2> QED
    BY <2>1, <2>2 DEF Shows, Wall
<1>6. CASE Offset(z, guess) /= Offset(z, reading)
  <2> DEFINE r == reading - Offset(z, guess)
  <2>1. Resolved(z, reading) = r /\ r \in Int
    BY <1>1, <1>2, <1>3, <1>4, <1>6 DEF Resolved
  <2>2. Offset(z, r) = Offset(z, guess)
    BY <1>1, <1>2, <1>3, <1>4, <1>6, <2>1
  <2>3. r + Offset(z, r) = reading
    BY <1>1, <1>2, <1>3, <1>4, <2>1, <2>2
  <2> QED
    BY <2>1, <2>3 DEF Shows, Wall
<1> QED
  BY <1>5, <1>6

\* A reading that is refused as non-existent is never shown.
LEMMA RefusedIsNeverShown ==
    ASSUME NEW z \in Zone, NEW reading \in Int, ~Shows(z, reading)
    PROVE  \A u \in Int : Wall(z, u) /= reading
  BY ShownIsFound

-----------------------------------------------------------------------------

\* Readings and instants are integers, and only a form that was found valid
\* has sent its time (handleSubmit, handleRescheduleSubmit).
THEOREM ScheduleTypes == ScheduleSpec => []ScheduleTypeOK
<1>1. ScheduleInit => ScheduleTypeOK
  BY DEF ScheduleInit, ScheduleTypeOK, ClosedForm, Verdicts
<1>2. ScheduleTypeOK /\ [ScheduleNext]_scheduleVars => ScheduleTypeOK'
  <2> SUFFICES ASSUME ScheduleTypeOK, [ScheduleNext]_scheduleVars
               PROVE  ScheduleTypeOK'
    OBVIOUS
  <2> USE DEF ScheduleTypeOK
  <2>1. CASE Tick
    BY <2>1, ScheduleAssumption DEF Tick
  <2> DEFINE Forms == [open : BOOLEAN, value : Int, verdict : Verdicts, since : Nat]
  <2>0. ClosedForm \in Forms
    BY DEF ClosedForm, Verdicts
  <2>2. CASE OpenWizard
    <3>1. form' \in Forms
      BY <2>0, <2>2 DEF OpenWizard
    <3> QED
      BY <2>2, <3>1 DEF OpenWizard
  <2>3. CASE OpenDialog
    <3>1. PICK u \in scheduled \cap Instants : form' = [ClosedForm EXCEPT !.open = TRUE, !.value = u]
      BY <2>3 DEF OpenDialog
    <3>2. form' \in Forms
      BY <2>0, <3>1
    <3> QED
      BY <2>3, <3>2 DEF OpenDialog
  <2>4. ASSUME NEW reading \in Instants, TypeReading(reading)
        PROVE  ScheduleTypeOK'
    <3>1. "none" \in Verdicts /\ reading \in Int
      BY ScheduleAssumption DEF Verdicts, Instants
    <3>2. form' \in Forms
      BY <2>4, <3>1 DEF TypeReading
    <3> QED
      BY <2>4, <3>2 DEF TypeReading
  <2>5. CASE SubmitTime
    <3>1. zone \in Zone
      BY ScheduleAssumption DEF Zone
    <3>2. Resolved(zone, form.value) \in Int
      BY <3>1, ResolvedIsInt
    <3>3. Verdict(zone, form.value, now) \in Verdicts
      BY DEF Verdict, Verdicts
    <3> QED
      BY <2>5, <3>2, <3>3 DEF SubmitTime
  <2>6. CASE TimeAccepted
    BY <2>6 DEF TimeAccepted, ClosedForm, Verdicts
  <2>7. CASE TimeRefused
    BY <2>7 DEF TimeRefused, Verdicts
  <2>8. CASE CloseForm
    BY <2>8 DEF CloseForm, ClosedForm, Verdicts
  <2>9. CASE UNCHANGED scheduleVars
    BY <2>9 DEF scheduleVars
  <2> QED
    BY <2>1, <2>2, <2>3, <2>4, <2>5, <2>6, <2>7, <2>8, <2>9 DEF ScheduleNext
<1> QED
  BY <1>1, <1>2, PTL DEF ScheduleSpec

\* What validateScheduleTime says of a reading is right in every zone and at
\* every change of its clocks: a time that is sent is one at which the clocks
\* show what the form shows and that was still to come, and a reading refused
\* as non-existent is one that they never show.
THEOREM VerdictsAreRight == ScheduleSpec => []VerdictIsRight
<1>1. ScheduleInit => VerdictIsRight
  BY DEF ScheduleInit, VerdictIsRight, ClosedForm
<1>2. ScheduleTypeOK /\ VerdictIsRight /\ [ScheduleNext]_scheduleVars => VerdictIsRight'
  <2> SUFFICES ASSUME ScheduleTypeOK, VerdictIsRight, [ScheduleNext]_scheduleVars
               PROVE  VerdictIsRight'
    OBVIOUS
  <2> DEFINE Window == -MaxTime..(2 * MaxTime)
  <2>0. zone \in Zone /\ Window \subseteq Int /\ form.value \in Int
    BY ScheduleAssumption DEF ScheduleTypeOK, Zone
  <2>1. CASE Tick
    BY <2>1 DEF Tick, VerdictIsRight
  <2>2. CASE OpenWizard
    BY <2>2 DEF OpenWizard, ClosedForm, VerdictIsRight
  <2>3. CASE OpenDialog
    BY <2>3 DEF OpenDialog, ClosedForm, VerdictIsRight
  <2>4. ASSUME NEW reading \in Instants, TypeReading(reading)
        PROVE  VerdictIsRight'
    BY <2>4 DEF TypeReading, VerdictIsRight, ScheduleTypeOK
  <2>5. CASE SubmitTime
    <3> DEFINE verdict == Verdict(zone, form.value, now)
               r == Resolved(zone, form.value)
    <3>1. /\ form'.verdict = verdict /\ form'.value = form.value /\ form'.since = now
          /\ sent' = IF verdict = "valid" THEN {r} ELSE {}
          /\ zone' = zone
      BY <2>5 DEF SubmitTime, ScheduleTypeOK
    <3>2. r \in Int
      BY <2>0, ResolvedIsInt
    <3>3. ASSUME verdict = "valid"
          PROVE  Wall(zone, r) = form.value /\ r > now
      BY <3>3, <3>2, <2>0 DEF Verdict, Shows, ScheduleTypeOK
    <3>4. ASSUME verdict = "dst-gap"
          PROVE  \A u \in Window : Wall(zone, u) /= form.value
      <4>1. ~Shows(zone, form.value)
        BY <3>4 DEF Verdict
      <4> QED
        BY <4>1, <2>0, RefusedIsNeverShown
    <3> QED
      BY <3>1, <3>3, <3>4 DEF VerdictIsRight
  <2>6. CASE TimeAccepted
    BY <2>6 DEF TimeAccepted, ClosedForm, VerdictIsRight
  <2>7. CASE TimeRefused
    BY <2>7 DEF TimeRefused, VerdictIsRight, ScheduleTypeOK
  <2>8. CASE CloseForm
    BY <2>8 DEF CloseForm, ClosedForm, VerdictIsRight
  <2>9. CASE UNCHANGED scheduleVars
    BY <2>9 DEF scheduleVars, VerdictIsRight
  <2> QED
    BY <2>1, <2>2, <2>3, <2>4, <2>5, <2>6, <2>7, <2>8, <2>9 DEF ScheduleNext
<1> QED
  BY <1>1, <1>2, ScheduleTypes, PTL DEF ScheduleSpec

-----------------------------------------------------------------------------
(* AuthSession: tabs rotate one cookie.                                    *)

\* A call has its new tokens, or will have them once its update is written.
Pend(t, k) == call[t][k].token /= 0

\* Whatever carries a token carries one that was issued.
Numbered ==
    /\ \A s \in sessions : s.current \in 1..issued /\ s.id \in 1..issued
    /\ \A u \in updates : u.token \in 1..issued /\ u.seen \in 1..issued
    /\ cookie \in 0..issued
    /\ \A t \in Tabs, k \in Kinds :
          /\ call[t][k].cookie \in 0..issued /\ call[t][k].token \in 0..issued
          /\ call[t][k].code = "ok" => call[t][k].token /= 0

\* Tokens nobody has heard of are of one call each.  No cookie is one of them, so
\* that no update has read one: once written it is current, or was overwritten.
Secret(t, k) ==
    /\ call[t][k].sent /\ call[t][k].code \in {"none", "ok"}
    /\ cookie /= call[t][k].token
    /\ call[t][k].code = "ok" => HoldersOf(call[t][k].token) /= {} \/ call[t][k].token \in erased
    /\ \A u \in updates : u.seen /= call[t][k].token
    /\ \A v \in Tabs, l \in Kinds :
          /\ call[v][l].cookie /= call[t][k].token
          /\ call[v][l].token = call[t][k].token => v = t /\ l = k
UnheardTokens == \A t \in Tabs, k \in Kinds : Pend(t, k) => Secret(t, k)

\* A call waits for an update.
WaitedFor(u) == \E t \in Tabs, k \in Kinds : call[t][k].token = u.token /\ call[t][k].code = "none"

\* The tokens of the updates are not yet in any session, and each is of one update.
FreshUpdates ==
    /\ \A u \in updates, s \in sessions : s.current /= u.token
    /\ \A u, v \in updates : u.token = v.token => u = v
    /\ ~disturbed => \A u \in updates : WaitedFor(u)

\* The cookie was rotated away from, and what it was rotated to is on its way.
OnItsWay == \E s \in InGrace(cookie), t \in Tabs, k \in Kinds : call[t][k].token = s.current

\* Until an answer is lost, a cookie that is set is current in a session, or was
\* overwritten, or is in the grace of a session whose new token is on its way.
Kept == ~disturbed => cookie = 0 \/ HoldersOf(cookie) /= {} \/ cookie \in erased \/ OnItsWay

\* The inductive invariant.  The cookie lives because what it was rotated to is
\* either heard, or on its way to the one call that will set it.
AuthInv == AuthTypeOK /\ Numbered /\ UnheardTokens /\ FreshUpdates /\ Kept

\* The types of the parts, each on its own.
LEMMA AuthTypes ==
    ASSUME AuthTypeOK
    PROVE  /\ tab \in [Tabs -> [status : Statuses, token : Tokens]]
           /\ call \in [Tabs -> [Kinds -> Calls]]
           /\ \A t \in Tabs, k \in Kinds : call[t][k] \in Calls
           /\ cookie \in Tokens /\ issued \in Tokens /\ issued \in Nat
           /\ sessions \subseteq Sessions /\ updates \subseteq Updates /\ erased \subseteq Tokens
           /\ \A s, r \in sessions : s.current = r.current \/ s.id = r.id => s = r
           /\ disturbed \in BOOLEAN /\ loads \in 0..MaxLoads /\ losses \in 0..MaxLosses
BY AuthAssumption DEF AuthTypeOK, Tokens

\* Nothing asked, nothing mounted, no token: what the tabs start from.
LEMMA AuthZero == 0 \in Tokens /\ NoCall \in Calls /\ Unmounted \in [status : Statuses, token : Tokens]
              /\ NoCall.code = "none" /\ NoCall.token = 0 /\ NoCall.cookie = 0 /\ ~NoCall.sent
BY AuthAssumption DEF Tokens, NoCall, Calls, Codes, Unmounted, Statuses

\* A call that has no answer carries the cookie of now, or of when it was sent.
LEMMA AskingIs ==
    ASSUME AuthTypeOK
    PROVE  Asking \in Calls /\ Asking.code = "none" /\ Asking.token = 0 /\ Asking.cookie = cookie
BY AuthTypes, AuthZero DEF Asking, NoCall, Calls

\* An answer changes the code and the token of one call.
LEMMA AnsweredIs ==
    ASSUME AuthTypeOK, NEW t \in Tabs, NEW k \in Kinds, NEW code \in Codes, NEW token \in Tokens,
           Answered(t, k, code, token)
    PROVE  /\ call' \in [Tabs -> [Kinds -> Calls]]
           /\ call'[t][k].code = code /\ call'[t][k].token = token
           /\ call'[t][k].cookie = call[t][k].cookie /\ call'[t][k].sent = call[t][k].sent
           /\ \A u \in Tabs, l \in Kinds : u /= t \/ l /= k => call'[u][l] = call[u][l]
<1>1. call[t][k] \in Calls /\ call \in [Tabs -> [Kinds -> Calls]]
  BY AuthTypes
<1>2. [[call[t][k] EXCEPT !.code = code] EXCEPT !.token = token] \in Calls
  BY <1>1 DEF Calls
<1> QED
  BY <1>1, <1>2 DEF Answered, Calls

\* What is known of a call with tokens, with the definitions expanded.
LEMMA SecretIs ==
    ASSUME AuthInv, NEW t \in Tabs, NEW k \in Kinds, call[t][k].token /= 0
    PROVE  /\ call[t][k].sent /\ call[t][k].code \in {"none", "ok"}
           /\ call[t][k].token \in 1..issued
           /\ cookie /= call[t][k].token
           /\ call[t][k].code = "ok" => HoldersOf(call[t][k].token) /= {} \/ call[t][k].token \in erased
           /\ \A u \in updates : u.seen /= call[t][k].token
           /\ \A v \in Tabs, l \in Kinds :
                 /\ call[v][l].cookie /= call[t][k].token
                 /\ call[v][l].token = call[t][k].token => v = t /\ l = k
BY AuthTypes DEF AuthInv, Numbered, UnheardTokens, Secret, Pend

\* What a call that ends without new tokens leaves true.
LEMMA NothingIssued ==
    ASSUME AuthInv, UNCHANGED <<sessions, cookie, issued, updates, erased>>,
           disturbed => disturbed',
           \A v \in Tabs, l \in Kinds :
               \/ call'[v][l] = call[v][l]
               \/ /\ call'[v][l].token = 0 /\ call'[v][l].code /= "ok"
                  /\ call'[v][l].cookie \in {0, cookie, call[v][l].cookie}
                  /\ call[v][l].token /= 0 => disturbed'
    PROVE  Numbered' /\ UnheardTokens' /\ FreshUpdates' /\ Kept'
<1>0. issued \in Nat /\ Numbered /\ UnheardTokens /\ FreshUpdates /\ Kept
  BY AuthTypes DEF AuthInv
<1>2. Numbered'
  BY <1>0 DEF Numbered
<1>3. UnheardTokens'
  <2> SUFFICES ASSUME NEW t \in Tabs, NEW k \in Kinds, Pend(t, k)'
               PROVE  Secret(t, k)'
    BY DEF UnheardTokens
  <2>1. call'[t][k] = call[t][k] /\ call[t][k].token /= 0
    BY DEF Pend
  <2>2. /\ call[t][k].sent /\ call[t][k].code \in {"none", "ok"}
        /\ call[t][k].token \in 1..issued
        /\ cookie /= call[t][k].token
        /\ call[t][k].code = "ok" => HoldersOf(call[t][k].token) /= {} \/ call[t][k].token \in erased
        /\ \A u \in updates : u.seen /= call[t][k].token
        /\ \A v \in Tabs, l \in Kinds :
              /\ call[v][l].cookie /= call[t][k].token
              /\ call[v][l].token = call[t][k].token => v = t /\ l = k
    BY <2>1, SecretIs
  <2>3. \A v \in Tabs, l \in Kinds :
              /\ call'[v][l].cookie /= call[t][k].token
              /\ call'[v][l].token = call[t][k].token => v = t /\ l = k
    BY <1>0, <2>1, <2>2
  <2> QED
    BY <2>1, <2>2, <2>3 DEF HoldersOf, Secret
<1>4. FreshUpdates'
  <2>1. ASSUME ~disturbed', NEW u \in updates PROVE WaitedFor(u)'
    <3>1. PICK t \in Tabs, k \in Kinds : call[t][k].token = u.token /\ call[t][k].code = "none"
      BY <1>0, <2>1 DEF FreshUpdates, WaitedFor
    <3>2. call[t][k].token /= 0
      BY <1>0, <3>1 DEF Numbered
    <3>3. call'[t][k] = call[t][k]
      BY <2>1, <3>2
    <3> QED
      BY <3>1, <3>3 DEF WaitedFor
  <2> QED
    BY <1>0, <2>1 DEF FreshUpdates
<1>5. Kept'
  <2> SUFFICES ASSUME ~disturbed'
               PROVE  cookie' = 0 \/ HoldersOf(cookie)' /= {} \/ cookie' \in erased' \/ OnItsWay'
    BY DEF Kept
  <2>1. CASE cookie = 0 \/ HoldersOf(cookie) /= {} \/ cookie \in erased
    BY <2>1 DEF HoldersOf
  <2>2. CASE OnItsWay
    <3>1. PICK s \in InGrace(cookie), t \in Tabs, k \in Kinds : call[t][k].token = s.current
      BY <2>2 DEF OnItsWay
    <3>2. s \in InGrace(cookie)' /\ call[t][k].token /= 0
      BY <1>0, <3>1 DEF InGrace, Numbered
    <3>3. call'[t][k] = call[t][k]
      BY <3>2
    <3> QED
      BY <3>1, <3>2, <3>3 DEF OnItsWay
  <2> QED
    BY <1>0, <2>1, <2>2 DEF Kept
<1> QED
  BY <1>2, <1>3, <1>4, <1>5

\* What serving a call with tokens of its own leaves true: those that nobody knows
\* yet, in an update still to be written or in a session made for them.
LEMMA TokensIssued ==
    ASSUME AuthInv, NEW t \in Tabs, NEW k \in Kinds, NEW code \in {"none", "ok"},
           Unserved(t, k), issued < MaxTokens, issued' = issued + 1,
           Answered(t, k, code, issued + 1), UNCHANGED <<cookie, disturbed, erased>>,
           sessions \subseteq sessions',
           \A s \in sessions' : s \in sessions \/ (code = "ok" /\ s.current = issued + 1 /\ s.id = issued + 1),
           code = "ok" => \E s \in sessions' : s.current = issued + 1,
           updates \subseteq updates',
           \A u \in updates' : u \in updates \/ (code = "none" /\ u.token = issued + 1 /\ u.seen \in 1..issued
                                                 /\ u.seen = call[t][k].cookie),
           \A u, v \in updates' : u.token = v.token => u = v
    PROVE  Numbered' /\ UnheardTokens' /\ FreshUpdates' /\ Kept'
<1>0. /\ issued \in Nat /\ issued + 1 \in Tokens /\ code \in Codes /\ AuthTypeOK
      /\ Numbered /\ FreshUpdates /\ Kept
  BY AuthTypes, AuthAssumption DEF Tokens, Codes, AuthInv
<1>1. /\ call'[t][k].code = code /\ call'[t][k].token = issued + 1
      /\ call'[t][k].cookie = call[t][k].cookie /\ call'[t][k].sent
      /\ \A u \in Tabs, l \in Kinds : u /= t \/ l /= k => call'[u][l] = call[u][l]
  <2>1. call[t][k].sent
    BY DEF Unserved
  <2> QED
    BY <1>0, <2>1, AnsweredIs
<1>2. /\ \A u \in Tabs, l \in Kinds :
            /\ call[u][l].cookie \in 0..issued /\ call[u][l].token \in 0..issued
            /\ call[u][l].code = "ok" => call[u][l].token /= 0
      /\ cookie \in 0..issued
      /\ \A s \in sessions : s.current \in 1..issued /\ s.id \in 1..issued
      /\ \A u \in updates : u.token \in 1..issued /\ u.seen \in 1..issued
  BY <1>0 DEF Numbered
<1>3. Numbered'
  <2>1. \A s \in sessions' : s.current \in 1..issued' /\ s.id \in 1..issued'
    BY <1>0, <1>2
  <2>2. \A u \in updates' : u.token \in 1..issued' /\ u.seen \in 1..issued'
    BY <1>0, <1>2
  <2>3. \A u \in Tabs, l \in Kinds :
           /\ call'[u][l].cookie \in 0..issued' /\ call'[u][l].token \in 0..issued'
           /\ call'[u][l].code = "ok" => call'[u][l].token /= 0
    BY <1>0, <1>1, <1>2
  <2> QED
    BY <1>0, <1>2, <2>1, <2>2, <2>3 DEF Numbered
<1>4. UnheardTokens'
  <2> SUFFICES ASSUME NEW v \in Tabs, NEW i \in Kinds, Pend(v, i)'
               PROVE  Secret(v, i)'
    BY DEF UnheardTokens
  <2>1. CASE v = t /\ i = k
    <3>1. code = "ok" => (HoldersOf(call[v][i].token) /= {})'
      BY <1>1, <2>1 DEF HoldersOf
    <3>2. \A u \in Tabs, l \in Kinds :
             /\ call'[u][l].cookie /= issued + 1
             /\ call'[u][l].token = issued + 1 => u = v /\ l = i
      BY <1>0, <1>1, <1>2, <2>1
    <3>3. \A u \in updates' : u.seen /= issued + 1
      BY <1>0, <1>2
    <3>4. cookie' /= issued + 1 /\ call'[v][i].sent
      BY <1>0, <1>1, <1>2, <2>1 DEF Unserved
    <3> QED
      BY <1>1, <2>1, <3>1, <3>2, <3>3, <3>4 DEF Secret
  <2>2. CASE v /= t \/ i /= k
    <3>1. call'[v][i] = call[v][i] /\ call[v][i].token /= 0
      BY <1>1, <2>2 DEF Pend
    <3>2. /\ call[v][i].sent /\ call[v][i].code \in {"none", "ok"}
          /\ call[v][i].token \in 1..issued
          /\ cookie /= call[v][i].token
          /\ call[v][i].code = "ok" => HoldersOf(call[v][i].token) /= {} \/ call[v][i].token \in erased
          /\ \A u \in updates : u.seen /= call[v][i].token
          /\ \A u \in Tabs, l \in Kinds :
                /\ call[u][l].cookie /= call[v][i].token
                /\ call[u][l].token = call[v][i].token => u = v /\ l = i
      BY <3>1, SecretIs
    <3>3. call[v][i].code = "ok" =>
             (HoldersOf(call[v][i].token) /= {} \/ call[v][i].token \in erased)'
      BY <3>1, <3>2 DEF HoldersOf
    <3>4. \A u \in updates' : u.seen /= call[v][i].token
      BY <3>2
    <3>5. \A u \in Tabs, l \in Kinds :
             /\ call'[u][l].cookie /= call[v][i].token
             /\ call'[u][l].token = call[v][i].token => u = v /\ l = i
      BY <1>0, <1>1, <3>2
    <3> QED
      BY <3>1, <3>2, <3>3, <3>4, <3>5 DEF Secret
  <2> QED
    BY <2>1, <2>2
<1>5. FreshUpdates'
  <2>1. \A u \in updates', s \in sessions' : s.current /= u.token
    <3>1. \A u \in updates, s \in sessions : s.current /= u.token
      BY <1>0 DEF FreshUpdates
    <3> QED
      BY <1>0, <1>2, <3>1
  <2>2. ASSUME ~disturbed', NEW u \in updates' PROVE WaitedFor(u)'
    <3>1. CASE u \in updates
      <4>1. PICK v \in Tabs, i \in Kinds : call[v][i].token = u.token /\ call[v][i].code = "none"
        BY <1>0, <2>2, <3>1 DEF FreshUpdates, WaitedFor
      <4>2. v /= t \/ i /= k
        BY <1>2, <3>1, <4>1 DEF Unserved
      <4> QED
        BY <1>1, <4>1, <4>2 DEF WaitedFor
    <3>2. CASE code = "none" /\ u.token = issued + 1
      BY <1>1, <3>2 DEF WaitedFor
    <3> QED
      BY <2>2, <3>1, <3>2
  <2> QED
    BY <2>1, <2>2 DEF FreshUpdates
<1>6. Kept'
  <2> SUFFICES ASSUME ~disturbed'
               PROVE  cookie' = 0 \/ HoldersOf(cookie)' /= {} \/ cookie' \in erased' \/ OnItsWay'
    BY DEF Kept
  <2>1. CASE cookie = 0 \/ HoldersOf(cookie) /= {} \/ cookie \in erased
    BY <2>1 DEF HoldersOf
  <2>2. CASE OnItsWay
    <3>1. PICK s \in InGrace(cookie), v \in Tabs, i \in Kinds : call[v][i].token = s.current
      BY <2>2 DEF OnItsWay
    <3>2. s \in InGrace(cookie)' /\ call[v][i].token /= 0
      BY <1>2, <3>1 DEF InGrace
    <3>3. v /= t \/ i /= k
      BY <3>2 DEF Unserved
    <3> QED
      BY <1>1, <3>1, <3>2, <3>3 DEF OnItsWay
  <2> QED
    BY <1>0, <2>1, <2>2 DEF Kept
<1> QED
  BY <1>3, <1>4, <1>5, <1>6

\* Serving a refresh.
LEMMA RefreshStep ==
    ASSUME AuthInv, NEW t \in Tabs, NEW k \in Kinds, ServeRefresh(t, k)
    PROVE  AuthInv'
<1>0. /\ Unserved(t, k) /\ UNCHANGED <<tab, cookie, disturbed, loads, losses>>
      /\ Refresh(t, k) /\ AuthTypeOK /\ Numbered /\ FreshUpdates
  BY DEF ServeRefresh, AuthInv
<1>1. CASE ~Alive(call[t][k].cookie) /\ Answered(t, k, "UNAUTHENTICATED", 0) /\ UNCHANGED serverVars
  <2>1. "UNAUTHENTICATED" \in Codes /\ 0 \in Tokens
    BY AuthZero DEF Codes
  <2>2. /\ call' \in [Tabs -> [Kinds -> Calls]]
        /\ call'[t][k].code = "UNAUTHENTICATED" /\ call'[t][k].token = 0
        /\ call'[t][k].cookie = call[t][k].cookie
        /\ \A u \in Tabs, l \in Kinds : u /= t \/ l /= k => call'[u][l] = call[u][l]
    BY <1>0, <1>1, <2>1, AnsweredIs
  <2>3. Numbered' /\ UnheardTokens' /\ FreshUpdates' /\ Kept'
    <3>1. call[t][k].token = 0 /\ UNCHANGED <<sessions, cookie, issued, updates, erased>>
          /\ disturbed' = disturbed
      BY <1>0, <1>1 DEF serverVars, Unserved
    <3> QED
      BY <2>2, <3>1, NothingIssued
  <2>4. AuthTypeOK'
    BY <1>0, <1>1, <2>2 DEF serverVars, AuthTypeOK
  <2> QED
    BY <2>3, <2>4 DEF AuthInv
<1>2. ASSUME NEW code \in {"none", "ok"}, issued < MaxTokens, issued' = issued + 1,
             Answered(t, k, code, issued + 1)
      PROVE  /\ issued + 1 \in Tokens /\ issued \in Nat
             /\ call' \in [Tabs -> [Kinds -> Calls]]
  <2>1. issued + 1 \in Tokens /\ issued \in Nat /\ code \in Codes
    BY <1>0, <1>2, AuthTypes, AuthAssumption DEF Tokens, Codes
  <2> QED
    BY <1>0, <1>2, <2>1, AnsweredIs
<1>3. /\ \A s \in sessions : s.current \in 1..issued /\ s.id \in 1..issued
      /\ \A u \in updates : u.token \in 1..issued
      /\ \A u, v \in updates : u.token = v.token => u = v
      /\ sessions \subseteq Sessions /\ updates \subseteq Updates
      /\ \A s, r \in sessions : s.current = r.current \/ s.id = r.id => s = r
  BY <1>0, AuthTypes DEF Numbered, FreshUpdates
<1>4. ASSUME NEW c, c = call[t][k].cookie, NEW s \in HoldersOf(c), NEW n, n = issued + 1,
             issued < MaxTokens, issued' = n, Answered(t, k, "none", n),
             updates' = updates \cup {[id |-> s.id, seen |-> c, token |-> n]},
             UNCHANGED <<sessions, erased>>
      PROVE  AuthInv'
  <2>1. s \in sessions /\ s.current = c /\ c \in 1..issued /\ c \in Tokens /\ s.id \in Tokens
    BY <1>3, <1>4 DEF HoldersOf, Sessions
  <2>2. n \in Tokens /\ issued \in Nat /\ call' \in [Tabs -> [Kinds -> Calls]]
    BY <1>2, <1>4
  <2>3. PICK w : w = [id |-> s.id, seen |-> c, token |-> n]
    OBVIOUS
  <2>4. w \in Updates /\ w.token = n /\ w.seen = c /\ updates' = updates \cup {w}
    BY <1>4, <2>1, <2>2, <2>3 DEF Updates
  <2>5. \A u, v \in updates' : u.token = v.token => u = v
    BY <1>3, <1>4, <2>2, <2>4
  <2>6. Numbered' /\ UnheardTokens' /\ FreshUpdates' /\ Kept'
    <3>1. \A u \in updates' : u \in updates \/ (u.token = issued + 1 /\ u.seen \in 1..issued
                                                 /\ u.seen = call[t][k].cookie)
      BY <1>4, <2>1, <2>4
    <3>2. /\ Answered(t, k, "none", issued + 1) /\ issued' = issued + 1 /\ issued < MaxTokens
          /\ sessions' = sessions /\ updates \subseteq updates'
      BY <1>4, <2>4
    <3>3. UNCHANGED <<cookie, disturbed, erased>> /\ Unserved(t, k)
      BY <1>0, <1>4
    <3> QED
      BY <2>5, <3>1, <3>2, <3>3, TokensIssued
  <2>7. AuthTypeOK'
    <3>1. UNCHANGED <<tab, cookie, disturbed, loads, losses, sessions, erased>>
      BY <1>0, <1>4
    <3>2. issued' \in Tokens /\ updates' \subseteq Updates
      BY <1>3, <1>4, <2>2, <2>4
    <3> QED
      BY <1>0, <2>2, <3>1, <3>2 DEF AuthTypeOK
  <2> QED
    BY <2>6, <2>7 DEF AuthInv
<1>5. ASSUME NEW n, n = issued + 1,
             issued < MaxTokens, issued' = n, Answered(t, k, "ok", n),
             sessions' = sessions \cup {New(n)}, UNCHANGED <<updates, erased>>
      PROVE  AuthInv'
  <2>1. n \in Tokens /\ issued \in Nat /\ call' \in [Tabs -> [Kinds -> Calls]]
    BY <1>2, <1>5
  <2>2. /\ New(n) \in Sessions /\ New(n).current = n /\ New(n).id = n
    BY <2>1, AuthZero DEF New, Sessions
  <2> HIDE DEF New
  <2>3. sessions' \subseteq Sessions
    BY <1>3, <1>5, <2>2
  <2>4. \A s, r \in sessions' : s.current = r.current \/ s.id = r.id => s = r
    BY <1>3, <1>5, <2>1, <2>2
  <2>5. New(n) \in sessions' /\ sessions \subseteq sessions'
    BY <1>5
  <2>6. Numbered' /\ UnheardTokens' /\ FreshUpdates' /\ Kept'
    <3>1. \A s \in sessions' : s \in sessions \/ (s.current = issued + 1 /\ s.id = issued + 1)
      BY <1>5, <2>2
    <3>2. \E s \in sessions' : s.current = issued + 1
      BY <1>5, <2>2, <2>5
    <3>3. Answered(t, k, "ok", issued + 1) /\ issued' = issued + 1 /\ issued < MaxTokens
      BY <1>5
    <3>4. UNCHANGED <<cookie, disturbed, erased, updates>> /\ Unserved(t, k)
      BY <1>0, <1>5
    <3> QED
      BY <1>3, <2>5, <3>1, <3>2, <3>3, <3>4, TokensIssued
  <2>7. AuthTypeOK'
    <3>1. UNCHANGED <<tab, cookie, disturbed, loads, losses, updates, erased>> /\ issued' \in Tokens
      BY <1>0, <1>5, <2>1
    <3> QED
      BY <1>0, <2>1, <2>3, <2>4, <3>1 DEF AuthTypeOK
  <2> QED
    BY <2>6, <2>7 DEF AuthInv
<1> QED
  BY <1>0, <1>1, <1>4, <1>5 DEF Refresh

\* An update is written: it serves one call, and replaces the token that it was
\* found with, or removes from the session whatever has come since.
LEMMA RotateStep ==
    ASSUME AuthInv, Rotate
    PROVE  AuthInv'
<1>0. AuthTypeOK /\ Numbered /\ UnheardTokens /\ FreshUpdates /\ Kept
  BY DEF AuthInv
<1>1. PICK u \in updates, s \in sessions :
        /\ s.id = u.id
        /\ sessions' = (sessions \ {s}) \cup {Rotated(s, u)}
        /\ updates' = updates \ {u}
        /\ erased' = erased \cup Overwritten(s, u)
        /\ call' = [t \in Tabs |-> [k \in Kinds |->
                       IF call[t][k].token = u.token THEN [call[t][k] EXCEPT !.code = "ok"]
                       ELSE call[t][k]]]
        /\ UNCHANGED <<tab, cookie, issued, disturbed, loads, losses>>
  BY DEF Rotate
<1>2. PICK q : q = Rotated(s, u)
  OBVIOUS
<1>3. s \in Sessions /\ u \in Updates
  BY <1>0, AuthTypes
<1>4. /\ q \in Sessions /\ q.id = s.id /\ q.current = u.token /\ q.previous = u.seen /\ q.grace
  BY <1>2, <1>3 DEF Rotated, Sessions, Updates
<1>5. /\ \A r \in sessions' : (r \in sessions /\ r /= s) \/ r = q
      /\ \A r \in sessions : r /= s => r \in sessions'
      /\ q \in sessions'
  BY <1>1, <1>2
<1>6. /\ \A t \in Tabs, k \in Kinds : call[t][k] \in Calls
      /\ \A r, p \in sessions : r.current = p.current \/ r.id = p.id => r = p
      /\ sessions \subseteq Sessions /\ erased \subseteq Tokens
      /\ issued \in Nat
  BY <1>0, AuthTypes
<1>7. /\ \A v \in updates, r \in sessions : r.current /= v.token
      /\ \A v \in updates : v.token = u.token => v = u
      /\ u.token \in 1..issued /\ u.seen \in 1..issued
      /\ s.current \in 1..issued /\ s.id \in 1..issued
  BY <1>0 DEF FreshUpdates, Numbered
<1>8. /\ \A t \in Tabs, k \in Kinds :
            /\ call'[t][k] \in Calls
            /\ call'[t][k].sent = call[t][k].sent
            /\ call'[t][k].cookie = call[t][k].cookie
            /\ call'[t][k].token = call[t][k].token
            /\ call[t][k].token = u.token => call'[t][k].code = "ok"
            /\ call[t][k].token /= u.token => call'[t][k].code = call[t][k].code
      /\ call' \in [Tabs -> [Kinds -> Calls]]
  <2>1. ASSUME NEW t \in Tabs, NEW k \in Kinds
        PROVE  /\ call'[t][k] \in Calls
               /\ call'[t][k].sent = call[t][k].sent
               /\ call'[t][k].cookie = call[t][k].cookie
               /\ call'[t][k].token = call[t][k].token
               /\ call[t][k].token = u.token => call'[t][k].code = "ok"
               /\ call[t][k].token /= u.token => call'[t][k].code = call[t][k].code
    <3>1. call'[t][k] = IF call[t][k].token = u.token THEN [call[t][k] EXCEPT !.code = "ok"]
                        ELSE call[t][k]
      BY <1>1
    <3>2. call[t][k] \in Calls /\ "ok" \in Codes
      BY <1>6 DEF Codes
    <3> QED
      BY <3>1, <3>2 DEF Calls
  <2>2. call' \in [Tabs -> [Kinds -> Calls]]
    BY <1>1, <2>1
  <2> QED
    BY <2>1, <2>2
<1>9. \A n : n \in Overwritten(s, u) <=> s.current /= u.seen /\ n \in {s.current, s.previous} /\ n /= u.seen
  BY DEF Overwritten
<1>10. AuthTypeOK'
  <2>1. sessions' \subseteq Sessions
    BY <1>4, <1>5, <1>6
  <2>2. \A r, p \in sessions' : r.current = p.current \/ r.id = p.id => r = p
    BY <1>1, <1>4, <1>5, <1>6, <1>7
  <2>3. erased' \subseteq Tokens
    BY <1>1, <1>3, <1>6, <1>9 DEF Sessions
  <2>4. updates' \subseteq Updates
    BY <1>0, <1>1, AuthTypes
  <2> QED
    BY <1>0, <1>1, <1>8, <2>1, <2>2, <2>3, <2>4 DEF AuthTypeOK
<1>11. Numbered'
  <2>1. \A r \in sessions' : r.current \in 1..issued /\ r.id \in 1..issued
    BY <1>0, <1>4, <1>5, <1>7 DEF Numbered
  <2> QED
    BY <1>0, <1>1, <1>8, <2>1 DEF Numbered
<1>12. \A n : HoldersOf(n) /= {} => (\E r \in sessions' : r.current = n) \/ n = s.current
  BY <1>5 DEF HoldersOf
<1>13. UnheardTokens'
  <2> SUFFICES ASSUME NEW t \in Tabs, NEW k \in Kinds, Pend(t, k)'
               PROVE  Secret(t, k)'
    BY DEF UnheardTokens
  <2>1. PICK n : n = call[t][k].token
    OBVIOUS
  <2>2. n /= 0 /\ call'[t][k].token = n
    BY <1>8, <2>1 DEF Pend
  <2>3. /\ call[t][k].sent /\ call[t][k].code \in {"none", "ok"}
        /\ cookie /= n
        /\ call[t][k].code = "ok" => HoldersOf(n) /= {} \/ n \in erased
        /\ \A v \in updates : v.seen /= n
        /\ \A v \in Tabs, l \in Kinds :
              /\ call[v][l].cookie /= n
              /\ call[v][l].token = n => v = t /\ l = k
    BY <2>1, <2>2, SecretIs
  <2>4. call'[t][k].code = "ok" => (\E r \in sessions' : r.current = n) \/ n \in erased'
    <3>1. CASE n = u.token
      BY <1>4, <1>5, <3>1
    <3>2. CASE n /= u.token /\ call[t][k].code = "ok"
      <4>1. CASE n = s.current
        <5>1. n \in Overwritten(s, u)
          BY <1>9, <2>3, <4>1
        <5> QED
          BY <1>1, <5>1
      <4>2. CASE n /= s.current
        BY <1>1, <1>12, <2>3, <3>2, <4>2
      <4> QED
        BY <4>1, <4>2
    <3> QED
      BY <1>8, <2>1, <3>1, <3>2
  <2>5. call'[t][k].code \in {"none", "ok"}
    BY <1>8, <2>3
  <2>6. /\ \A v \in updates' : v.seen /= n
        /\ \A v \in Tabs, l \in Kinds :
              /\ call'[v][l].cookie /= n
              /\ call'[v][l].token = n => v = t /\ l = k
    BY <1>1, <1>8, <2>3
  <2>7. call'[t][k].code = "ok" =>
           (HoldersOf(call[t][k].token) /= {} \/ call[t][k].token \in erased)'
    BY <2>2, <2>4 DEF HoldersOf
  <2> QED
    BY <1>1, <1>8, <2>2, <2>3, <2>5, <2>6, <2>7 DEF Secret
<1>14. FreshUpdates'
  <2>1. \A v \in updates', r \in sessions' : r.current /= v.token
    BY <1>1, <1>4, <1>5, <1>7
  <2>2. \A v, w \in updates' : v.token = w.token => v = w
    BY <1>0, <1>1 DEF FreshUpdates
  <2>3. ASSUME ~disturbed', NEW v \in updates' PROVE WaitedFor(v)'
    <3>1. PICK t \in Tabs, k \in Kinds : call[t][k].token = v.token /\ call[t][k].code = "none"
      BY <1>0, <1>1, <2>3 DEF FreshUpdates, WaitedFor
    <3>2. v.token /= u.token
      BY <1>1, <1>7, <2>3
    <3> QED
      BY <1>8, <3>1, <3>2 DEF WaitedFor
  <2> QED
    BY <2>1, <2>2, <2>3 DEF FreshUpdates
<1>15. Kept'
  <2> SUFFICES ASSUME ~disturbed', cookie /= 0
               PROVE  HoldersOf(cookie)' /= {} \/ cookie \in erased' \/ OnItsWay'
    BY <1>1 DEF Kept
  <2>1. PICK t \in Tabs, k \in Kinds : call[t][k].token = u.token
    BY <1>0, <1>1 DEF FreshUpdates, WaitedFor
  <2>2. cookie = u.seen => OnItsWay'
    <3>1. ASSUME cookie = u.seen PROVE q \in InGrace(cookie)'
      BY <1>1, <1>4, <1>5, <3>1 DEF InGrace
    <3>2. call'[t][k].token = q.current
      BY <1>4, <1>8, <2>1
    <3> QED
      BY <3>1, <3>2 DEF OnItsWay
  <2>3. CASE cookie \in erased
    BY <1>1, <2>3
  <2>4. CASE HoldersOf(cookie) /= {}
    <3>1. CASE cookie = s.current
      <4>1. cookie /= u.seen => cookie \in Overwritten(s, u)
        BY <1>9, <3>1
      <4> QED
        BY <1>1, <2>2, <4>1
    <3>2. CASE cookie /= s.current
      BY <1>1, <1>12, <2>4, <3>2 DEF HoldersOf
    <3> QED
      BY <3>1, <3>2
  <2>5. CASE OnItsWay
    <3>1. PICK r \in InGrace(cookie), v \in Tabs, l \in Kinds : call[v][l].token = r.current
      BY <2>5 DEF OnItsWay
    <3>2. r \in sessions /\ r.previous = cookie /\ r.grace /\ r.current \in 1..issued
      BY <1>0, <3>1 DEF InGrace, Numbered
    <3>3. u.seen /= r.current
      BY <1>6, <3>1, <3>2, SecretIs
    <3>4. CASE r = s
      <4>1. cookie /= u.seen => cookie \in Overwritten(s, u)
        BY <1>9, <3>2, <3>3, <3>4
      <4> QED
        BY <1>1, <2>2, <4>1
    <3>5. CASE r /= s
      <4>1. r \in InGrace(cookie)'
        BY <1>1, <1>5, <3>2, <3>5 DEF InGrace
      <4>2. call'[v][l].token = r.current
        BY <1>8, <3>1
      <4> QED
        BY <4>1, <4>2 DEF OnItsWay
    <3> QED
      BY <3>4, <3>5
  <2> QED
    BY <1>0, <1>1, <2>3, <2>4, <2>5 DEF Kept
<1> QED
  BY <1>10, <1>11, <1>13, <1>14, <1>15 DEF AuthInv

\* A tab that hears an answer keeps the cookie alive (the cookie jar is shared).
LEMMA HearStep ==
    ASSUME AuthInv, NEW t \in Tabs, NEW k \in Kinds, HearRefresh(t, k)
    PROVE  AuthInv'
<1>t. AuthTypeOK /\ Numbered /\ UnheardTokens /\ FreshUpdates
  BY DEF AuthInv
<1>0. /\ UNCHANGED <<serverVars, disturbed, loads, losses>> /\ call[t][k].code /= "none"
      /\ call[t][k] \in Calls /\ tab[t] \in [status : Statuses, token : Tokens]
      /\ NoCall \in Calls /\ NoCall.code = "none" /\ NoCall.token = 0 /\ NoCall.cookie = 0
  BY <1>t, AuthTypes, AuthZero DEF HearRefresh
<1>1. CASE call[t][k].code = "ok" /\ call[t][k].token /= 0
  <2> DEFINE n == call[t][k].token
  <2>1. /\ cookie' = n /\ call' = [call EXCEPT ![t][k] = NoCall]
        /\ tab' = [tab EXCEPT ![t] = AfterSuccess(t, k, n)]
    BY <1>1 DEF HearRefresh
  <2>2. n \in Tokens
    BY <1>0 DEF Calls
  <2>3. AfterSuccess(t, k, n) \in [status : Statuses, token : Tokens]
    BY <1>0, <2>2 DEF AfterSuccess, Statuses
  <2>4. AuthTypeOK'
    <3>1. call' \in [Tabs -> [Kinds -> Calls]] /\ tab' \in [Tabs -> [status : Statuses, token : Tokens]]
      BY <1>t, <1>0, <2>1, <2>3, AuthTypes
    <3> QED
      BY <1>t, <1>0, <2>1, <2>2, <3>1 DEF AuthTypeOK, serverVars
  <2>5. /\ call'[t][k] = NoCall
        /\ \A u \in Tabs, l \in Kinds : u /= t \/ l /= k => call'[u][l] = call[u][l]
    BY <1>t, <2>1, AuthTypes
  <2>6. /\ n \in 1..issued
        /\ HoldersOf(n) /= {} \/ n \in erased
        /\ \A v \in Tabs, l \in Kinds : call[v][l].token = n => v = t /\ l = k
    BY <1>1, SecretIs
  <2> HIDE DEF n
  <2>9. sessions' = sessions /\ issued' = issued /\ updates' = updates /\ erased' = erased
        /\ disturbed' = disturbed
    BY <1>0 DEF serverVars
  <2>10. Numbered'
    <3>1. cookie' \in 0..issued /\ issued \in Nat
      BY <1>t, <2>1, <2>6, AuthTypes
    <3> QED
      BY <1>t, <1>0, <2>5, <2>9, <3>1 DEF Numbered
  <2>11. UnheardTokens'
    <3> SUFFICES ASSUME NEW v \in Tabs, NEW i \in Kinds, Pend(v, i)' PROVE Secret(v, i)'
      BY DEF UnheardTokens
    <3>1. (v /= t \/ i /= k) /\ call'[v][i] = call[v][i] /\ call[v][i].token /= 0
      BY <1>0, <2>5 DEF Pend
    <3>2. /\ call[v][i].sent /\ call[v][i].code \in {"none", "ok"}
          /\ call[v][i].code = "ok" => HoldersOf(call[v][i].token) /= {} \/ call[v][i].token \in erased
          /\ \A u \in updates : u.seen /= call[v][i].token
          /\ \A u \in Tabs, l \in Kinds :
                /\ call[u][l].cookie /= call[v][i].token
                /\ call[u][l].token = call[v][i].token => u = v /\ l = i
      BY <3>1, SecretIs
    <3>3. call[v][i].token /= n
      BY <2>6, <3>1
    <3>5. \A u \in Tabs, l \in Kinds :
             /\ call'[u][l].cookie /= call[v][i].token
             /\ call'[u][l].token = call[v][i].token => u = v /\ l = i
      BY <1>0, <2>5, <3>1, <3>2
    <3> QED
      BY <2>1, <2>9, <3>1, <3>2, <3>3, <3>5 DEF Secret, HoldersOf
  <2>12. FreshUpdates'
    <3>1. ASSUME ~disturbed, NEW u \in updates PROVE WaitedFor(u)'
      <4>1. PICK v \in Tabs, l \in Kinds : call[v][l].token = u.token /\ call[v][l].code = "none"
        BY <1>t, <3>1 DEF FreshUpdates, WaitedFor
      <4>2. v /= t \/ l /= k
        BY <1>0, <4>1
      <4> QED
        BY <2>5, <4>1, <4>2 DEF WaitedFor
    <3> QED
      BY <1>t, <2>9, <3>1 DEF FreshUpdates
  <2>13. Kept'
    BY <2>1, <2>6, <2>9 DEF Kept, HoldersOf
  <2> QED
    BY <2>4, <2>10, <2>11, <2>12, <2>13 DEF AuthInv
<1>2. CASE call[t][k].code /= "ok"
  <2>1. /\ UNCHANGED cookie
        /\ \/ call' = [call EXCEPT ![t][k] = Asking] /\ UNCHANGED tab
           \/ /\ tab' = [tab EXCEPT ![t] = AfterFailure(t, k, call[t][k].code)]
              /\ call' = [call EXCEPT ![t][k] = NoCall]
    BY <1>2 DEF HearRefresh
  <2>2. AfterFailure(t, k, call[t][k].code) \in [status : Statuses, token : Tokens]
    BY <1>0 DEF AfterFailure, Statuses
  <2>3. PICK w \in {Asking, NoCall} : call' = [call EXCEPT ![t][k] = w]
    BY <2>1
  <2>4. w \in Calls /\ w.code = "none" /\ w.token = 0 /\ w.cookie \in {0, cookie}
    BY <1>t, <1>0, <2>3, AskingIs
  <2>5. /\ call' \in [Tabs -> [Kinds -> Calls]] /\ call'[t][k] = w
        /\ \A u \in Tabs, l \in Kinds : u /= t \/ l /= k => call'[u][l] = call[u][l]
    BY <1>t, <2>3, <2>4, AuthTypes
  <2>6. Numbered' /\ UnheardTokens' /\ FreshUpdates' /\ Kept'
    <3>1. call[t][k].token = 0
      BY <1>0, <1>2, SecretIs
    <3>2. UNCHANGED <<sessions, cookie, issued, updates, erased>> /\ disturbed' = disturbed
      BY <1>0, <2>1 DEF serverVars
    <3> QED
      BY <2>4, <2>5, <3>1, <3>2, NothingIssued
  <2>7. AuthTypeOK'
    <3>1. tab' \in [Tabs -> [status : Statuses, token : Tokens]]
      BY <1>t, <2>1, <2>2, AuthTypes
    <3> QED
      BY <1>t, <1>0, <2>1, <2>5, <3>1 DEF AuthTypeOK, serverVars
  <2> QED
    BY <2>6, <2>7 DEF AuthInv
<1>3. CASE call[t][k].code = "ok" /\ call[t][k].token = 0
  BY <1>t, <1>3 DEF Numbered
<1> QED
  BY <1>1, <1>2, <1>3

\* Grace ends only when no answer carries the token that replaced the cookie.
LEMMA GraceStep ==
    ASSUME AuthInv, GraceEnds
    PROVE  AuthInv'
<1>t. AuthTypeOK /\ Numbered /\ UnheardTokens /\ FreshUpdates /\ Kept
  BY DEF AuthInv
<1>1. PICK s \in sessions :
        /\ s.grace
        /\ \A t \in Tabs, k \in Kinds : call[t][k].token /= s.current
        /\ sessions' = (sessions \ {s}) \cup {[s EXCEPT !.grace = FALSE]}
        /\ UNCHANGED <<tab, call, cookie, issued, updates, erased, disturbed, loads, losses>>
  BY DEF GraceEnds
<1>2. PICK q : q = [s EXCEPT !.grace = FALSE]
  OBVIOUS
<1>3. s \in Sessions /\ q \in Sessions /\ q.current = s.current /\ q.id = s.id /\ q \in sessions'
  BY <1>t, <1>1, <1>2, AuthTypes DEF Sessions
<1>4. /\ \A r \in sessions' : (r \in sessions /\ r /= s) \/ r = q
      /\ \A r \in sessions : r /= s => r \in sessions'
  BY <1>1, <1>2
<1>5. \A r, p \in sessions : r.current = p.current \/ r.id = p.id => r = p
  BY <1>t, AuthTypes
<1>6. AuthTypeOK'
  <2>1. sessions' \subseteq Sessions
    BY <1>t, <1>3, <1>4, AuthTypes
  <2>2. \A r, p \in sessions' : r.current = p.current \/ r.id = p.id => r = p
    BY <1>1, <1>3, <1>4, <1>5
  <2> QED
    BY <1>t, <1>1, <2>1, <2>2 DEF AuthTypeOK
<1>7. \A n : HoldersOf(n) /= {} => HoldersOf(n)' /= {}
  BY <1>3, <1>4 DEF HoldersOf
<1>8. Numbered'
  BY <1>t, <1>1, <1>3, <1>4 DEF Numbered
<1>9. UnheardTokens'
  <2> SUFFICES ASSUME NEW v \in Tabs, NEW i \in Kinds, Pend(v, i)' PROVE Secret(v, i)'
    BY DEF UnheardTokens
  <2>1. Secret(v, i) /\ call' = call /\ cookie' = cookie /\ updates' = updates /\ erased' = erased
    BY <1>t, <1>1 DEF UnheardTokens, Pend
  <2>2. PICK n : n = call[v][i].token
    OBVIOUS
  <2>3. HoldersOf(n) /= {} => HoldersOf(n)' /= {}
    BY <1>7
  <2>4. call[v][i].code = "ok" => (HoldersOf(call[v][i].token) /= {})' \/ call[v][i].token \in erased
    BY <2>1, <2>2, <2>3 DEF HoldersOf, Secret
  <2> QED
    BY <2>1, <2>4 DEF Secret
<1>10. FreshUpdates'
  <2>1. \A u \in updates, r \in sessions' : r.current /= u.token
    BY <1>t, <1>1, <1>3, <1>4 DEF FreshUpdates
  <2> QED
    BY <1>t, <1>1, <2>1 DEF FreshUpdates, WaitedFor
<1>11. Kept'
  <2>1. OnItsWay => OnItsWay'
    BY <1>1, <1>4 DEF OnItsWay, InGrace
  <2>2. HoldersOf(cookie) /= {} => HoldersOf(cookie)' /= {}
    BY <1>1, <1>3, <1>4 DEF HoldersOf
  <2> QED
    BY <1>t, <1>1, <2>1, <2>2 DEF Kept
<1> QED
  BY <1>6, <1>8, <1>9, <1>10, <1>11 DEF AuthInv

\* A browser starts with no session, or with one whose cookie it holds.
LEMMA AuthInitInv == AuthInit => AuthInv
<1> SUFFICES ASSUME AuthInit PROVE AuthInv
  OBVIOUS
<1>1. \A t \in Tabs, k \in Kinds : call[t][k] = NoCall
  BY DEF AuthInit
<1>2. tab \in [Tabs -> [status : Statuses, token : Tokens]] /\ call \in [Tabs -> [Kinds -> Calls]]
  <2> USE AuthZero
  <2> HIDE DEF Unmounted, NoCall
  <2> QED
    BY DEF AuthInit
<1>3. 0 \in Tokens /\ 0 \in 0..MaxLoads /\ 0 \in 0..MaxLosses
  BY AuthAssumption, AuthZero
<1>4. updates = {} /\ erased = {} /\ disturbed = FALSE /\ loads = 0 /\ losses = 0
  BY DEF AuthInit
<1>5. UnheardTokens /\ FreshUpdates
  BY <1>1, <1>4, AuthZero DEF UnheardTokens, FreshUpdates, Pend
<1>6. CASE cookie = 0 /\ sessions = {} /\ issued = 0
  <2>1. AuthTypeOK
    BY <1>2, <1>3, <1>4, <1>6 DEF AuthTypeOK
  <2>2. Numbered /\ Kept
    BY <1>1, <1>4, <1>6, AuthZero DEF Numbered, Kept
  <2> QED
    BY <1>5, <2>1, <2>2 DEF AuthInv
<1>7. CASE MaxTokens > 0 /\ cookie = 1 /\ sessions = {New(1)} /\ issued = 1
  <2>1. 1 \in Tokens
    BY <1>7, AuthAssumption DEF Tokens
  <2>2. New(1) \in Sessions /\ New(1).current = 1 /\ New(1).id = 1
    BY <1>3, <2>1 DEF New, Sessions
  <2> HIDE DEF New
  <2>3. AuthTypeOK
    BY <1>2, <1>3, <1>4, <1>7, <2>1, <2>2 DEF AuthTypeOK
  <2>4. Numbered
    BY <1>1, <1>4, <1>7, <2>2, AuthZero DEF Numbered
  <2>5. Kept
    BY <1>7, <2>2 DEF Kept, HoldersOf
  <2> QED
    BY <1>5, <2>3, <2>4, <2>5 DEF AuthInv
<1> QED
  BY <1>6, <1>7 DEF AuthInit

\* Every step of the tabs and of the server keeps the invariant.
LEMMA AuthStep == AuthInv /\ [AuthNext]_authVars => AuthInv'
<1> SUFFICES ASSUME AuthInv, [AuthNext]_authVars PROVE AuthInv'
  OBVIOUS
<1>t. AuthTypeOK
  BY DEF AuthInv
<1> USE AuthTypes, <1>t
<1>1. ASSUME NEW t \in Tabs, LoadPage(t) PROVE AuthInv'
  <2>1. /\ UNCHANGED <<cookie, sessions, issued, updates, erased, losses>>
        /\ loads < MaxLoads /\ loads' = loads + 1
        /\ tab' = [tab EXCEPT ![t] = Unmounted]
        /\ call' = [call EXCEPT ![t] = [k \in Kinds |-> IF k = "bootstrap" THEN Asking ELSE NoCall]]
        /\ disturbed' = (disturbed \/ \E k \in Kinds : call[t][k].token /= 0)
    BY <1>1 DEF LoadPage, serverVars
  <2>2. /\ call' \in [Tabs -> [Kinds -> Calls]]
        /\ \A k \in Kinds : call'[t][k] \in {Asking, NoCall}
        /\ \A u \in Tabs, l \in Kinds : u /= t => call'[u][l] = call[u][l]
    BY <2>1, AskingIs, AuthZero
  <2>3. \A k \in Kinds : /\ call'[t][k].code /= "ok" /\ call'[t][k].token = 0
                         /\ call'[t][k].cookie \in {0, cookie}
    BY <2>2, AskingIs, AuthZero
  <2>4. Numbered' /\ UnheardTokens' /\ FreshUpdates' /\ Kept'
    BY <2>1, <2>2, <2>3, NothingIssued
  <2>5. tab' \in [Tabs -> [status : Statuses, token : Tokens]]
    BY <2>1, AuthZero
  <2>6. loads' \in 0..MaxLoads /\ disturbed' \in BOOLEAN
    BY <2>1, AuthAssumption
  <2>7. AuthTypeOK'
    BY <2>1, <2>2, <2>5, <2>6 DEF AuthTypeOK
  <2> QED
    BY <2>4, <2>7 DEF AuthInv
<1>2. ASSUME NEW t \in Tabs, NEW k \in Kinds, AskRefresh(t, k) PROVE AuthInv'
  <2>0. call[t][k] \in Calls
    OBVIOUS
  <2>1. /\ UNCHANGED <<tab, cookie, sessions, issued, updates, erased, disturbed, loads, losses>>
        /\ call' = [call EXCEPT ![t][k] = Asking] /\ ~call[t][k].sent
    BY <1>2 DEF AskRefresh, serverVars
  <2>2. /\ call' \in [Tabs -> [Kinds -> Calls]] /\ call'[t][k] = Asking
        /\ \A u \in Tabs, l \in Kinds : u /= t \/ l /= k => call'[u][l] = call[u][l]
    BY <2>1, AskingIs
  <2>3. call[t][k].token = 0
    BY <2>1, SecretIs
  <2>4. Numbered' /\ UnheardTokens' /\ FreshUpdates' /\ Kept'
    BY <2>1, <2>2, <2>3, AskingIs, NothingIssued
  <2>7. AuthTypeOK'
    BY <2>1, <2>2 DEF AuthTypeOK
  <2> QED
    BY <2>4, <2>7 DEF AuthInv
<1>3. ASSUME NEW t \in Tabs, NEW k \in Kinds, Throttle(t, k) PROVE AuthInv'
  <2>1. /\ UNCHANGED <<tab, cookie, sessions, issued, updates, erased, disturbed, loads>>
        /\ losses < MaxLosses /\ losses' = losses + 1
        /\ Answered(t, k, "RATE_LIMITED", 0) /\ call[t][k].token = 0
    BY <1>3 DEF Throttle, serverVars, Unserved
  <2>2. /\ call' \in [Tabs -> [Kinds -> Calls]]
        /\ call'[t][k].code = "RATE_LIMITED" /\ call'[t][k].token = 0
        /\ call'[t][k].cookie = call[t][k].cookie
        /\ \A u \in Tabs, l \in Kinds : u /= t \/ l /= k => call'[u][l] = call[u][l]
    <3> "RATE_LIMITED" \in Codes /\ 0 \in Tokens
      BY AuthZero DEF Codes
    <3> QED
      BY <2>1, AnsweredIs
  <2>3. Numbered' /\ UnheardTokens' /\ FreshUpdates' /\ Kept'
    BY <2>1, <2>2, NothingIssued
  <2>4. losses' \in 0..MaxLosses
    BY <2>1, AuthAssumption
  <2>5. AuthTypeOK'
    BY <2>1, <2>2, <2>4 DEF AuthTypeOK
  <2> QED
    BY <2>3, <2>5 DEF AuthInv
<1>4. ASSUME NEW t \in Tabs, NEW k \in Kinds, NetworkFails(t, k) PROVE AuthInv'
  <2>1. /\ UNCHANGED <<tab, cookie, sessions, issued, updates, erased, loads>>
        /\ losses < MaxLosses /\ losses' = losses + 1
        /\ Answered(t, k, "no-code", 0)
        /\ disturbed' = (disturbed \/ call[t][k].token /= 0)
    BY <1>4 DEF NetworkFails, serverVars
  <2>2. /\ call' \in [Tabs -> [Kinds -> Calls]]
        /\ call'[t][k].code = "no-code" /\ call'[t][k].token = 0
        /\ call'[t][k].cookie = call[t][k].cookie
        /\ \A u \in Tabs, l \in Kinds : u /= t \/ l /= k => call'[u][l] = call[u][l]
    <3> "no-code" \in Codes /\ 0 \in Tokens
      BY AuthZero DEF Codes
    <3> QED
      BY <2>1, AnsweredIs
  <2>3. Numbered' /\ UnheardTokens' /\ FreshUpdates' /\ Kept'
    BY <2>1, <2>2, NothingIssued
  <2>4. losses' \in 0..MaxLosses /\ disturbed' \in BOOLEAN
    BY <2>1, AuthAssumption
  <2>5. AuthTypeOK'
    BY <2>1, <2>2, <2>4 DEF AuthTypeOK
  <2> QED
    BY <2>3, <2>5 DEF AuthInv
<1>5. CASE UNCHANGED authVars
  BY <1>5 DEF authVars, serverVars, AuthInv, AuthTypeOK, Numbered, UnheardTokens, Secret, FreshUpdates,
              WaitedFor, Kept, OnItsWay, HoldersOf, InGrace, Pend
<1> QED
  BY <1>1, <1>2, <1>3, <1>4, <1>5, RefreshStep, RotateStep, HearStep, GraceStep DEF AuthNext

\* The invariant holds in every reachable state.
LEMMA AuthInvariant == AuthSpec => []AuthInv
BY AuthInitInv, AuthStep, PTL DEF AuthSpec

\* The tabs, their calls, the cookie and the sessions keep their types, and no
\* token is of two sessions, whichever of them the server's updates overwrite.
THEOREM AuthTypesHold == AuthSpec => []AuthTypeOK
BY AuthInvariant, PTL DEF AuthInv

\* As long as no answer is lost, tabs that rotate one shared cookie keep it alive,
\* in whatever order the server reads and updates their session and their answers
\* come, unless an update overwrote it that was made from an older read.
THEOREM CookieLives == AuthSpec => []CookieStaysAlive
<1>1. AuthInv => CookieStaysAlive
  BY DEF AuthInv, Kept, OnItsWay, CookieStaysAlive, Alive
<1> QED
  BY <1>1, AuthInvariant, PTL

-----------------------------------------------------------------------------
(* CapabilitySettings: types and counts.                                   *)

\* The administrators whose write of a key the server has yet to store.
Pending(k) == {a \in Admins : write[a][k].stage \in {"sent", "checked"}}

\* A version is never ahead of the switches: every pending write has one of its
\* own left, the one that it will add.
CountOK(k) ==
    /\ IsFiniteSet(Pending(k))
    /\ setting[k].version + Cardinality(Pending(k)) <= writes
    /\ \A a \in Admins : At(a, k, "checked") => write[a][k].found + Cardinality(Pending(k)) <= writes

\* What the history variables of the tabs hold.
Holdings ==
    /\ cache \in [Admins -> SUBSET Tables] /\ load \in [Admins -> SUBSET Tables]
    /\ told \in [Admins -> SUBSET (Capabilities \X Entries)]

\* The inductive type invariant: a version stays within its type only because
\* every write that will add one has a switch of its own.
CapabilityTypeInv == CapabilityTypeOK /\ Holdings /\ \A k \in Capabilities : CountOK(k)

\* The values that the table, the tabs and the writes start from, and their parts.
LEMMA CapabilityZeroes ==
    /\ 0 \in 0..MaxWrites /\ Default \in Tables /\ NoWrite \in Writes
    /\ \A t \in Tables, k \in Capabilities :
         /\ t[k] \in Entries /\ t[k].value \in 0..MaxWrites
         /\ t[k].version \in 0..MaxWrites
    /\ \A w \in Writes : /\ w.value \in 0..MaxWrites /\ w.expected \in 0..MaxWrites /\ w.found \in 0..MaxWrites
                         /\ w.previous \in Tables /\ w.answer \in Tables /\ w.left \in BOOLEAN
<1>1. 0 \in 0..MaxWrites
  BY CapabilityAssumption
<1>2. [value |-> 0, version |-> 0] \in Entries
  BY <1>1 DEF Entries
<1>3. Default \in Tables
  BY <1>2 DEF Default, Tables
<1>4. NoWrite \in Writes
  BY <1>1, <1>3 DEF NoWrite, Writes
<1> HIDE DEF Default, NoWrite
<1> QED
  BY <1>1, <1>3, <1>4 DEF Tables, Entries, Writes

\* A table shown in a tab is the table of its cache once the tab is ready.
LEMMA ShowTypes ==
    ASSUME CapabilityTypeInv, NEW a \in Admins, NEW table \in Tables, NEW isReady \in BOOLEAN,
           Show(a, table, isReady)
    PROVE  /\ screen' \in [Admins -> Tables] /\ ready' \in [Admins -> BOOLEAN]
           /\ cache' \in [Admins -> SUBSET Tables]
           /\ \A b \in Admins : ready'[b] => cache'[b] = {screen'[b]}
BY DEF CapabilityTypeInv, CapabilityTypeOK, Holdings, Show, Cached

\* One write goes on, from and to a stage that is pending or not.
LEMMA OneRow ==
    ASSUME CapabilityTypeInv, NEW a \in Admins, NEW k \in Capabilities, NEW w \in Writes,
           write' = [write EXCEPT ![a][k] = w]
    PROVE  /\ write' \in [Admins -> [Capabilities -> Writes]]
           /\ write'[a][k] = w
           /\ \A b \in Admins, l \in Capabilities :
                 b /= a \/ l /= k => write'[b][l] = write[b][l]
           /\ \A l \in Capabilities \ {k} : Pending(l)' = Pending(l)
           /\ Pending(k)' = IF w.stage \in {"sent", "checked"}
                            THEN Pending(k) \cup {a} ELSE Pending(k) \ {a}
           /\ IsFiniteSet(Pending(k)') /\ Cardinality(Pending(k)) \in Nat
           /\ Cardinality(Pending(k)') =
                 IF w.stage \in {"sent", "checked"}
                 THEN IF a \in Pending(k) THEN Cardinality(Pending(k)) ELSE Cardinality(Pending(k)) + 1
                 ELSE IF a \in Pending(k) THEN Cardinality(Pending(k)) - 1 ELSE Cardinality(Pending(k))
<1>1. write \in [Admins -> [Capabilities -> Writes]] /\ IsFiniteSet(Pending(k))
  BY DEF CapabilityTypeInv, CapabilityTypeOK, CountOK
<1>2. /\ write' \in [Admins -> [Capabilities -> Writes]] /\ write'[a][k] = w
      /\ \A b \in Admins, l \in Capabilities : b /= a \/ l /= k => write'[b][l] = write[b][l]
  BY <1>1
<1>3. \A l \in Capabilities \ {k} : Pending(l)' = Pending(l)
  BY <1>2 DEF Pending
<1>4. Pending(k)' = IF w.stage \in {"sent", "checked"}
                    THEN Pending(k) \cup {a} ELSE Pending(k) \ {a}
  BY <1>2 DEF Pending
<1> HIDE DEF Pending
<1>5. Cardinality(Pending(k)) \in Nat
  BY <1>1, FS_CardinalityType
<1>6. CASE w.stage \in {"sent", "checked"}
  <2> DEFINE P == Pending(k)
  <2>1. IsFiniteSet(P)
    BY <1>1
  <2> HIDE DEF P
  <2>2. /\ IsFiniteSet(P \cup {a})
        /\ Cardinality(P \cup {a}) = IF a \in P THEN Cardinality(P) ELSE Cardinality(P) + 1
    BY <2>1, FS_AddElement
  <2>3. Pending(k)' = P \cup {a}
    BY <1>4, <1>6 DEF P
  <2> QED
    BY <1>2, <1>3, <1>4, <1>5, <1>6, <2>2, <2>3 DEF P
<1>7. CASE w.stage \notin {"sent", "checked"}
  BY <1>1, <1>2, <1>3, <1>4, <1>5, <1>7, FS_RemoveElement
<1> QED
  BY <1>6, <1>7

\* Every step keeps the types and the counts.
LEMMA CapabilityTypeStep == CapabilityTypeInv /\ [CapabilityNext]_capabilityVars => CapabilityTypeInv'
<1> SUFFICES ASSUME CapabilityTypeInv, [CapabilityNext]_capabilityVars PROVE CapabilityTypeInv'
  OBVIOUS
<1>t. /\ setting \in Tables /\ screen \in [Admins -> Tables]
      /\ ready \in [Admins -> BOOLEAN]
      /\ write \in [Admins -> [Capabilities -> Writes]]
      /\ \A a \in Admins : ready[a] => cache[a] = {screen[a]}
      /\ writes \in 0..MaxWrites /\ fetches \in 0..MaxFetches /\ raced \in BOOLEAN
      /\ cache \in [Admins -> SUBSET Tables] /\ load \in [Admins -> SUBSET Tables]
      /\ told \in [Admins -> SUBSET (Capabilities \X Entries)]
      /\ \A k \in Capabilities : CountOK(k)
  BY DEF CapabilityTypeInv, CapabilityTypeOK, Holdings
<1>f. \A table \in Tables : Facts(table) \subseteq Capabilities \X Entries
  BY CapabilityZeroes DEF Facts
\* What an action that leaves the settings and the writes alone has to show.
<1>u. ASSUME UNCHANGED <<setting, write, writes>>, fetches' \in 0..MaxFetches, raced' \in BOOLEAN,
             screen' \in [Admins -> Tables], ready' \in [Admins -> BOOLEAN],
             cache' \in [Admins -> SUBSET Tables], load' \in [Admins -> SUBSET Tables],
             \A a \in Admins : ready'[a] => cache'[a] = {screen'[a]},
             told' \in [Admins -> SUBSET (Capabilities \X Entries)]
      PROVE  CapabilityTypeInv'
  <2>1. \A k \in Capabilities : CountOK(k)'
    BY <1>t, <1>u DEF CountOK, Pending, At
  <2> QED
    BY <1>t, <1>u, <2>1 DEF CapabilityTypeInv, CapabilityTypeOK, Holdings
<1>1. ASSUME NEW a \in Admins, StartLoad(a) PROVE CapabilityTypeInv'
  <2>1. screen[a] \in Tables
    BY <1>t
  <2>2. /\ screen' \in [Admins -> Tables] /\ ready' \in [Admins -> BOOLEAN]
        /\ cache' \in [Admins -> SUBSET Tables]
        /\ \A b \in Admins : ready'[b] => cache'[b] = {screen'[b]}
    BY <1>1, <2>1, ShowTypes DEF StartLoad
  <2>3. fetches' \in 0..MaxFetches
    BY <1>t, <1>1, CapabilityAssumption DEF StartLoad
  <2> QED
    BY <1>t, <1>u, <1>1, <2>2, <2>3 DEF StartLoad, ghostVars
<1>2. ASSUME NEW a \in Admins, Loaded(a) PROVE CapabilityTypeInv'
  <2>1. PICK table \in load[a] :
           /\ load' = [load EXCEPT ![a] = {}]
           /\ Show(a, table, TRUE)
           /\ Tell(a, table)
           /\ UNCHANGED <<setting, write, writes, fetches, replaced, raced>>
    BY <1>2 DEF Loaded
  <2>2. table \in Tables
    BY <1>t
  <2>3. /\ screen' \in [Admins -> Tables] /\ ready' \in [Admins -> BOOLEAN]
        /\ cache' \in [Admins -> SUBSET Tables]
        /\ \A b \in Admins : ready'[b] => cache'[b] = {screen'[b]}
    BY <2>1, <2>2, ShowTypes
  <2>4. told' \in [Admins -> SUBSET (Capabilities \X Entries)]
    BY <1>t, <1>f, <2>1, <2>2 DEF Tell
  <2> QED
    BY <1>t, <1>u, <2>1, <2>3, <2>4
<1>3. ASSUME NEW a \in Admins, LoadFails(a) PROVE CapabilityTypeInv'
  BY <1>t, <1>u, <1>3 DEF LoadFails, ghostVars
<1>4. ASSUME NEW a \in Admins, ReloadPage(a) PROVE CapabilityTypeInv'
  <2> DEFINE row(k) == IF write[a][k].stage = "none" THEN NoWrite
                       ELSE [write[a][k] EXCEPT !.left = TRUE, !.previous = Default]
  <2>1. write' = [write EXCEPT ![a] = [k \in Capabilities |-> row(k)]]
    BY <1>4 DEF ReloadPage
  <2>2. \A k \in Capabilities : row(k) \in Writes /\ row(k).stage = write[a][k].stage
                                /\ (write[a][k].stage /= "none" => row(k).found = write[a][k].found)
    <3> SUFFICES ASSUME NEW k \in Capabilities
                 PROVE  row(k) \in Writes /\ row(k).stage = write[a][k].stage
                        /\ (write[a][k].stage /= "none" => row(k).found = write[a][k].found)
      OBVIOUS
    <3>1. write[a][k] \in Writes
      BY <1>t
    <3>2. NoWrite.stage = "none"
      BY DEF NoWrite
    <3>3. [write[a][k] EXCEPT !.left = TRUE, !.previous = Default] \in Writes
      BY <3>1, CapabilityZeroes DEF Writes
    <3>4. /\ [write[a][k] EXCEPT !.left = TRUE, !.previous = Default].stage = write[a][k].stage
          /\ [write[a][k] EXCEPT !.left = TRUE, !.previous = Default].found = write[a][k].found
      BY <3>1 DEF Writes
    <3> QED
      BY <3>1, <3>2, <3>3, <3>4, CapabilityZeroes
  <2> HIDE DEF row
  <2>3. write' \in [Admins -> [Capabilities -> Writes]]
    BY <1>t, <2>1, <2>2
  <2>4. \A b \in Admins, k \in Capabilities :
           /\ write'[b][k].stage = write[b][k].stage
           /\ write[b][k].stage = "checked" => write'[b][k].found = write[b][k].found
    BY <1>t, <2>1, <2>2
  <2>5. \A k \in Capabilities : CountOK(k)'
    <3> TAKE k \in Capabilities
    <3>1. Pending(k)' = Pending(k)
      BY <2>4 DEF Pending
    <3>2. setting' = setting /\ writes' = writes
      BY <1>4 DEF ReloadPage
    <3> QED
      BY <1>t, <2>4, <3>1, <3>2 DEF CountOK, At
  <2>6. screen' \in [Admins -> Tables]
    BY <1>t, <1>4, CapabilityZeroes DEF ReloadPage
  <2>7. /\ ready' \in [Admins -> BOOLEAN]
        /\ \A b \in Admins : ready'[b] => cache'[b] = {screen'[b]}
    BY <1>t, <1>4 DEF ReloadPage
  <2>8. load' \in [Admins -> SUBSET Tables]
    BY <1>t, <1>4 DEF ReloadPage
  <2> QED
    BY <1>t, <1>4, <2>3, <2>5, <2>6, <2>7, <2>8
       DEF ReloadPage, ghostVars, CapabilityTypeInv, CapabilityTypeOK, Holdings
<1>5. ASSUME NEW a \in Admins, NEW k \in Capabilities, Switch(a, k) PROVE CapabilityTypeInv'
  <2> DEFINE w == [NoWrite EXCEPT !.stage = "sent", !.value = writes + 1,
                     !.expected = screen[a][k].version, !.previous = screen[a]]
  <2>0. /\ writes + 1 \in 0..MaxWrites /\ screen[a] \in Tables
        /\ screen[a][k].version \in 0..MaxWrites
    BY <1>t, <1>5, CapabilityZeroes, CapabilityAssumption DEF Switch
  <2>1. w \in Writes /\ w.stage = "sent"
    BY <2>0, CapabilityZeroes DEF Writes, NoWrite
  <2>2. write' = [write EXCEPT ![a][k] = w]
    BY <1>5 DEF Switch
  <2>3. Optimistic(screen[a], k, writes + 1) \in Tables
    BY <2>0 DEF Optimistic, Tables, Entries
  <2>4. /\ screen' \in [Admins -> Tables] /\ ready' \in [Admins -> BOOLEAN]
        /\ cache' \in [Admins -> SUBSET Tables]
        /\ \A b \in Admins : ready'[b] => cache'[b] = {screen'[b]}
    <3>1. ready[a] \in BOOLEAN /\ Show(a, Optimistic(screen[a], k, writes + 1), ready[a])
      BY <1>t, <1>5 DEF Switch
    <3> QED
      BY <2>3, <3>1, ShowTypes
  <2> HIDE DEF w
  <2>5. \A l \in Capabilities : CountOK(l)'
    <3>1. a \notin Pending(k)
      BY <1>5 DEF Switch, Pending
    <3>2. Cardinality(Pending(k)') = Cardinality(Pending(k)) + 1 /\ IsFiniteSet(Pending(k)')
          /\ Cardinality(Pending(k)) \in Nat
      <4>1. w.stage \in {"sent", "checked"}
        BY <2>1
      <4> QED
        BY <2>1, <2>2, <3>1, <4>1, OneRow
    <3>3. setting' = setting /\ writes' = writes + 1
      BY <1>5 DEF Switch
    <3>4. \A b \in Admins, l \in Capabilities : At(b, l, "checked")' =>
             At(b, l, "checked") /\ write'[b][l] = write[b][l]
      BY <2>1, <2>2, OneRow DEF At
    <3>5. CountOK(k)'
      BY <1>t, <3>2, <3>3, <3>4, CapabilityZeroes DEF CountOK
    <3>6. ASSUME NEW l \in Capabilities \ {k} PROVE CountOK(l)'
      <4>1. Pending(l)' = Pending(l)
        BY <2>1, <2>2, OneRow
      <4>2. CountOK(l) /\ Cardinality(Pending(l)) \in Nat
        BY <1>t, FS_CardinalityType DEF CountOK
      <4> QED
        BY <1>t, <3>3, <3>4, <4>1, <4>2, CapabilityZeroes DEF CountOK
    <3> QED
      BY <3>5, <3>6
  <2>6. write' \in [Admins -> [Capabilities -> Writes]]
    BY <2>1, <2>2, OneRow
  <2> QED
    BY <1>t, <1>5, <2>0, <2>4, <2>5, <2>6 DEF Switch, ghostVars, CapabilityTypeInv, CapabilityTypeOK, Holdings
\* What a step of one write has to show that stores nothing: it is pending
\* only if it was, and if it is checked it has found the version there.
<1>w. ASSUME NEW a \in Admins, NEW k \in Capabilities, NEW w \in Writes,
             write' = [write EXCEPT ![a][k] = w], UNCHANGED <<setting, writes>>,
             w.stage \in {"sent", "checked"} => a \in Pending(k),
             w.stage = "checked" => w.found = setting[k].version
      PROVE  /\ write' \in [Admins -> [Capabilities -> Writes]]
             /\ \A l \in Capabilities : CountOK(l)'
  <2>1. write' \in [Admins -> [Capabilities -> Writes]]
    BY <1>w, OneRow
  <2>2. ASSUME NEW l \in Capabilities PROVE CountOK(l)'
    <3>1. IsFiniteSet(Pending(l)') /\ Cardinality(Pending(l)) \in Nat /\ Cardinality(Pending(l)') \in Nat
          /\ Cardinality(Pending(l)') <= Cardinality(Pending(l))
      <4>1. CASE l = k
        <5>1. Cardinality(Pending(k)) \in Nat /\ IsFiniteSet(Pending(k)')
              /\ (\/ Cardinality(Pending(k)') = Cardinality(Pending(k)) 
                  \/ (a \in Pending(k) /\ Cardinality(Pending(k)') = Cardinality(Pending(k)) - 1))
          BY <1>w, OneRow
        <5>2. Cardinality(Pending(k)') \in Nat
          BY <5>1, FS_CardinalityType
        <5> QED
          BY <4>1, <5>1, <5>2
      <4>2. CASE l /= k
        <5>1. Pending(l)' = Pending(l)
          BY <1>w, <4>2, OneRow
        <5>2. IsFiniteSet(Pending(l))
          BY <1>t DEF CountOK
        <5> QED
          BY <5>1, <5>2, FS_CardinalityType
      <4> QED
        BY <4>1, <4>2
    <3>2. \A b \in Admins : At(b, l, "checked")' =>
             \/ At(b, l, "checked") /\ write'[b][l].found = write[b][l].found
             \/ write'[b][l].found = setting[l].version
      BY <1>w, OneRow DEF At
    <3>3. \A b \in Admins : write[b][l].found \in Nat /\ write'[b][l].found \in Nat
      BY <1>t, <2>1, CapabilityZeroes, CapabilityAssumption
    <3>4. setting[l].version \in Nat /\ writes \in Nat
      BY <1>t, CapabilityZeroes, CapabilityAssumption
    <3>5. CountOK(l)
      BY <1>t
    <3> QED
      BY <1>w, <3>1, <3>2, <3>3, <3>4, <3>5 DEF CountOK
  <2> QED
    BY <2>1, <2>2
<1>6. ASSUME NEW a \in Admins, NEW k \in Capabilities, CheckVersion(a, k) PROVE CapabilityTypeInv'
  <2> DEFINE w == IF VersionMatches(write[a][k].expected, setting[k].version)
          THEN [write[a][k] EXCEPT !.stage = "checked", !.expected = 0, !.found = setting[k].version]
          ELSE [write[a][k] EXCEPT !.stage = "conflict", !.expected = 0, !.answer = setting]
  <2>1. write[a][k] \in Writes /\ setting[k].version \in 0..MaxWrites
    BY <1>t, CapabilityZeroes
  <2>2. w \in Writes /\ (w.stage = "checked" => w.found = setting[k].version)
    BY <1>t, <2>1, CapabilityZeroes DEF Writes
  <2>3. write' = [write EXCEPT ![a][k] = w]
    BY <1>6 DEF CheckVersion
  <2>4. a \in Pending(k)
    BY <1>6 DEF CheckVersion, At, Pending
  <2>5. UNCHANGED <<setting, writes>>
    BY <1>6 DEF CheckVersion
  <2> HIDE DEF w
  <2>6. /\ write' \in [Admins -> [Capabilities -> Writes]]
        /\ \A l \in Capabilities : CountOK(l)'
    BY <1>w, <2>2, <2>3, <2>4, <2>5
  <2> QED
    BY <1>t, <1>6, <2>6 DEF CheckVersion, ghostVars, tabVars, CapabilityTypeInv, CapabilityTypeOK, Holdings
<1>7. ASSUME NEW a \in Admins, NEW k \in Capabilities, StoreValue(a, k) PROVE CapabilityTypeInv'
  <2> DEFINE w == [write[a][k] EXCEPT !.stage = "written"]
             n == Cardinality(Pending(k))
  <2>1. write[a][k] \in Writes /\ write[a][k].stage = "checked" /\ a \in Pending(k)
    BY <1>t, <1>7 DEF StoreValue, At, Pending
  <2>2. w \in Writes /\ w.stage = "written"
    BY <2>1 DEF Writes
  <2>3. write' = [write EXCEPT ![a][k] = w]
    BY <1>t, <1>7 DEF StoreValue, To
  <2> HIDE DEF w
  <2>4. /\ write' \in [Admins -> [Capabilities -> Writes]]
        /\ IsFiniteSet(Pending(k)') /\ n \in Nat
        /\ Cardinality(Pending(k)') = n - 1
        /\ \A l \in Capabilities \ {k} : Pending(l)' = Pending(l)
        /\ \A b \in Admins, l \in Capabilities : b /= a \/ l /= k => write'[b][l] = write[b][l]
        /\ write'[a][k] = w
    BY <2>1, <2>2, <2>3, OneRow
  <2>5. n - 1 \in Nat
    BY <2>4, FS_CardinalityType
  <2> HIDE DEF n
  <2>6. /\ write[a][k].found + n <= writes /\ write[a][k].found \in Nat /\ writes \in 0..MaxWrites
        /\ \A b \in Admins : At(b, k, "checked") => write[b][k].found + n <= writes
        /\ \A b \in Admins, l \in Capabilities : write[b][l].found \in Nat
    <3>1. CountOK(k)
      BY <1>t
    <3> QED
      BY <1>t, <2>1, <3>1, CapabilityZeroes, CapabilityAssumption DEF CountOK, At, n
  <2>7. /\ setting' = [setting EXCEPT ![k] = [value |-> write[a][k].value,
                                              version |-> write[a][k].found + 1]]
        /\ writes' = writes
    BY <1>7 DEF StoreValue
  <2>8. [value |-> write[a][k].value, version |-> write[a][k].found + 1] \in Entries
    <3>1. write[a][k].found + 1 \in 0..MaxWrites
      BY <2>4, <2>5, <2>6, CapabilityAssumption
    <3> QED
      BY <2>1, <3>1, CapabilityZeroes DEF Entries
  <2>9. setting' \in Tables
    BY <1>t, <2>7, <2>8 DEF Tables
  <2>10. CountOK(k)'
    <3>1. setting'[k].version = write[a][k].found + 1
      BY <1>t, <2>7 DEF Tables
    <3>2. setting'[k].version + (n - 1) <= writes'
      BY <2>4, <2>5, <2>6, <2>7, <3>1
    <3>3. ASSUME NEW b \in Admins, At(b, k, "checked")' PROVE write'[b][k].found + (n - 1) <= writes'
      <4>1. b /= a /\ At(b, k, "checked") /\ write'[b][k] = write[b][k]
        BY <2>2, <2>4, <3>3 DEF At
      <4> QED
        BY <2>4, <2>6, <2>7, <4>1
    <3> QED
      BY <2>4, <3>2, <3>3 DEF CountOK
  <2>11. ASSUME NEW l \in Capabilities \ {k} PROVE CountOK(l)'
    <3>1. setting'[l] = setting[l] /\ \A b \in Admins : write'[b][l] = write[b][l]
      BY <1>t, <2>4, <2>7 DEF Tables
    <3>2. Pending(l)' = Pending(l) /\ CountOK(l)
      BY <1>t, <2>4
    <3> QED
      BY <2>7, <3>1, <3>2 DEF CountOK, At
  <2>12. raced' \in BOOLEAN
    BY <1>t, <1>7 DEF StoreValue
  <2> QED
    BY <1>t, <1>7, <2>4, <2>9, <2>10, <2>11, <2>12
       DEF StoreValue, tabVars, CapabilityTypeInv, CapabilityTypeOK, Holdings
<1>8. ASSUME NEW a \in Admins, NEW k \in Capabilities, ReadAnswer(a, k) PROVE CapabilityTypeInv'
  <2> DEFINE w == [write[a][k] EXCEPT !.stage = "ok", !.found = 0, !.answer = setting]
  <2>1. write[a][k] \in Writes
    BY <1>t
  <2>2. w \in Writes /\ w.stage = "ok"
    BY <1>t, <2>1, CapabilityZeroes DEF Writes
  <2>3. write' = [write EXCEPT ![a][k] = w] /\ UNCHANGED <<setting, writes>>
    BY <1>8 DEF ReadAnswer
  <2> HIDE DEF w
  <2>6. /\ write' \in [Admins -> [Capabilities -> Writes]]
        /\ \A l \in Capabilities : CountOK(l)'
    BY <1>w, <2>2, <2>3
  <2> QED
    BY <1>t, <1>8, <2>6 DEF ReadAnswer, ghostVars, tabVars, CapabilityTypeInv, CapabilityTypeOK, Holdings
<1>9. ASSUME NEW a \in Admins, NEW k \in Capabilities, WriteFails(a, k) PROVE CapabilityTypeInv'
  <2> DEFINE w == [write[a][k] EXCEPT !.stage = "failed", !.expected = 0, !.answer = Default]
  <2>1. write[a][k] \in Writes
    BY <1>t
  <2>2. w \in Writes /\ w.stage = "failed"
    BY <1>t, <2>1, CapabilityZeroes DEF Writes
  <2>3. write' = [write EXCEPT ![a][k] = w] /\ UNCHANGED <<setting, writes>>
    BY <1>9 DEF WriteFails
  <2> HIDE DEF w
  <2>6. /\ write' \in [Admins -> [Capabilities -> Writes]]
        /\ \A l \in Capabilities : CountOK(l)'
    BY <1>w, <2>2, <2>3
  <2> QED
    BY <1>t, <1>9, <2>6 DEF WriteFails, ghostVars, tabVars, CapabilityTypeInv, CapabilityTypeOK, Holdings
<1>n. NoWrite \in Writes /\ NoWrite.stage = "none"
  BY CapabilityZeroes DEF NoWrite
<1>10. ASSUME NEW a \in Admins, NEW k \in Capabilities, HearWrite(a, k) PROVE CapabilityTypeInv'
  <2>1. write' = [write EXCEPT ![a][k] = NoWrite] /\ UNCHANGED <<setting, writes>>
    BY <1>10 DEF HearWrite
  <2>2. /\ write' \in [Admins -> [Capabilities -> Writes]]
        /\ \A l \in Capabilities : CountOK(l)'
    BY <1>n, <1>w, <2>1
  <2>3. After(a, k) \in Tables /\ write[a][k].answer \in Tables
    BY <1>t, CapabilityZeroes DEF After
  <2>4. ready[a] \in BOOLEAN /\ Show(a, After(a, k), ready[a])
    BY <1>t, <1>10 DEF HearWrite
  <2>5. /\ screen' \in [Admins -> Tables] /\ ready' \in [Admins -> BOOLEAN]
        /\ cache' \in [Admins -> SUBSET Tables]
        /\ \A b \in Admins : ready'[b] => cache'[b] = {screen'[b]}
    BY <2>3, <2>4, ShowTypes
  <2>6. told' \in [Admins -> SUBSET (Capabilities \X Entries)]
    BY <1>t, <1>f, <1>10, <2>3 DEF HearWrite, Tell
  <2> QED
    BY <1>t, <1>10, <2>2, <2>5, <2>6 DEF HearWrite, CapabilityTypeInv, CapabilityTypeOK, Holdings
<1>11. ASSUME NEW a \in Admins, NEW k \in Capabilities, Unheard(a, k) PROVE CapabilityTypeInv'
  <2>1. write' = [write EXCEPT ![a][k] = NoWrite] /\ UNCHANGED <<setting, writes>>
    BY <1>11 DEF Unheard
  <2>2. /\ write' \in [Admins -> [Capabilities -> Writes]]
        /\ \A l \in Capabilities : CountOK(l)'
    BY <1>n, <1>w, <2>1
  <2> QED
    BY <1>t, <1>11, <2>2 DEF Unheard, ghostVars, tabVars, CapabilityTypeInv, CapabilityTypeOK, Holdings
<1>12. CASE UNCHANGED capabilityVars
  BY <1>t, <1>u, <1>12 DEF capabilityVars
<1> QED
  BY <1>1, <1>2, <1>3, <1>4, <1>5, <1>6, <1>7, <1>8, <1>9, <1>10, <1>11, <1>12 DEF CapabilityNext

\* The first state has the types.
LEMMA CapabilityTypeInit == CapabilityInit => CapabilityTypeInv
<1> SUFFICES ASSUME CapabilityInit PROVE CapabilityTypeInv
  OBVIOUS
<1>1. CapabilityTypeOK /\ Holdings
  <2>1. /\ 0 \in 0..MaxWrites /\ 0 \in 0..MaxFetches /\ Default \in Tables /\ NoWrite \in Writes
    BY CapabilityZeroes, CapabilityAssumption
  <2> HIDE DEF Default, NoWrite
  <2>2. /\ setting \in Tables /\ screen \in [Admins -> Tables] /\ ready \in [Admins -> BOOLEAN]
        /\ writes \in 0..MaxWrites /\ fetches \in 0..MaxFetches /\ raced \in BOOLEAN
    BY <2>1 DEF CapabilityInit
  <2>3. write \in [Admins -> [Capabilities -> Writes]]
    BY <2>1 DEF CapabilityInit
  <2>4. Holdings /\ \A a \in Admins : cache[a] = {} /\ load[a] = {} /\ ~ready[a]
    BY DEF CapabilityInit, Holdings
  <2> QED
    BY <2>2, <2>3, <2>4 DEF CapabilityTypeOK
<1>2. ASSUME NEW k \in Capabilities PROVE CountOK(k)
  <2>1. Pending(k) = {} /\ \A a \in Admins : ~At(a, k, "checked")
    BY DEF CapabilityInit, Pending, NoWrite, At
  <2>2. setting[k].version = 0 /\ writes = 0
    BY DEF CapabilityInit, Default
  <2> QED
    BY <2>1, <2>2, FS_EmptySet DEF CountOK
<1> QED
  BY <1>1, <1>2 DEF CapabilityTypeInv

\* The switches, the tabs and their writes keep their types, and a tab that is
\* ready shows what it has cached.
THEOREM CapabilityTypes == CapabilitySpec => []CapabilityTypeOK
<1>1. CapabilitySpec => []CapabilityTypeInv
  BY CapabilityTypeInit, CapabilityTypeStep, PTL DEF CapabilitySpec
<1> QED
  BY <1>1, PTL DEF CapabilityTypeInv

-----------------------------------------------------------------------------
\* The server has told a tab a version of a switch, or every version of a table.
ToldVersion(a, k, v) == \E f \in told[a] : f[1] = k /\ f[2].version = v
Backed(a, table) == \A k \in Capabilities : ToldVersion(a, k, table[k].version)

\* A tab shows, caches and falls back to tables that it was told of.
Painted(a) ==
    /\ cache[a] /= {} \/ ready[a] => Backed(a, screen[a])
    /\ \A t \in cache[a] : Backed(a, t)
    /\ \A k \in Capabilities :
          write[a][k].stage /= "none" /\ ~write[a][k].left => Backed(a, write[a][k].previous)

\* A write expects, and finds, a version that its tab was told.
SentWhatItKnew(a, k) ==
    /\ At(a, k, "sent") => ToldVersion(a, k, write[a][k].expected)
    /\ At(a, k, "checked") => ToldVersion(a, k, write[a][k].found)

\* An entry is not ahead of the setting, and where it is not behind it is the setting.
Past(k, entry) ==
    /\ entry.version <= setting[k].version
    /\ entry.version = setting[k].version => entry = setting[k]
PastTable(table) == \A k \in Capabilities : Past(k, table[k])

\* What a tab was told, loads or is answered has been the setting.
Truthful(a) ==
    /\ \A f \in told[a] : Past(f[1], f[2])
    /\ \A t \in load[a] : PastTable(t)
    /\ \A k \in Capabilities :
          write[a][k].stage \in {"ok", "conflict"} => PastTable(write[a][k].answer)

\* The inductive invariant.  What is said of the past of the setting holds
\* as long as no two transactions on a switch overlapped.
Knowledge ==
    /\ \A a \in Admins : Painted(a)
    /\ \A a \in Admins, k \in Capabilities : SentWhatItKnew(a, k)
    /\ ~raced => \A a \in Admins : Truthful(a)
    /\ \A r \in replaced : r[1] \in Admins
    /\ OverwritesTheKnown

\* The first state: nobody was told anything.
LEMMA KnowledgeInit == CapabilityInit => Knowledge
<1> SUFFICES ASSUME CapabilityInit PROVE Knowledge
  OBVIOUS
<1>1. \A a \in Admins : /\ cache[a] = {} /\ ~ready[a] /\ told[a] = {} /\ load[a] = {}
                        /\ \A k \in Capabilities : write[a][k].stage = "none"
  BY DEF CapabilityInit, NoWrite
<1>2. replaced = {}
  BY DEF CapabilityInit
<1> QED
  BY <1>1, <1>2 DEF Knowledge, Painted, SentWhatItKnew, Truthful, OverwritesTheKnown, At

\* What a tab was told, it was told.
LEMMA ToldStays ==
    ASSUME NEW a \in Admins, told[a] \subseteq told'[a]
    PROVE  /\ \A k \in Capabilities : \A v : ToldVersion(a, k, v) => ToldVersion(a, k, v)'
           /\ \A t : Backed(a, t) => Backed(a, t)'
BY DEF ToldVersion, Backed

\* A tab that hears a table has been told its versions.
LEMMA TableIsTold ==
    ASSUME NEW a \in Admins, told \in [Admins -> SUBSET (Capabilities \X Entries)],
           NEW table \in Tables, Tell(a, table)
    PROVE  /\ told'[a] = told[a] \cup Facts(table)
           /\ \A b \in Admins : told[b] \subseteq told'[b] /\ (b /= a => told'[b] = told[b])
           /\ Backed(a, table)'
<1>1. /\ told'[a] = told[a] \cup Facts(table)
      /\ \A b \in Admins : told[b] \subseteq told'[b] /\ (b /= a => told'[b] = told[b])
  BY DEF Tell
<1>2. ASSUME NEW k \in Capabilities PROVE ToldVersion(a, k, table[k].version)'
  <2>1. <<k, table[k]>> \in told'[a]
    BY <1>1 DEF Facts
  <2> QED
    BY <2>1 DEF ToldVersion
<1> QED
  BY <1>1, <1>2 DEF Backed

\* Showing a table in a tab leaves the other tabs alone.
LEMMA ShowKeeps ==
    ASSUME CapabilityTypeInv, NEW a \in Admins, NEW table \in Tables, NEW isReady \in BOOLEAN, Show(a, table, isReady)
    PROVE  /\ screen'[a] = table /\ ready'[a] = isReady
           /\ cache'[a] = IF isReady THEN {table} ELSE cache[a]
           /\ \A b \in Admins \ {a} : screen'[b] = screen[b] /\ ready'[b] = ready[b] /\ cache'[b] = cache[b]
BY DEF CapabilityTypeInv, CapabilityTypeOK, Holdings, Show, Cached

\* A tab that paints nothing new stays backed by what it was told.
LEMMA PaintedStays ==
    ASSUME NEW b \in Admins, Painted(b), told[b] \subseteq told'[b],
           screen'[b] = screen[b], cache'[b] = cache[b], ready'[b] => ready[b],
           \A k \in Capabilities : write'[b][k].stage /= "none" /\ ~write'[b][k].left =>
               /\ write[b][k].stage /= "none" /\ ~write[b][k].left
               /\ write'[b][k].previous = write[b][k].previous
    PROVE  Painted(b)'
BY ToldStays DEF Painted

\* A write that stays where it is expects what its tab was told.
LEMMA SentStays ==
    ASSUME NEW b \in Admins, NEW k \in Capabilities, SentWhatItKnew(b, k), told[b] \subseteq told'[b],
           write'[b][k].stage \in {"sent", "checked"} =>
               /\ write'[b][k].stage = write[b][k].stage
               /\ write'[b][k].expected = write[b][k].expected
               /\ write'[b][k].found = write[b][k].found
    PROVE  SentWhatItKnew(b, k)'
<1>1. \A v : ToldVersion(b, k, v) => ToldVersion(b, k, v)'
  BY ToldStays
<1> QED
  BY <1>1 DEF SentWhatItKnew, At

\* Without a new setting, a tab that is told nothing stays truthful.
LEMMA TruthfulStays ==
    ASSUME NEW b \in Admins, Truthful(b), setting' = setting, told'[b] = told[b],
           load'[b] \subseteq load[b],
           \A k \in Capabilities : write'[b][k].stage \in {"ok", "conflict"} =>
               /\ write[b][k].stage \in {"ok", "conflict"}
               /\ write'[b][k].answer = write[b][k].answer
    PROVE  Truthful(b)'
<1>1. \A k, e : Past(k, e)' <=> Past(k, e)
  BY DEF Past
<1> QED
  BY <1>1 DEF Truthful, PastTable

\* Where nothing is stored, what was replaced was known.
LEMMA OverwritesStay ==
    ASSUME Knowledge, replaced' = replaced, raced' = raced,
           \A b \in Admins : told[b] \subseteq told'[b]
    PROVE  OverwritesTheKnown' /\ \A r \in replaced' : r[1] \in Admins
BY DEF Knowledge, OverwritesTheKnown

\* Every step keeps the knowledge.
LEMMA KnowledgeStep == CapabilityTypeInv /\ Knowledge /\ [CapabilityNext]_capabilityVars => Knowledge'
<1> SUFFICES ASSUME CapabilityTypeInv, Knowledge, [CapabilityNext]_capabilityVars PROVE Knowledge'
  OBVIOUS
<1>t. /\ setting \in Tables /\ screen \in [Admins -> Tables] /\ ready \in [Admins -> BOOLEAN]
      /\ write \in [Admins -> [Capabilities -> Writes]] /\ writes \in 0..MaxWrites
      /\ cache \in [Admins -> SUBSET Tables] /\ load \in [Admins -> SUBSET Tables]
      /\ told \in [Admins -> SUBSET (Capabilities \X Entries)]
  BY DEF CapabilityTypeInv, CapabilityTypeOK, Holdings
<1>k. /\ \A b \in Admins : Painted(b)
      /\ \A b \in Admins, l \in Capabilities : SentWhatItKnew(b, l)
      /\ ~raced => \A b \in Admins : Truthful(b)
  BY DEF Knowledge
<1>w. \A b \in Admins, l \in Capabilities : write[b][l] \in Writes
  BY <1>t
<1>s. PastTable(setting)
  <2> \A k \in Capabilities : setting[k].version \in Nat
    BY <1>t, CapabilityZeroes, CapabilityAssumption
  <2> QED
    BY DEF PastTable, Past
<1>1. ASSUME NEW a \in Admins, StartLoad(a) PROVE Knowledge'
  <2>1. /\ UNCHANGED <<setting, write, told, replaced, raced>>
        /\ load'[a] = {setting} /\ \A b \in Admins \ {a} : load'[b] = load[b]
    BY <1>t, <1>1 DEF StartLoad, ghostVars
  <2>2. \A b \in Admins : screen'[b] = screen[b] /\ cache'[b] = cache[b] /\ (ready'[b] => ready[b])
    BY <1>t, <1>1, ShowKeeps DEF StartLoad
  <2>3. \A b \in Admins : Painted(b)'
    BY <1>k, <2>1, <2>2, PaintedStays
  <2>4. \A b \in Admins, l \in Capabilities : SentWhatItKnew(b, l)'
    BY <1>k, <2>1, SentStays
  <2>5. ASSUME NEW b \in Admins, ~raced PROVE Truthful(b)'
    <3>1. Truthful(b)
      BY <1>k, <2>5
    <3>2. CASE b /= a
      BY <2>1, <3>1, <3>2, TruthfulStays
    <3>3. CASE b = a
      BY <1>s, <2>1, <3>1, <3>3 DEF Truthful, PastTable, Past
    <3> QED
      BY <3>2, <3>3
  <2> QED
    BY <2>1, <2>3, <2>4, <2>5, OverwritesStay DEF Knowledge
<1>2. ASSUME NEW a \in Admins, Loaded(a) PROVE Knowledge'
  <2>1. PICK table \in load[a] :
           /\ load' = [load EXCEPT ![a] = {}]
           /\ Show(a, table, TRUE)
           /\ Tell(a, table)
           /\ UNCHANGED <<setting, write, writes, fetches, replaced, raced>>
    BY <1>2 DEF Loaded
  <2>2. table \in Tables
    BY <1>t
  <2>3. /\ screen'[a] = table /\ ready'[a] = TRUE /\ cache'[a] = {table}
        /\ \A b \in Admins \ {a} : screen'[b] = screen[b] /\ ready'[b] = ready[b] /\ cache'[b] = cache[b]
    BY <2>1, <2>2, ShowKeeps
  <2>4. /\ told'[a] = told[a] \cup Facts(table)
        /\ \A b \in Admins : told[b] \subseteq told'[b] /\ (b /= a => told'[b] = told[b])
        /\ Backed(a, table)'
    BY <1>t, <2>1, <2>2, TableIsTold
  <2>5. UNCHANGED <<setting, write, replaced, raced>> /\ \A b \in Admins : load'[b] \subseteq load[b]
    BY <1>t, <2>1
  <2>6. ASSUME NEW b \in Admins PROVE Painted(b)'
    <3>1. CASE b = a
      BY <1>k, <2>3, <2>4, <2>5, <3>1, ToldStays DEF Painted
    <3>2. CASE b /= a
      BY <1>k, <2>3, <2>4, <2>5, <3>2, PaintedStays
    <3> QED
      BY <3>1, <3>2
  <2>7. \A b \in Admins, l \in Capabilities : SentWhatItKnew(b, l)'
    BY <1>k, <2>4, <2>5, SentStays
  <2>8. ASSUME NEW b \in Admins, ~raced PROVE Truthful(b)'
    <3>1. Truthful(b) /\ PastTable(table)
      BY <1>k, <2>8 DEF Truthful
    <3>2. CASE b /= a
      BY <2>4, <2>5, <3>1, <3>2, TruthfulStays
    <3>3. CASE b = a
      <4>1. \A f \in Facts(table) : Past(f[1], f[2])
        BY <3>1 DEF Facts, PastTable
      <4>2. \A k, e : Past(k, e)' <=> Past(k, e)
        BY <2>5 DEF Past
      <4> QED
        BY <2>4, <2>5, <3>1, <3>3, <4>1, <4>2 DEF Truthful, PastTable
    <3> QED
      BY <3>2, <3>3
  <2> QED
    BY <2>4, <2>5, <2>6, <2>7, <2>8, OverwritesStay DEF Knowledge
\* What an action that tells nothing and leaves settings and screens alone shows.
<1>u. ASSUME UNCHANGED <<setting, screen, cache, told, replaced, raced>>,
             \A b \in Admins : (ready'[b] => ready[b]) /\ load'[b] \subseteq load[b],
             \A b \in Admins, l \in Capabilities :
                 \/ write'[b][l] = write[b][l]
                 \/ write'[b][l].stage = "none"
                 \/ /\ write'[b][l].stage \in {"written", "ok", "failed"}
                    /\ write[b][l].stage /= "none" /\ write'[b][l].left = write[b][l].left
                    /\ write'[b][l].previous = write[b][l].previous
                    /\ write'[b][l].stage = "ok" => write'[b][l].answer = setting
      PROVE  Knowledge'
  <2>1. \A b \in Admins : Painted(b)'
    BY <1>k, <1>u, PaintedStays
  <2>2. \A b \in Admins, l \in Capabilities : SentWhatItKnew(b, l)'
    BY <1>k, <1>u, SentStays
  <2>3. ASSUME NEW b \in Admins, ~raced PROVE Truthful(b)'
    <3>1. Truthful(b)
      BY <1>k, <2>3
    <3>2. \A k, e : Past(k, e)' <=> Past(k, e)
      BY <1>u DEF Past
    <3> QED
      BY <1>s, <1>u, <3>1, <3>2 DEF Truthful, PastTable
  <2> QED
    BY <1>u, <2>1, <2>2, <2>3, OverwritesStay DEF Knowledge
<1>3. ASSUME NEW a \in Admins, LoadFails(a) PROVE Knowledge'
  BY <1>t, <1>u, <1>3 DEF LoadFails, ghostVars
<1>4. ASSUME NEW a \in Admins, ReloadPage(a) PROVE Knowledge'
  <2> DEFINE row(k) == IF write[a][k].stage = "none" THEN NoWrite
                       ELSE [write[a][k] EXCEPT !.left = TRUE, !.previous = Default]
  <2>1. write'[a] = [k \in Capabilities |-> row(k)] /\ \A b \in Admins \ {a} : write'[b] = write[b]
    BY <1>t, <1>4 DEF ReloadPage
  <2>2. ASSUME NEW k \in Capabilities
        PROVE  \/ write'[a][k].stage = "none"
               \/ /\ write'[a][k].left
                  /\ write'[a][k].stage = write[a][k].stage
                  /\ write'[a][k].expected = write[a][k].expected
                  /\ write'[a][k].found = write[a][k].found
                  /\ write'[a][k].answer = write[a][k].answer
    <3>1. CASE write[a][k].stage = "none"
      <4>1. write'[a][k] = NoWrite
        BY <2>1, <3>1
      <4> QED
        BY <4>1 DEF NoWrite
    <3>2. CASE write[a][k].stage /= "none"
      <4>1. write'[a][k] = [write[a][k] EXCEPT !.left = TRUE, !.previous = Default]
        BY <2>1, <3>2
      <4> QED
        BY <1>w, <4>1 DEF Writes
    <3> QED
      BY <3>1, <3>2
  <2> HIDE DEF row
  <2>3. /\ UNCHANGED <<setting, told, replaced, raced, cache>>
        /\ screen'[a] = IF cache[a] = {} THEN Default ELSE CHOOSE t \in cache[a] : TRUE
        /\ ~ready'[a] /\ load'[a] = {}
        /\ \A b \in Admins \ {a} : screen'[b] = screen[b] /\ ready'[b] = ready[b] /\ load'[b] = load[b]
    BY <1>t, <1>4 DEF ReloadPage, ghostVars
  <2>4. ASSUME NEW b \in Admins PROVE Painted(b)'
    <3>1. CASE b = a
      <4>1. Painted(a)
        BY <1>k
      <4>2. \A t : Backed(a, t) => Backed(a, t)'
        BY <2>3, ToldStays
      <4>3. cache[a] /= {} => screen'[a] \in cache[a]
        BY <2>3
      <4> QED
        BY <2>2, <2>3, <3>1, <4>1, <4>2, <4>3 DEF Painted
    <3>2. CASE b /= a
      BY <1>k, <2>1, <2>3, <3>2, PaintedStays
    <3> QED
      BY <3>1, <3>2
  <2>5. ASSUME NEW b \in Admins, NEW l \in Capabilities PROVE SentWhatItKnew(b, l)'
    BY <1>k, <2>1, <2>2, <2>3, SentStays
  <2>6. ASSUME NEW b \in Admins, ~raced PROVE Truthful(b)'
    BY <1>k, <2>1, <2>2, <2>3, <2>6, TruthfulStays
  <2> QED
    BY <2>3, <2>4, <2>5, <2>6, OverwritesStay DEF Knowledge
<1>5. ASSUME NEW a \in Admins, NEW k \in Capabilities, Switch(a, k) PROVE Knowledge'
  <2> DEFINE table == Optimistic(screen[a], k, writes + 1)
             w == [NoWrite EXCEPT !.stage = "sent", !.value = writes + 1,
                     !.expected = screen[a][k].version, !.previous = screen[a]]
  <2>1. /\ w.stage = "sent" /\ w.expected = screen[a][k].version /\ w.previous = screen[a]
    BY DEF NoWrite
  <2>2. write' = [write EXCEPT ![a][k] = w]
    BY <1>5 DEF Switch
  <2>3. table \in Tables /\ \A l \in Capabilities : table[l].version = screen[a][l].version
    <3>1. screen[a] \in Tables /\ writes + 1 \in 0..MaxWrites
      BY <1>t, <1>5, CapabilityAssumption DEF Switch
    <3> QED
      BY <3>1 DEF Optimistic, Tables, Entries
  <2>4. Show(a, table, ready[a]) /\ UNCHANGED <<setting, load, fetches, told, replaced, raced>>
        /\ (cache[a] /= {} \/ ready[a]) /\ ready[a] \in BOOLEAN
    BY <1>t, <1>5 DEF Switch, ghostVars
  <2> HIDE DEF table, w
  <2>5. /\ write'[a][k] = w
        /\ \A b \in Admins, l \in Capabilities : b /= a \/ l /= k => write'[b][l] = write[b][l]
    BY <1>t, <2>2
  <2>6. /\ screen'[a] = table /\ ready'[a] = ready[a]
        /\ cache'[a] = IF ready[a] THEN {table} ELSE cache[a]
        /\ \A b \in Admins \ {a} : screen'[b] = screen[b] /\ ready'[b] = ready[b] /\ cache'[b] = cache[b]
    BY <1>t, <2>3, <2>4 DEF Show, Cached
  <2>7. Painted(a) /\ Backed(a, screen[a]) /\ Backed(a, table)
    BY <1>k, <2>3, <2>4 DEF Painted, Backed
  <2>8. \A t : Backed(a, t) => Backed(a, t)'
    BY <2>4, ToldStays
  <2>9. ASSUME NEW b \in Admins PROVE Painted(b)'
    <3>1. CASE b = a
      <4>1. (\A l \in Capabilities :
                write[a][l].stage /= "none" /\ ~write[a][l].left => Backed(a, write[a][l].previous))'
        BY <2>1, <2>5, <2>7, <2>8 DEF Painted
      <4>2. \A t \in cache'[a] : Backed(a, t)'
        BY <2>6, <2>7, <2>8 DEF Painted
      <4>3. Backed(a, screen[a])'
        BY <2>6, <2>7, <2>8
      <4> QED
        BY <3>1, <4>1, <4>2, <4>3 DEF Painted
    <3>2. CASE b /= a
      BY <1>k, <2>4, <2>5, <2>6, <3>2, PaintedStays
    <3> QED
      BY <3>1, <3>2
  <2>10. ASSUME NEW b \in Admins, NEW l \in Capabilities PROVE SentWhatItKnew(b, l)'
    <3>1. CASE b = a /\ l = k
      <4>1. ToldVersion(a, k, screen[a][k].version)
        BY <2>7 DEF Backed
      <4> QED
        BY <2>1, <2>4, <2>5, <3>1, <4>1 DEF SentWhatItKnew, At, ToldVersion
    <3>2. CASE b /= a \/ l /= k
      BY <1>k, <2>4, <2>5, <3>2, SentStays
    <3> QED
      BY <3>1, <3>2
  <2>11. ASSUME NEW b \in Admins, ~raced PROVE Truthful(b)'
    <3>1. Truthful(b)
      BY <1>k, <2>11
    <3>2. \A l \in Capabilities : write'[b][l].stage \in {"ok", "conflict"} =>
               write'[b][l] = write[b][l]
      BY <2>1, <2>5
    <3> QED
      BY <2>4, <3>1, <3>2, TruthfulStays
  <2> QED
    BY <2>4, <2>9, <2>10, <2>11, OverwritesStay DEF Knowledge
<1>6. ASSUME NEW a \in Admins, NEW k \in Capabilities, CheckVersion(a, k) PROVE Knowledge'
  <2> DEFINE w == write'[a][k]
  <2>1. /\ w = IF VersionMatches(write[a][k].expected, setting[k].version)
          THEN [write[a][k] EXCEPT !.stage = "checked", !.expected = 0, !.found = setting[k].version]
          ELSE [write[a][k] EXCEPT !.stage = "conflict", !.expected = 0, !.answer = setting]
        /\ \A b \in Admins, l \in Capabilities : b /= a \/ l /= k => write'[b][l] = write[b][l]
    BY <1>t, <1>6 DEF CheckVersion
  <2>2. UNCHANGED <<setting, screen, ready, cache, load, told, replaced, raced>>
        /\ write[a][k].stage = "sent"
    BY <1>6 DEF CheckVersion, tabVars, ghostVars, At
  <2>3. /\ w.left = write[a][k].left /\ w.previous = write[a][k].previous
        /\ \/ /\ w.stage = "checked" /\ w.found = write[a][k].expected
           \/ w.stage = "conflict" /\ w.answer = setting
    BY <1>w, <2>1 DEF Writes, VersionMatches
  <2>4. \A b \in Admins : Painted(b)'
    BY <1>k, <2>1, <2>2, <2>3, PaintedStays
  <2>5. ASSUME NEW b \in Admins, NEW l \in Capabilities PROVE SentWhatItKnew(b, l)'
    <3>1. CASE b = a /\ l = k
      <4>1. ToldVersion(a, k, write[a][k].expected)
        BY <1>k, <2>2 DEF SentWhatItKnew, At
      <4> QED
        BY <2>2, <2>3, <3>1, <4>1 DEF SentWhatItKnew, At, ToldVersion
    <3>2. CASE b /= a \/ l /= k
      BY <1>k, <2>1, <2>2, <3>2, SentStays
    <3> QED
      BY <3>1, <3>2
  <2>6. ASSUME NEW b \in Admins, ~raced PROVE Truthful(b)'
    <3>1. Truthful(b)
      BY <1>k, <2>6
    <3>2. \A l, e : Past(l, e)' <=> Past(l, e)
      BY <2>2 DEF Past
    <3>3. \A l \in Capabilities : write'[b][l].stage \in {"ok", "conflict"} =>
              write'[b][l] = write[b][l] \/ write'[b][l].answer = setting
      BY <2>1, <2>3
    <3> QED
      BY <1>s, <2>2, <3>1, <3>2, <3>3 DEF Truthful, PastTable
  <2> QED
    BY <2>2, <2>4, <2>5, <2>6, OverwritesStay DEF Knowledge
<1>7. ASSUME NEW a \in Admins, NEW k \in Capabilities, StoreValue(a, k) PROVE Knowledge'
  <2>1. /\ UNCHANGED <<screen, ready, cache, load, told>>
        /\ write[a][k].stage = "checked"
        /\ setting' = [setting EXCEPT ![k] = [value |-> write[a][k].value,
                                              version |-> write[a][k].found + 1]]
        /\ replaced' = replaced \cup {<<a, k, setting[k]>>}
        /\ raced' = (raced \/ setting[k].version /= write[a][k].found)
    BY <1>7 DEF StoreValue, tabVars, At
  <2>2. write' = [write EXCEPT ![a][k] = [write[a][k] EXCEPT !.stage = "written"]]
    BY <1>t, <1>7 DEF StoreValue, To
  <2>3. /\ write'[a][k] = [write[a][k] EXCEPT !.stage = "written"]
        /\ \A b \in Admins, l \in Capabilities : b /= a \/ l /= k => write'[b][l] = write[b][l]
    BY <1>t, <2>2
  <2>4. write'[a][k].stage = "written" /\ write'[a][k].left = write[a][k].left
        /\ write'[a][k].previous = write[a][k].previous
    BY <1>w, <2>3 DEF Writes
  <2>5. \A b \in Admins : Painted(b)'
    BY <1>k, <2>1, <2>3, <2>4, PaintedStays
  <2>6. \A b \in Admins, l \in Capabilities : SentWhatItKnew(b, l)'
    BY <1>k, <2>1, <2>3, <2>4, SentStays
  <2>7. \A l, e : l \in Capabilities /\ e \in Entries /\ ~raced' /\ Past(l, e) => Past(l, e)'
    <3> SUFFICES ASSUME NEW l \in Capabilities, NEW e \in Entries, ~raced', Past(l, e) PROVE Past(l, e)'
      OBVIOUS
    <3>1. CASE l /= k
      <4>1. setting'[l] = setting[l]
        BY <1>t, <2>1, <3>1 DEF Tables
      <4> QED
        BY <4>1 DEF Past
    <3>2. CASE l = k
      <4>1. setting'[k].version = setting[k].version + 1
        BY <1>t, <2>1 DEF Tables
      <4>2. setting[k].version \in Nat /\ e.version \in Nat
        BY <1>t, CapabilityZeroes, CapabilityAssumption DEF Entries
      <4> QED
        BY <3>2, <4>1, <4>2 DEF Past
    <3> QED
      BY <3>1, <3>2
  <2>8. ASSUME NEW b \in Admins, ~raced' PROVE Truthful(b)'
    <3>1. Truthful(b)
      BY <1>k, <2>1, <2>8
    <3>2. \A f \in told[b] : f[1] \in Capabilities /\ f[2] \in Entries
      BY <1>t
    <3>3. \A t \in Tables : PastTable(t) => PastTable(t)'
      BY <2>7, <2>8, CapabilityZeroes DEF PastTable
    <3>4. load[b] \subseteq Tables /\ \A l \in Capabilities : write[b][l].answer \in Tables
      BY <1>t, CapabilityZeroes
    <3>5. \A l \in Capabilities : write'[b][l].stage \in {"ok", "conflict"} => write'[b][l] = write[b][l]
      BY <2>3, <2>4
    <3>6. \A f \in told'[b] : Past(f[1], f[2])'
      BY <2>1, <2>7, <2>8, <3>1, <3>2 DEF Truthful
    <3>7. \A t \in load'[b] : PastTable(t)'
      BY <2>1, <3>1, <3>3, <3>4 DEF Truthful
    <3>8. (\A l \in Capabilities :
              write[b][l].stage \in {"ok", "conflict"} => PastTable(write[b][l].answer))'
      BY <3>1, <3>3, <3>4, <3>5 DEF Truthful
    <3> QED
      BY <3>6, <3>7, <3>8 DEF Truthful
  <2>9. ~raced' => <<k, setting[k]>> \in told[a]
    <3> SUFFICES ASSUME ~raced' PROVE <<k, setting[k]>> \in told[a]
      OBVIOUS
    <3>1. ToldVersion(a, k, setting[k].version)
      BY <1>k, <2>1 DEF SentWhatItKnew, At
    <3>2. PICK f \in told[a] : f[1] = k /\ f[2].version = setting[k].version
      BY <3>1 DEF ToldVersion
    <3>3. Truthful(a) /\ f \in Capabilities \X Entries
      BY <1>k, <1>t, <2>1
    <3>4. f[2] = setting[k]
      BY <3>2, <3>3 DEF Truthful, Past
    <3> QED
      BY <3>2, <3>3, <3>4
  <2>10. OverwritesTheKnown' /\ \A r \in replaced' : r[1] \in Admins
    <3>1. <<a, k, setting[k]>>[1] = a /\ <<a, k, setting[k]>>[2] = k /\ <<a, k, setting[k]>>[3] = setting[k]
      OBVIOUS
    <3>2. (~raced => \A r \in replaced : <<r[2], r[3]>> \in told[r[1]]) /\ \A r \in replaced : r[1] \in Admins
      BY DEF Knowledge, OverwritesTheKnown
    <3>3. \A r \in replaced' : r \in replaced \/ r = <<a, k, setting[k]>>
      BY <2>1
    <3>4. OverwritesTheKnown'
      BY <2>1, <2>9, <3>1, <3>2, <3>3 DEF OverwritesTheKnown
    <3> QED
      BY <3>1, <3>2, <3>3, <3>4
  <2> QED
    BY <2>5, <2>6, <2>8, <2>10 DEF Knowledge
<1>8. ASSUME NEW a \in Admins, NEW k \in Capabilities, ReadAnswer(a, k) PROVE Knowledge'
  <2>1. /\ write'[a][k] = [write[a][k] EXCEPT !.stage = "ok", !.found = 0, !.answer = setting]
        /\ \A b \in Admins, l \in Capabilities : b /= a \/ l /= k => write'[b][l] = write[b][l]
    BY <1>t, <1>8 DEF ReadAnswer
  <2>2. /\ write'[a][k].stage = "ok" /\ write'[a][k].left = write[a][k].left
        /\ write'[a][k].previous = write[a][k].previous /\ write'[a][k].answer = setting
    BY <1>w, <2>1 DEF Writes
  <2>3. UNCHANGED <<setting, screen, ready, cache, load, told, replaced, raced>> /\ write[a][k].stage = "written"
    BY <1>8 DEF ReadAnswer, ghostVars, tabVars, At
  <2> QED
    BY <1>u, <2>1, <2>2, <2>3
<1>9. ASSUME NEW a \in Admins, NEW k \in Capabilities, WriteFails(a, k) PROVE Knowledge'
  <2>1. /\ write'[a][k] = [write[a][k] EXCEPT !.stage = "failed", !.expected = 0, !.answer = Default]
        /\ \A b \in Admins, l \in Capabilities : b /= a \/ l /= k => write'[b][l] = write[b][l]
    BY <1>t, <1>9 DEF WriteFails
  <2>2. /\ write'[a][k].stage = "failed" /\ write'[a][k].left = write[a][k].left
        /\ write'[a][k].previous = write[a][k].previous
    BY <1>w, <2>1 DEF Writes
  <2>3. UNCHANGED <<setting, screen, ready, cache, load, told, replaced, raced>> /\ write[a][k].stage /= "none"
    BY <1>9 DEF WriteFails, ghostVars, tabVars
  <2> QED
    BY <1>u, <2>1, <2>2, <2>3
<1>n. NoWrite.stage = "none"
  BY DEF NoWrite
<1>10. ASSUME NEW a \in Admins, NEW k \in Capabilities, HearWrite(a, k) PROVE Knowledge'
  <2>0. PICK table : table = After(a, k)
    OBVIOUS
  <2>1. /\ write' = [write EXCEPT ![a][k] = NoWrite]
        /\ UNCHANGED <<setting, load, replaced, raced>> /\ Show(a, table, ready[a]) /\ ready[a] \in BOOLEAN
        /\ write[a][k].stage \in {"ok", "conflict", "failed"} /\ ~write[a][k].left
        /\ IF At(a, k, "failed") THEN UNCHANGED told ELSE Tell(a, write[a][k].answer)
    BY <1>t, <1>10, <2>0 DEF HearWrite
  <2>2. table \in Tables /\ write[a][k].answer \in Tables
    BY <1>w, <2>0, CapabilityZeroes DEF After
  <2>3. /\ write'[a][k].stage = "none"
        /\ \A b \in Admins, l \in Capabilities : b /= a \/ l /= k => write'[b][l] = write[b][l]
    BY <1>t, <1>n, <2>1
  <2>4. /\ \A b \in Admins : told[b] \subseteq told'[b] /\ (b /= a => told'[b] = told[b])
        /\ Backed(a, table)'
        /\ (told'[a] = told[a] \/ (~At(a, k, "failed") /\ told'[a] = told[a] \cup Facts(write[a][k].answer)))
    <3>1. CASE At(a, k, "failed")
      <4>1. Backed(a, table)
        BY <1>k, <2>0, <2>1, <3>1 DEF Painted, After, At
      <4> QED
        BY <2>1, <3>1, <4>1, ToldStays
    <3>2. CASE ~At(a, k, "failed")
      <4>1. write[a][k].answer = table
        BY <2>0, <3>2 DEF After
      <4> QED
        BY <1>t, <2>1, <2>2, <3>2, <4>1, TableIsTold
    <3> QED
      BY <3>1, <3>2
  <2>5. /\ screen'[a] = table /\ ready'[a] = ready[a]
        /\ cache'[a] = IF ready[a] THEN {table} ELSE cache[a]
        /\ \A b \in Admins \ {a} : screen'[b] = screen[b] /\ ready'[b] = ready[b] /\ cache'[b] = cache[b]
    BY <1>t, <2>1, <2>2 DEF Show, Cached
  <2>6. ASSUME NEW b \in Admins PROVE Painted(b)'
    <3>1. CASE b = a
      <4>1. Painted(a) /\ \A t : Backed(a, t) => Backed(a, t)'
        BY <1>k, <2>4, ToldStays
      <4>2. (\A l \in Capabilities :
                write[a][l].stage /= "none" /\ ~write[a][l].left => Backed(a, write[a][l].previous))'
        BY <2>3, <4>1 DEF Painted
      <4>3. \A t \in cache'[a] : Backed(a, t)'
        BY <2>4, <2>5, <4>1 DEF Painted
      <4> QED
        BY <2>4, <2>5, <3>1, <4>2, <4>3 DEF Painted
    <3>2. CASE b /= a
      BY <1>k, <2>3, <2>4, <2>5, <3>2, PaintedStays
    <3> QED
      BY <3>1, <3>2
  <2>7. \A b \in Admins, l \in Capabilities : SentWhatItKnew(b, l)'
    BY <1>k, <2>3, <2>4, SentStays
  <2>8. ASSUME NEW b \in Admins, ~raced PROVE Truthful(b)'
    <3>1. Truthful(b)
      BY <1>k, <2>8
    <3>2. \A l, e : Past(l, e)' <=> Past(l, e)
      BY <2>1 DEF Past
    <3>3. ~At(a, k, "failed") => \A f \in Facts(write[a][k].answer) : Past(f[1], f[2])
      BY <1>k, <2>1, <2>8 DEF Truthful, At, Facts, PastTable
    <3>4. \A f \in told'[b] : Past(f[1], f[2])'
      BY <2>4, <3>1, <3>2, <3>3 DEF Truthful
    <3> QED
      BY <2>1, <2>3, <3>1, <3>2, <3>4 DEF Truthful, PastTable
  <2> QED
    BY <2>1, <2>4, <2>6, <2>7, <2>8, OverwritesStay DEF Knowledge
<1>11. ASSUME NEW a \in Admins, NEW k \in Capabilities, Unheard(a, k) PROVE Knowledge'
  <2>1. /\ write'[a][k].stage = "none"
        /\ \A b \in Admins, l \in Capabilities : b /= a \/ l /= k => write'[b][l] = write[b][l]
    BY <1>t, <1>n, <1>11 DEF Unheard
  <2>2. UNCHANGED <<setting, screen, ready, cache, load, told, replaced, raced>>
    BY <1>11 DEF Unheard, ghostVars, tabVars
  <2> QED
    BY <1>u, <2>1, <2>2
<1>12. CASE UNCHANGED capabilityVars
  BY <1>u, <1>12 DEF capabilityVars
<1> QED
  BY <1>1, <1>2, <1>3, <1>4, <1>5, <1>6, <1>7, <1>8, <1>9, <1>10, <1>11, <1>12 DEF CapabilityNext

\* As long as no two transactions on a switch overlapped, a write replaces only an
\* entry that its tab had been told: the version that the request carries is enough.
THEOREM KnownOverwritten == CapabilitySpec => []OverwritesTheKnown
<1>1. CapabilitySpec => [](CapabilityTypeInv /\ Knowledge)
  BY CapabilityTypeInit, CapabilityTypeStep, KnowledgeInit, KnowledgeStep, PTL DEF CapabilitySpec
<1> QED
  BY <1>1, PTL DEF Knowledge

-----------------------------------------------------------------------------
(* OfflineQueue: nothing is lost in silence, nothing accepted is sent      *)
(* again.                                                                  *)

\* A queue that has every mutation once, none of them accepted.
Distinct(q) == \A m, n \in q : m.id = n.id => m = n
QueueFits(q, accepted) ==
    /\ q \subseteq Mutations /\ Distinct(q) /\ Ids(q) \subseteq 1..created
    /\ accepted \cap Ids(q) = {}

\* A replay: what it has still to send has retries left, in the queue too, and was
\* not accepted; what it has sent was accepted or has failed.
Replays == [batch : SUBSET Mutations, todo : SUBSET Mutations,
            failed : SUBSET (1..created), aborted : BOOLEAN]
ReplayFits(r, q, accepted) ==
    /\ r \in Replays
    /\ Distinct(r.batch) /\ Ids(r.batch) \subseteq 1..created
    /\ r.todo \subseteq Latest(r.batch)
    /\ \A m \in r.todo : ~Spent(m) /\ \A n \in q : n.id = m.id => ~Spent(n)
    /\ \A m \in Latest(r.batch) \ r.todo : m.id \in accepted \cup r.failed
    /\ accepted \cap Ids(r.todo) = {}

OfflineInv ==
    /\ OfflineTypeOK
    /\ probing => queued = stored
    /\ QueueFits(stored, acked)
    /\ ReplayFits(replay, stored, acked)
    /\ NothingLostInSilence

\* The outcomes cover every mutation that is not in the queue q.
Covered(q, accepted) == 1..created \subseteq Ids(q) \cup accepted \cup reported \cup cleared

\* Removing mutations keeps a queue.
LEMMA WithoutFits ==
    ASSUME NEW q, NEW accepted, NEW ids, QueueFits(q, accepted)
    PROVE  /\ QueueFits(Without(q, ids), accepted)
           /\ Without(q, ids) \subseteq q
           /\ Ids(Without(q, ids)) = Ids(q) \ ids
BY DEF QueueFits, Distinct, Without, Ids

\* The types that a replay's step leaves, whichever way it goes on.
OfflineRest == /\ probing' \in BOOLEAN /\ connectivity' \in {"online", "offline"}
               /\ consecutiveFailures' \in 0..FAILURES_BEFORE_OFFLINE
               /\ created' = created /\ reloads' \in 0..MaxReloads
               /\ cleared' = cleared

\* The replay goes on, or finishes: what it has sent leaves the queue and is
\* accepted or reported (the loop and the clean-up of replayOfflineQueue).
LEMMA GoOnKeeps ==
    ASSUME OfflineInv, NEW r, NEW q, GoOn(r, q), OfflineRest,
           QueueFits(q, acked'), ReplayFits(r, q, acked'), Covered(q, acked'),
           acked' \subseteq 1..created
    PROVE  OfflineInv'
<1>1. /\ reported \subseteq 1..created /\ cleared \subseteq 1..created
      /\ created \in 0..MaxMutations
  BY DEF OfflineInv, OfflineTypeOK
<1>2. CASE r.todo = {}
  <2>1. PICK p : p = Without(q, Ids(Latest(r.batch)))
    OBVIOUS
  <2>2. /\ queued' = p /\ stored' = p /\ replay' = NoReplay
        /\ reported' = reported \cup r.failed
    BY <1>2, <2>1 DEF GoOn, Finish, Persist
  <2>3. QueueFits(p, acked') /\ Ids(p) = Ids(q) \ Ids(Latest(r.batch))
    BY <2>1, WithoutFits
  <2>4. r.failed \subseteq 1..created
    BY DEF ReplayFits, Replays
  <2>5. Ids(Latest(r.batch)) \subseteq acked' \cup r.failed
    BY <1>2 DEF ReplayFits, Ids
  <2>6. 1..created \subseteq Ids(p) \cup acked' \cup reported' \cup cleared
    BY <2>2, <2>3, <2>5 DEF Covered
  <2>7. NoReplay \in Replays /\ NoReplay.batch = {} /\ NoReplay.todo = {}
    BY DEF NoReplay, Replays
  <2>8. ReplayFits(NoReplay, p, acked')
    BY <2>7 DEF ReplayFits, Distinct, Ids, Latest
  <2>9. OfflineTypeOK'
    BY <1>1, <2>2, <2>3, <2>4, <2>7 DEF OfflineRest, OfflineTypeOK, QueueFits, Replays
  <2>10. QueueFits(stored, acked)'
    BY <2>2, <2>3 DEF OfflineRest, QueueFits
  <2>11. ReplayFits(replay, stored, acked)'
    BY <2>2, <2>8 DEF OfflineRest, ReplayFits, Replays
  <2>12. NothingLostInSilence'
    BY <2>2, <2>6 DEF OfflineRest, NothingLostInSilence
  <2> QED
    BY <2>2, <2>9, <2>10, <2>11, <2>12 DEF OfflineInv
<1>3. CASE r.todo /= {}
  <2>1. /\ queued' = q /\ stored' = q /\ replay' = r /\ reported' = reported
    BY <1>3 DEF GoOn, Persist
  <2>2. OfflineTypeOK'
    BY <1>1, <2>1 DEF OfflineRest, OfflineTypeOK, QueueFits, ReplayFits, Replays
  <2>3. QueueFits(stored, acked)'
    BY <2>1 DEF OfflineRest, QueueFits
  <2>4. ReplayFits(replay, stored, acked)'
    BY <2>1 DEF OfflineRest, ReplayFits, Replays
  <2>5. NothingLostInSilence'
    BY <2>1 DEF OfflineRest, NothingLostInSilence, Covered
  <2> QED
    BY <2>1, <2>2, <2>3, <2>4, <2>5 DEF OfflineInv
<1> QED
  BY <1>2, <1>3

\* A step that leaves the queue, the replay and what has come of it alone.
LEMMA OfflineRests ==
    ASSUME OfflineInv, OfflineRest, UNCHANGED <<queueVars, replay, acked, reported>>,
           probing' => probing
    PROVE  OfflineInv'
<1>1. UNCHANGED <<queued, stored, replay, acked, reported, created, cleared>>
  BY DEF OfflineRest, queueVars
<1>2. OfflineTypeOK'
  BY <1>1 DEF OfflineInv, OfflineTypeOK, OfflineRest
<1>3. QueueFits(stored, acked)'
  BY <1>1 DEF OfflineInv, QueueFits
<1>4. ReplayFits(replay, stored, acked)'
  BY <1>1 DEF OfflineInv, ReplayFits, Replays
<1>5. NothingLostInSilence'
  BY <1>1 DEF OfflineInv, NothingLostInSilence
<1> QED
  BY <1>1, <1>2, <1>3, <1>4, <1>5 DEF OfflineInv

\* The server is back: the queue is read and its first mutation sent (Replay).
LEMMA ReplayKeeps ==
    ASSUME OfflineInv, queued = stored, Replay, OfflineRest, acked' = acked, probing' = probing
    PROVE  OfflineInv'
<1>1. CASE Sending \/ queued = {}
  <2>1. UNCHANGED <<queueVars, replay, acked, reported>>
    BY <1>1 DEF Replay
  <2> QED
    BY <2>1, OfflineRests
<1>2. CASE ~(Sending \/ queued = {})
  <2>1. PICK s : s = [NoReplay EXCEPT !.batch = queued, !.todo = Latest(queued)]
    OBVIOUS
  <2>2. PICK r : r = [s EXCEPT !.todo = Unspent(s), !.failed = FailedAtOnce(s)]
    OBVIOUS
  <2>3. GoOn(r, queued)
    BY <1>2, <2>1, <2>2 DEF Replay
  <2>4. /\ queued \subseteq Mutations /\ Distinct(queued) /\ Ids(queued) \subseteq 1..created
        /\ acked \cap Ids(queued) = {} /\ acked \subseteq 1..created
    BY DEF OfflineInv, QueueFits, OfflineTypeOK
  <2>5. /\ s.todo = Latest(queued) /\ s.batch = queued /\ s.aborted = FALSE
        /\ Latest(queued) \subseteq queued
    BY <2>1 DEF NoReplay, Latest
  <2>6. /\ r.todo = {m \in Latest(queued) : ~Spent(m)} /\ r.batch = queued
        /\ r.failed = Ids({m \in Latest(queued) : Spent(m)})
        /\ r = [batch |-> r.batch, todo |-> r.todo, failed |-> r.failed, aborted |-> FALSE]
    BY <2>1, <2>2, <2>5 DEF NoReplay, Unspent, FailedAtOnce
  <2>7. r.failed \subseteq 1..created
    BY <2>4, <2>5, <2>6 DEF Ids
  <2>8. r \in Replays
    <3>1. r.batch \in SUBSET Mutations /\ r.todo \in SUBSET Mutations
      BY <2>4, <2>5, <2>6
    <3>2. r.failed \in SUBSET (1..created) /\ FALSE \in BOOLEAN
      BY <2>7
    <3>3. r = [batch |-> queued, todo |-> Unspent(s), failed |-> FailedAtOnce(s), aborted |-> FALSE]
      BY <2>1, <2>2 DEF NoReplay
    <3>4. Unspent(s) = r.todo /\ FailedAtOnce(s) = r.failed /\ r.batch = queued
      BY <3>3
    <3> QED
      BY <3>1, <3>2, <3>3, <3>4 DEF Replays
  <2>9. \A m \in r.todo : ~Spent(m) /\ \A n \in queued : n.id = m.id => ~Spent(n)
    BY <2>4, <2>5, <2>6 DEF Distinct
  <2>10. \A m \in Latest(queued) \ r.todo : m.id \in r.failed
    BY <2>6 DEF Ids
  <2>11. acked \cap Ids(r.todo) = {}
    BY <2>4, <2>5, <2>6 DEF Ids
  <2>12. ReplayFits(r, queued, acked)
    BY <2>4, <2>6, <2>8, <2>9, <2>10, <2>11 DEF ReplayFits
  <2>13. Covered(queued, acked) /\ QueueFits(queued, acked)
    BY DEF OfflineInv, NothingLostInSilence, Covered
  <2> QED
    BY <2>3, <2>4, <2>12, <2>13, GoOnKeeps
<1> QED
  BY <1>1, <1>2

\* The answer is ok: the mutation is accepted and leaves the queue (Succeeds).
LEMMA SucceedsKeeps ==
    ASSUME OfflineInv, queued = stored, NEW m \in replay.todo, Succeeds(m)
    PROVE  OfflineInv'
<1>1. PICK r : r = [replay EXCEPT !.todo = replay.todo \ {m}]
  OBVIOUS
<1>2. PICK q : q = Without(queued, {m.id})
  OBVIOUS
<1>3. PICK a : a = acked \cup {m.id}
  OBVIOUS
<1>4. /\ acked' = a /\ GoOn(r, q)
      /\ UNCHANGED <<probing, connectivity, consecutiveFailures, created, cleared, reloads>>
  BY <1>1, <1>2, <1>3 DEF Succeeds, probeVars
<1>5. /\ replay \in Replays /\ Distinct(replay.batch) /\ Ids(replay.batch) \subseteq 1..created
      /\ replay.todo \subseteq Latest(replay.batch) /\ Latest(replay.batch) \subseteq replay.batch
  BY DEF OfflineInv, ReplayFits, Latest
<1>6. /\ r.todo = replay.todo \ {m} /\ r.batch = replay.batch /\ r.failed = replay.failed
      /\ r \in Replays
  BY <1>1, <1>5 DEF Replays
<1>7. \A n \in r.todo : n.id /= m.id
  BY <1>5, <1>6 DEF Distinct
<1>8. OfflineRest
  BY <1>4 DEF OfflineRest, OfflineInv, OfflineTypeOK
<1>9. QueueFits(queued, acked)
  BY DEF OfflineInv
<1>10. QueueFits(q, acked) /\ q \subseteq queued /\ Ids(q) = Ids(queued) \ {m.id}
  BY <1>2, <1>9, WithoutFits
<1>11. QueueFits(q, a)
  BY <1>3, <1>10 DEF QueueFits
<1>12. ReplayFits(r, q, a)
  <2>1. \A n \in r.todo : ~Spent(n) /\ \A p \in q : p.id = n.id => ~Spent(p)
    BY <1>6, <1>10 DEF OfflineInv, ReplayFits
  <2>2. \A n \in Latest(r.batch) \ r.todo : n.id \in a \cup r.failed
    BY <1>3, <1>6 DEF OfflineInv, ReplayFits
  <2>3. a \cap Ids(r.todo) = {}
    BY <1>3, <1>6, <1>7 DEF OfflineInv, ReplayFits, Ids
  <2> QED
    BY <1>5, <1>6, <2>1, <2>2, <2>3 DEF ReplayFits
<1>13. Covered(q, a)
  BY <1>3, <1>10 DEF OfflineInv, NothingLostInSilence, Covered
<1>14. m.id \in 1..created
  BY <1>5 DEF Ids
<1>15. a \subseteq 1..created
  BY <1>3, <1>14 DEF OfflineInv, OfflineTypeOK
<1> QED
  BY <1>4, <1>8, <1>11, <1>12, <1>13, <1>15, GoOnKeeps

\* A retry that is counted keeps the ids of the queue.
LEMMA WithRetryFits ==
    ASSUME NEW q, NEW accepted, NEW id, QueueFits(q, accepted),
           \A n \in q : n.id = id => ~Spent(n)
    PROVE  /\ QueueFits(WithRetry(q, id), accepted)
           /\ Ids(WithRetry(q, id)) = Ids(q)
           /\ \A n \in WithRetry(q, id) : n.id /= id => n \in q
<1> DEFINE Again(n) == [n EXCEPT !.retryCount = n.retryCount + 1]
<1>1. WithRetry(q, id) = {n \in q : n.id /= id} \cup {Again(n) : n \in {p \in q : p.id = id}}
  BY DEF WithRetry
<1>2. q \subseteq Mutations /\ Distinct(q)
  BY DEF QueueFits
<1>3. ASSUME NEW n \in q, n.id = id
      PROVE  Again(n) \in Mutations /\ Again(n).id = id
  <2>1. n \in Mutations /\ n.retryCount \in 0..MAX_RETRIES /\ ~(n.retryCount >= MAX_RETRIES)
    BY <1>2, <1>3 DEF Mutations, Spent
  <2>2. n.retryCount + 1 \in 0..MAX_RETRIES
    BY <2>1 DEF MAX_RETRIES
  <2> QED
    BY <1>3, <2>1, <2>2 DEF Mutations
<1> HIDE DEF Again
<1>4. WithRetry(q, id) \subseteq Mutations
  BY <1>1, <1>2, <1>3
<1>5. \A n \in WithRetry(q, id) : n.id /= id => n \in q
  BY <1>1, <1>3
<1>6. \A n \in WithRetry(q, id) : n.id = id => \E p \in q : p.id = id /\ n = Again(p)
  BY <1>1
<1>7. Distinct(WithRetry(q, id))
  BY <1>2, <1>5, <1>6 DEF Distinct
<1>8. Ids(WithRetry(q, id)) = Ids(q)
  <2>1. ASSUME NEW n \in q PROVE \E p \in WithRetry(q, id) : p.id = n.id
    BY <1>1, <1>3
  <2>2. ASSUME NEW n \in WithRetry(q, id) PROVE \E p \in q : p.id = n.id
    BY <1>5, <1>6
  <2> QED
    BY <2>1, <2>2 DEF Ids
<1> QED
  BY <1>4, <1>5, <1>7, <1>8 DEF QueueFits

\* The answer is an error, or there is none: the failure counts (Fails).
LEMMA FailsKeeps ==
    ASSUME OfflineInv, queued = stored, NEW m \in replay.todo, Fails(m)
    PROVE  OfflineInv'
<1>1. PICK r : r = [replay EXCEPT !.todo = replay.todo \ {m}, !.failed = replay.failed \cup {m.id}]
  OBVIOUS
<1>2. PICK q : q = WithRetry(queued, m.id)
  OBVIOUS
<1>4. /\ acked' = acked /\ GoOn(r, q)
      /\ UNCHANGED <<probing, connectivity, consecutiveFailures, created, cleared, reloads>>
  BY <1>1, <1>2 DEF Fails, probeVars
<1>5. /\ replay \in Replays /\ Distinct(replay.batch) /\ Ids(replay.batch) \subseteq 1..created
      /\ replay.todo \subseteq Latest(replay.batch) /\ Latest(replay.batch) \subseteq replay.batch
      /\ \A n \in queued : n.id = m.id => ~Spent(n)
  BY DEF OfflineInv, ReplayFits, Latest
<1>6. m.id \in 1..created
  BY <1>5 DEF Ids
<1>7. /\ r.todo = replay.todo \ {m} /\ r.batch = replay.batch
      /\ r.failed = replay.failed \cup {m.id} /\ r \in Replays
  BY <1>1, <1>5, <1>6 DEF Replays
<1>8. \A n \in r.todo : n.id /= m.id
  BY <1>5, <1>7 DEF Distinct
<1>9. OfflineRest
  BY <1>4 DEF OfflineRest, OfflineInv, OfflineTypeOK
<1>10. QueueFits(queued, acked)
  BY DEF OfflineInv
<1>11. /\ QueueFits(q, acked) /\ Ids(q) = Ids(queued)
       /\ \A n \in q : n.id /= m.id => n \in queued
  BY <1>2, <1>5, <1>10, WithRetryFits
<1>12. ReplayFits(r, q, acked)
  <2>1. \A n \in r.todo : ~Spent(n) /\ \A p \in q : p.id = n.id => ~Spent(p)
    BY <1>7, <1>8, <1>11 DEF OfflineInv, ReplayFits
  <2>2. \A n \in Latest(r.batch) \ r.todo : n.id \in acked \cup r.failed
    BY <1>7 DEF OfflineInv, ReplayFits
  <2>3. acked \cap Ids(r.todo) = {}
    BY <1>7 DEF OfflineInv, ReplayFits, Ids
  <2> QED
    BY <1>5, <1>7, <2>1, <2>2, <2>3 DEF ReplayFits
<1>13. Covered(q, acked) /\ acked \subseteq 1..created
  BY <1>11 DEF OfflineInv, OfflineTypeOK, NothingLostInSilence, Covered
<1> QED
  BY <1>4, <1>9, <1>11, <1>12, <1>13, GoOnKeeps

\* A mutation is queued: its id is new (Enqueue).
LEMMA EnqueueKeeps ==
    ASSUME OfflineInv, queued = stored, NEW e \in Endpoints, Enqueue(e)
    PROVE  OfflineInv'
<1>1. PICK n : n = [id |-> created + 1, endpoint |-> e, retryCount |-> 0]
  OBVIOUS
<1>2. PICK q : q = queued \cup {n}
  OBVIOUS
<1>3. /\ created < MaxMutations /\ created' = created + 1 /\ queued' = q /\ stored' = q
      /\ UNCHANGED <<probing, connectivity, consecutiveFailures, replay, acked, reported, cleared, reloads>>
  BY <1>1, <1>2 DEF Enqueue, Persist, probeVars, outcomeVars
<1>4. /\ created \in 0..MaxMutations /\ queued \subseteq Mutations
      /\ acked \subseteq 1..created /\ reported \subseteq 1..created /\ cleared \subseteq 1..created
      /\ replay \in Replays
  BY DEF OfflineInv, OfflineTypeOK, Replays
<1>5. /\ created + 1 \in 1..MaxMutations /\ created + 1 \in 0..MaxMutations
      /\ 1..(created + 1) = (1..created) \cup {created + 1} /\ created + 1 \notin 1..created
  BY <1>3, <1>4, OfflineAssumption
<1>6. n \in Mutations /\ n.id = created + 1 /\ ~Spent(n)
  BY <1>1, <1>5 DEF Mutations, Spent, MAX_RETRIES
<1>7. /\ QueueFits(queued, acked) /\ ReplayFits(replay, queued, acked)
      /\ 1..created \subseteq Ids(queued) \cup acked \cup reported \cup cleared
  BY DEF OfflineInv, NothingLostInSilence
<1>8. Ids(q) = Ids(queued) \cup {created + 1}
  BY <1>2, <1>6 DEF Ids
<1>9. \A m \in queued : m.id \in 1..created
  BY <1>7 DEF QueueFits, Ids
<1>10. QueueFits(q, acked)'
  <2>1. q \subseteq Mutations
    BY <1>2, <1>4, <1>6
  <2>2. Distinct(q)
    BY <1>2, <1>5, <1>6, <1>7, <1>9 DEF QueueFits, Distinct
  <2>3. Ids(q) \subseteq 1..(created + 1) /\ acked \cap Ids(q) = {}
    BY <1>4, <1>5, <1>7, <1>8 DEF QueueFits
  <2> QED
    BY <1>3, <2>1, <2>2, <2>3 DEF QueueFits
<1>11. ReplayFits(replay, q, acked)'
  <2>1. \A m \in replay.todo : ~Spent(m) /\ \A p \in q : p.id = m.id => ~Spent(p)
    BY <1>2, <1>6, <1>7 DEF ReplayFits
  <2>2. replay \in [batch : SUBSET Mutations, todo : SUBSET Mutations,
                    failed : SUBSET (1..(created + 1)), aborted : BOOLEAN]
    BY <1>4, <1>5 DEF Replays
  <2>3. /\ Distinct(replay.batch) /\ Ids(replay.batch) \subseteq 1..(created + 1)
        /\ replay.todo \subseteq Latest(replay.batch)
        /\ \A m \in Latest(replay.batch) \ replay.todo : m.id \in acked \cup replay.failed
        /\ acked \cap Ids(replay.todo) = {}
    BY <1>5, <1>7 DEF ReplayFits
  <2> QED
    BY <1>3, <2>1, <2>2, <2>3 DEF ReplayFits, Replays
<1>12. NothingLostInSilence'
  BY <1>3, <1>5, <1>7, <1>8 DEF NothingLostInSilence
<1>13. OfflineTypeOK'
  <2>1. /\ queued' \subseteq Mutations /\ stored' \subseteq Mutations /\ created' \in 0..MaxMutations
        /\ acked' \cup reported' \cup cleared' \subseteq 1..created'
    BY <1>2, <1>3, <1>4, <1>5, <1>6
  <2>2. replay' \in [batch : SUBSET Mutations, todo : SUBSET Mutations,
                     failed : SUBSET (1..created'), aborted : BOOLEAN]
    BY <1>3, <1>4, <1>5 DEF Replays
  <2> QED
    BY <1>3, <2>1, <2>2 DEF OfflineInv, OfflineTypeOK
<1>14. QueueFits(stored, acked)' /\ ReplayFits(replay, stored, acked)'
  BY <1>3, <1>10, <1>11 DEF QueueFits, ReplayFits, Replays
<1> QED
  BY <1>3, <1>12, <1>13, <1>14 DEF OfflineInv

\* The user clears the queue (ClearPending).
LEMMA ClearPendingKeeps ==
    ASSUME OfflineInv, queued = stored, ClearPending
    PROVE  OfflineInv'
<1>1. /\ queued' = {} /\ stored' = {} /\ cleared' = cleared \cup Ids(queued)
      /\ UNCHANGED <<probing, connectivity, consecutiveFailures, replay, created, acked, reported, reloads>>
  BY DEF ClearPending, Persist, probeVars
<1>2. QueueFits(queued, acked) /\ ReplayFits(replay, queued, acked)
  BY DEF OfflineInv
<1>3. OfflineTypeOK'
  BY <1>1, <1>2 DEF OfflineInv, OfflineTypeOK, QueueFits
<1>4. QueueFits(stored, acked)'
  BY <1>1 DEF QueueFits, Distinct, Ids
<1>5. ReplayFits(replay, stored, acked)'
  BY <1>1, <1>2 DEF ReplayFits, Replays
<1>6. NothingLostInSilence'
  BY <1>1 DEF OfflineInv, NothingLostInSilence
<1> QED
  BY <1>1, <1>3, <1>4, <1>5, <1>6 DEF OfflineInv

\* The probe, whose listener replays when the status becomes online.
LEMMA ProbesKeep ==
    ASSUME OfflineInv, queued = stored, Healthy \/ Unhealthy \/ BrowserOnline \/ BrowserOffline
    PROVE  OfflineInv'
<1>1. /\ acked' = acked /\ probing' = probing
      /\ Replay \/ UNCHANGED <<queueVars, replay, acked, reported>>
  BY DEF Healthy, Unhealthy, BrowserOnline, BrowserOffline, EmitOnline, EmitOffline, queueVars
<1>2. OfflineRest
  <2>1. /\ probing' \in BOOLEAN /\ created' = created /\ cleared' = cleared
        /\ reloads' \in 0..MaxReloads
    BY DEF Healthy, Unhealthy, BrowserOnline, BrowserOffline, OfflineInv, OfflineTypeOK
  <2>2. connectivity' \in {"online", "offline"}
    BY DEF Healthy, Unhealthy, BrowserOnline, BrowserOffline, EmitOnline, EmitOffline,
           OfflineInv, OfflineTypeOK
  <2>3. consecutiveFailures' \in 0..FAILURES_BEFORE_OFFLINE
    BY DEF Healthy, Unhealthy, BrowserOnline, BrowserOffline, FAILURES_BEFORE_OFFLINE,
           OfflineInv, OfflineTypeOK
  <2> QED
    BY <2>1, <2>2, <2>3 DEF OfflineRest
<1> QED
  BY <1>1, <1>2, ReplayKeeps, OfflineRests

\* The page mounts, unmounts or reloads: only localStorage survives.
LEMMA PageKeeps ==
    ASSUME OfflineInv, Initialize \/ ReloadTab \/ (Mounted /\ Shutdown)
    PROVE  OfflineInv'
<1>1. /\ stored' = stored /\ created' = created /\ queued' \in {queued, stored, {}}
      /\ UNCHANGED <<acked, reported, cleared>>
      /\ replay' \in {replay, NoReplay, [replay EXCEPT !.aborted = TRUE]}
      /\ probing' => queued' = stored'
  BY DEF Initialize, ReloadTab, Shutdown, outcomeVars, queueVars
<1>2. /\ probing' \in BOOLEAN /\ connectivity' \in {"online", "offline"}
      /\ consecutiveFailures' \in 0..FAILURES_BEFORE_OFFLINE
      /\ reloads' \in 0..MaxReloads
  <2>1. reloads \in 0..MaxReloads /\ (reloads < MaxReloads => reloads + 1 \in 0..MaxReloads)
    BY OfflineAssumption DEF OfflineInv, OfflineTypeOK
  <2>2. reloads' \in 0..MaxReloads
    BY <2>1 DEF Initialize, ReloadTab, Shutdown
  <2>3. 0 \in 0..FAILURES_BEFORE_OFFLINE
    BY DEF FAILURES_BEFORE_OFFLINE
  <2> QED
    BY <2>2, <2>3 DEF Initialize, ReloadTab, Shutdown, OfflineInv, OfflineTypeOK
<1>3. ReplayFits(replay', stored, acked)
  <2>1. ReplayFits(replay, stored, acked)
    BY DEF OfflineInv
  <2>2. CASE replay' = NoReplay
    <3>1. NoReplay \in Replays /\ NoReplay.batch = {} /\ NoReplay.todo = {}
      BY DEF NoReplay, Replays
    <3> QED
      BY <2>2, <3>1 DEF ReplayFits, Distinct, Ids, Latest
  <2>3. CASE replay' = [replay EXCEPT !.aborted = TRUE]
    <3>1. PICK r : r = [replay EXCEPT !.aborted = TRUE]
      OBVIOUS
    <3>2. r \in Replays /\ r.batch = replay.batch /\ r.todo = replay.todo /\ r.failed = replay.failed
      BY <2>1, <3>1 DEF ReplayFits, Replays
    <3>3. ReplayFits(r, stored, acked)
      BY <2>1, <3>2 DEF ReplayFits
    <3> QED
      BY <2>3, <3>1, <3>3
  <2> QED
    BY <1>1, <2>1, <2>2, <2>3
<1>4. QueueFits(stored, acked)'
  BY <1>1 DEF OfflineInv, QueueFits
<1>5. ReplayFits(replay, stored, acked)'
  BY <1>1, <1>3 DEF ReplayFits, Replays
<1>6. OfflineTypeOK'
  BY <1>1, <1>2, <1>3 DEF OfflineInv, OfflineTypeOK, ReplayFits, Replays
<1>7. NothingLostInSilence'
  BY <1>1 DEF OfflineInv, NothingLostInSilence
<1> QED
  BY <1>1, <1>4, <1>5, <1>6, <1>7 DEF OfflineInv

\* The inductive invariant of the queue, the replay and its outcomes.
LEMMA OfflineInvariance == OfflineSpec => []OfflineInv
<1>1. OfflineInit => OfflineInv
  <2> SUFFICES ASSUME OfflineInit PROVE OfflineInv
    OBVIOUS
  <2>1. NoReplay \in Replays /\ NoReplay.batch = {} /\ NoReplay.todo = {}
    BY DEF NoReplay, Replays
  <2>2. created = 0 /\ 1..created = {} /\ created \in 0..MaxMutations /\ reloads \in 0..MaxReloads
    BY OfflineAssumption DEF OfflineInit
  <2>3. OfflineTypeOK
    <3>1. 0 \in 0..FAILURES_BEFORE_OFFLINE
      BY DEF FAILURES_BEFORE_OFFLINE
    <3>2. replay \in Replays
      BY <2>1 DEF OfflineInit
    <3> QED
      BY <2>2, <3>1, <3>2 DEF OfflineInit, OfflineTypeOK, Replays
  <2>4. QueueFits(stored, acked) /\ ReplayFits(replay, stored, acked)
    BY <2>1 DEF OfflineInit, QueueFits, ReplayFits, Distinct, Ids, Latest
  <2> QED
    BY <2>2, <2>3, <2>4 DEF OfflineInit, OfflineInv, NothingLostInSilence
<1>2. OfflineInv /\ [OfflineNext]_offlineVars => OfflineInv'
  <2> SUFFICES ASSUME OfflineInv, [OfflineNext]_offlineVars PROVE OfflineInv'
    OBVIOUS
  <2>1. Mounted => queued = stored
    BY DEF Mounted, OfflineInv
  <2>2. CASE UNCHANGED offlineVars
    <3>1. /\ UNCHANGED <<queueVars, replay, acked, reported>> /\ probing' = probing
          /\ UNCHANGED <<connectivity, consecutiveFailures, created, cleared, reloads>>
      BY <2>2 DEF offlineVars, probeVars, outcomeVars
    <3>2. OfflineRest
      BY <3>1 DEF OfflineRest, OfflineInv, OfflineTypeOK
    <3> QED
      BY <3>1, <3>2, OfflineRests
  <2>3. CASE OfflineNext
    BY <2>1, <2>3, PageKeeps, EnqueueKeeps, ClearPendingKeeps, SucceedsKeeps, FailsKeeps, ProbesKeep
       DEF OfflineNext
  <2> QED
    BY <2>2, <2>3
<1> QED
  BY <1>1, <1>2, PTL DEF OfflineSpec

\* The queue, the probe and the replay keep their types, and no mutation is
\* retried more often than the limit.
THEOREM OfflineTypesHold == OfflineSpec => []OfflineTypeOK
<1>1. OfflineInv => OfflineTypeOK
  BY DEF OfflineInv
<1> QED
  BY <1>1, OfflineInvariance, PTL

\* A mutation leaves the queue only when it was accepted, reported as failed or
\* cleared: those queued while a replay runs, those it skips and those of a tab
\* that reloads are kept.
THEOREM KeptUntilAnswered == OfflineSpec => []NothingLostInSilence
<1>1. OfflineInv => NothingLostInSilence
  BY DEF OfflineInv
<1> QED
  BY <1>1, OfflineInvariance, PTL

\* A mutation that the tab has seen accepted is not in the queue, nor in what the
\* replay has still to send.
THEOREM AcceptedLeaves == OfflineSpec => []AcceptedIsGone
<1>1. OfflineInv => AcceptedIsGone
  BY DEF OfflineInv, QueueFits, ReplayFits, AcceptedIsGone
<1> QED
  BY <1>1, OfflineInvariance, PTL

=============================================================================
