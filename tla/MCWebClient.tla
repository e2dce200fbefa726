---------------------------- MODULE MCWebClient ----------------------------
(***************************************************************************)
(* The parts of the web client on small instances, for TLC.  They share no *)
(* state: a behaviour is one of the part that its page shows, with the     *)
(* other parts at rest.                                                    *)
(***************************************************************************)
EXTENDS OfflineQueue, MontageTimeline, MontageSession, AuthSession,
        CapabilitySettings, MCScheduleTime, UploadClient, SearchPage, TLC

VARIABLE page

Pages == {"offline", "timeline", "montage", "auth", "capabilities", "schedule", "upload", "search"}

MCDuration == [s \in Sources |-> 3]

\* Two versions of a file that the browser can hash, and one that it cannot.
MCFiles == {[name |-> "a", stamp |-> 1, body |-> 1, hashed |-> TRUE],
            [name |-> "a", stamp |-> 1, body |-> 2, hashed |-> TRUE],
            [name |-> "a", stamp |-> 2, body |-> 1, hashed |-> FALSE]}

\* The tabs of one part are those of another.
MCSymmetry == Permutations(Tabs) \cup Permutations(Capabilities) \cup Permutations(Queries)

webVars == <<page, offlineVars, timelineVars, sessionVars, authVars,
             capabilityVars, scheduleVars, uploadVars, searchVars>>

AtRest ==
    /\ page /= "timeline" => clips = {}
    /\ page /= "auth" => cookie = 0
    /\ page /= "schedule" => zone = [before |-> 0, after |-> 0, change |-> 4]
    /\ page /= "search" => address = [query |-> NoQuery, page |-> 1]

WebInit ==
    /\ page \in Pages
    /\ OfflineInit /\ TimelineInit /\ SessionInit /\ AuthInit
    /\ CapabilityInit /\ ScheduleInit /\ UploadInit /\ SearchInit
    /\ AtRest

WebNext ==
    /\ UNCHANGED page
    /\ IF page = "offline" THEN OfflineNext ELSE UNCHANGED offlineVars
    /\ IF page = "timeline" THEN TimelineNext ELSE UNCHANGED timelineVars
    /\ IF page = "montage" THEN SessionNext ELSE UNCHANGED sessionVars
    /\ IF page = "auth" THEN AuthNext ELSE UNCHANGED authVars
    /\ IF page = "capabilities" THEN CapabilityNext ELSE UNCHANGED capabilityVars
    /\ IF page = "schedule" THEN ScheduleNext ELSE UNCHANGED scheduleVars
    /\ IF page = "upload" THEN UploadNext ELSE UNCHANGED uploadVars
    /\ IF page = "search" THEN SearchNext ELSE UNCHANGED searchVars

WebSpec == WebInit /\ [][WebNext]_webVars

\* Every part keeps its types, and with them: the undo history stays within its
\* limit, every token is of one session, a ready screen is what is cached, only
\* a valid time is sent, and a session lists every chunk that it stores.
WebTypeOK ==
    /\ OfflineTypeOK /\ SessionTypeOK /\ AuthTypeOK
    /\ CapabilityTypeOK /\ ScheduleTypeOK /\ UploadTypeOK /\ SearchTypeOK

=============================================================================
