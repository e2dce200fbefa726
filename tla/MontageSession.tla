--------------------------- MODULE MontageSession ---------------------------
(***************************************************************************)
(* Several people edit one montage project: each has the editing panel     *)
(* open (app/media/montage/[id]/page.tsx, MontageEditorPanel.tsx) with its *)
(* own timeline and undo history (montage-editor.ts), and saves it as the  *)
(* project's next revision (MontageProjectService::saveRevision).          *)
(*                                                                         *)
(* A timeline is the number of the edit that made it: which clips it has   *)
(* is MontageTimeline's business.                                          *)
(***************************************************************************)
EXTENDS Naturals, Sequences, SequencesExt, FiniteSets

CONSTANTS
    Editors,        \* the people who have the panel open
    HistoryLimit,   \* how many timelines withHistory keeps (50 in the code)
    MaxEdits, MaxRevisions, MaxOpens    \* bounds

ASSUME SessionAssumption ==
    /\ HistoryLimit \in Nat \ {0}
    /\ MaxEdits \in Nat /\ MaxRevisions \in Nat /\ MaxOpens \in Nat

VARIABLES
    panel,      \* the editor state of each panel
    asked,      \* the request each panel waits for
    revisions,  \* the project's revisions, the first one first
    edits,      \* edits made so far
    opens       \* pages opened so far

sessionVars == <<panel, asked, revisions, edits, opens>>

Closed == [revision |-> 0, timeline |-> 0, past |-> <<>>, future |-> <<>>,
           open |-> FALSE, seen |-> 0]
Idle == [kind |-> "none", expected |-> 0, timeline |-> 0, answer |-> "none", revision |-> 0]

Timelines == 0..MaxEdits
Numbers == 0..MaxRevisions
\* seen is the revision the page was loaded from, which the code does not keep.
Panels == [revision : Numbers, timeline : Timelines, past : Seq(Timelines),
           future : Seq(Timelines), open : BOOLEAN, seen : Numbers]
Requests == [kind : {"none", "save", "cmx"}, expected : Numbers, timeline : Timelines,
             answer : {"none", "ok", "conflict"}, revision : Numbers]
Revisions == [author : Editors, timeline : Timelines, seen : Numbers]

Head_ == Len(revisions)     \* montage_projects.revision

SessionInit ==
    /\ panel = [e \in Editors |-> Closed]
    /\ asked = [e \in Editors |-> Idle]
    /\ revisions = <<>>
    /\ edits = 0 /\ opens = 0

-----------------------------------------------------------------------------
(* The page loads the active revision; the answers of a page that was      *)
(* left are not awaited.                                                   *)

Opened(e, p) ==
    /\ opens < MaxOpens
    /\ opens' = opens + 1
    /\ panel' = [panel EXCEPT ![e] = p]
    /\ asked' = [asked EXCEPT ![e] = Idle]
    /\ UNCHANGED <<revisions, edits>>

\* The editor state of a page that has just loaded a timeline.
Fresh(timeline) == [revision |-> Head_, timeline |-> timeline, past |-> <<>>, future |-> <<>>,
                    open |-> TRUE, seen |-> Head_]

Open(e) == Opened(e, Fresh(IF Head_ = 0 THEN 0 ELSE revisions[Head_].timeline))

\* The project answered and the revision did not: the page starts from an
\* empty timeline, as if there were no revision, at the project's revision.
OpenWithoutRevision(e) == Head_ > 0 /\ Opened(e, Fresh(0))

-----------------------------------------------------------------------------
(* Editing: reduceEditor, undoEditor, redoEditor.                          *)

\* slice(-50) of a history that has grown by one.
Newest(past) == IF Len(past) > HistoryLimit THEN Tail(past) ELSE past

\* Mutant: the history is not cut.
WithHistory_Uncut(p, next) ==
    [p EXCEPT !.timeline = next, !.past = Append(@, p.timeline), !.future = <<>>]

\* Mutant: an edit leaves what was undone to be redone.
WithHistory_KeepsFuture(p, next) ==
    [p EXCEPT !.timeline = next, !.past = Newest(Append(@, p.timeline))]

WithHistory(p, next) ==
    [p EXCEPT !.timeline = next, !.past = Newest(Append(@, p.timeline)), !.future = <<>>]

Edit(e) ==
    /\ panel[e].open /\ edits < MaxEdits
    /\ edits' = edits + 1
    /\ panel' = [panel EXCEPT ![e] = WithHistory(@, edits + 1)]
    /\ UNCHANGED <<asked, revisions, opens>>

Undone(p) == [p EXCEPT !.timeline = Last(p.past), !.past = Front(@),
                       !.future = <<p.timeline>> \o @]

Undo(e) ==
    /\ panel[e].past /= <<>>
    /\ panel' = [panel EXCEPT ![e] = Undone(@)]
    /\ UNCHANGED <<asked, revisions, edits, opens>>

Redone(p) == [p EXCEPT !.timeline = Head(p.future), !.past = Append(@, p.timeline),
                       !.future = Tail(@)]

Redo(e) ==
    /\ panel[e].future /= <<>>
    /\ panel' = [panel EXCEPT ![e] = Redone(@)]
    /\ UNCHANGED <<asked, revisions, edits, opens>>

-----------------------------------------------------------------------------
(* Saving: the panel asks with the revision it is at, the server answers,  *)
(* the panel hears.  It may be edited and undone in between.  The panel    *)
(* does not stop a second request; one at a time is modelled.              *)

Ask(e, kind, timeline) ==
    /\ panel[e].open /\ asked[e] = Idle
    /\ asked' = [asked EXCEPT ![e] = [Idle EXCEPT !.kind = kind, !.expected = panel[e].revision,
                                                  !.timeline = timeline]]

\* saveRevision of the panel: the timeline of this moment.
Save(e) ==
    /\ Ask(e, "save", panel[e].timeline)
    /\ UNCHANGED <<panel, revisions, edits, opens>>

\* applyCmx: the server makes the timeline from an EDL.
ApplyCmx(e) ==
    /\ edits < MaxEdits
    /\ edits' = edits + 1
    /\ Ask(e, "cmx", edits + 1)
    /\ UNCHANGED <<panel, revisions, opens>>

\* Two transactions that both pass the check collide on the unique revision
\* number, so the check and the insert are one step.
Current(expected) == expected = Head_

\* saveRevision of MontageProjectService.
Serve(e) ==
    /\ asked[e] /= Idle /\ asked[e].answer = "none"
    /\ IF Current(asked[e].expected)
       THEN /\ Head_ < MaxRevisions
            /\ revisions' = Append(revisions, [author |-> e, timeline |-> asked[e].timeline,
                                              seen |-> panel[e].seen])
            /\ asked' = [asked EXCEPT ![e].answer = "ok", ![e].revision = Head_ + 1]
       ELSE /\ asked' = [asked EXCEPT ![e].answer = "conflict", ![e].revision = Head_]
            /\ UNCHANGED revisions
    /\ UNCHANGED <<panel, edits, opens>>

\* The request or its answer is lost, which is shown and changes nothing: the
\* save may have been made.
Lose(e) ==
    /\ asked[e] /= Idle
    /\ asked' = [asked EXCEPT ![e] = Idle]
    /\ UNCHANGED <<panel, revisions, edits, opens>>

\* Mutant: a conflict brings the panel to the server's revision.
Learns_FromConflict(r) == r.answer \in {"ok", "conflict"}

\* A new revision moves the panel on, whatever it shows by now; a conflict is
\* shown and changes nothing.
Learns(r) == r.answer = "ok"

Hear(e) ==
    /\ asked[e].answer /= "none"
    /\ panel' = [panel EXCEPT ![e].revision = IF Learns(asked[e]) THEN asked[e].revision ELSE @]
    /\ asked' = [asked EXCEPT ![e] = Idle]
    /\ UNCHANGED <<revisions, edits, opens>>

SessionNext == \E e \in Editors :
    \/ Open(e) \/ OpenWithoutRevision(e)
    \/ Edit(e) \/ Undo(e) \/ Redo(e)
    \/ Save(e) \/ ApplyCmx(e) \/ Serve(e) \/ Lose(e) \/ Hear(e)

SessionSpec == SessionInit /\ [][SessionNext]_sessionVars

-----------------------------------------------------------------------------
(* Properties                                                              *)

History(p) == p.past \o <<p.timeline>> \o p.future

\* The types; the history never grows over its limit, although redoEditor
\* puts timelines back without cutting the past.
SessionTypeOK ==
    /\ panel \in [Editors -> Panels] /\ asked \in [Editors -> Requests]
    /\ revisions \in Seq(Revisions)
    /\ edits \in 0..MaxEdits /\ opens \in 0..MaxOpens
    /\ Head_ <= MaxRevisions
    /\ \A e \in Editors : Len(panel[e].past) + Len(panel[e].future) <= HistoryLimit

\* Undo and redo walk along one line of distinct timelines, in the order in
\* which they were made, whatever was loaded, undone and edited before.
HistoryIsALine ==
    \A e \in Editors : \A i, j \in DOMAIN History(panel[e]) :
        i < j => History(panel[e])[i] < History(panel[e])[j]

\* Nobody's revision is replaced by a timeline that was made without it: when
\* another person's revision precedes one in the list, the page it was saved
\* from had been loaded at or after that revision, through lost answers,
\* conflicts and saves under way while the page was edited.  A page whose
\* revision did not answer counts as loaded from it, although it starts empty.
OthersWorkIsKept ==
    \A n, m \in DOMAIN revisions :
        m < n /\ revisions[m].author /= revisions[n].author =>
            m <= revisions[n].seen

=============================================================================
