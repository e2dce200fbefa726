-------------------------- MODULE MontageTimeline --------------------------
(***************************************************************************)
(* The clips of a montage and the reducer that edits them                  *)
(* (archive-next/lib/montage-editor.ts), driven by the keys of             *)
(* TimelineCanvas.tsx and by the media bin of MontageEditorPanel.tsx.      *)
(*                                                                         *)
(* Times are whole frames: snapToFrame brings every input to one, and sums *)
(* and differences of frames stay there.  An effect on a clip changes no   *)
(* time and is left out.                                                   *)
(***************************************************************************)
EXTENDS Naturals, FiniteSets

CONSTANTS
    Tracks, FirstTrack,     \* the project's tracks, and the first of them
    Sources,                \* the records in the media bin
    Duration,               \* their durations in frames
    MaxClips, MaxFrame      \* bounds: clips, and how far a clip is moved

ASSUME TimelineAssumption ==
    /\ FirstTrack \in Tracks
    /\ Duration \in [Sources -> Nat \ {0}]
    /\ MaxClips \in Nat /\ MaxFrame \in Nat

VARIABLES
    clips,      \* timeline.clips
    clipIds     \* clip ids given out

timelineVars == <<clips, clipIds>>

\* timelineStart is at, sourceIn..sourceOut the part of the source it shows.
Clips == [id : Nat \ {0}, track : Tracks, source : Sources, at : Nat, sourceIn : Nat, sourceOut : Nat]

Length(c) == c.sourceOut - c.sourceIn
End(c) == c.at + Length(c)

\* A project without a revision, or one with a clip on some track.
TimelineInit ==
    \/ clips = {} /\ clipIds = 0
    \/ \E track \in Tracks, s \in Sources :
          /\ clips = {[id |-> 1, track |-> track, source |-> s, at |-> 0,
                       sourceIn |-> 0, sourceOut |-> Duration[s]]}
          /\ clipIds = 1

-----------------------------------------------------------------------------
(* reduceEditor                                                            *)

\* Mutant: a clip ends at its sourceOut.
TrackEnd_SourceOut(track) ==
    LET ends == {0} \cup {c.sourceOut : c \in {d \in clips : d.track = track}}
    IN  CHOOSE e \in ends : \A f \in ends : f <= e

\* The end of the last clip of the track, 0 when it has none.
TrackEnd(track) ==
    LET ends == {0} \cup {End(c) : c \in {d \in clips : d.track = track}}
    IN  CHOOSE e \in ends : \A f \in ends : f <= e

\* "add": the whole source, after the last clip of the track.
Add(track, s) ==
    /\ clips' = clips \cup {[id |-> clipIds + 1, track |-> track, source |-> s,
                             at |-> TrackEnd(track), sourceIn |-> 0, sourceOut |-> Duration[s]]}
    /\ clipIds' = clipIds + 1

\* Mutant: the right part starts over in the source.
Parts_FromStart(c, at) ==
    LET offset == at - c.at
    IN  {[c EXCEPT !.sourceOut = c.sourceIn + offset],
         [c EXCEPT !.id = clipIds + 1, !.at = at]}

\* The two clips that a split leaves: the left one keeps the id.
Parts(c, at) ==
    LET offset == at - c.at
    IN  {[c EXCEPT !.sourceOut = c.sourceIn + offset],
         [c EXCEPT !.id = clipIds + 1, !.at = at, !.sourceIn = c.sourceIn + offset]}

\* "split": refused on and outside the clip's bounds.
Split(c, at) ==
    /\ c.at < at /\ at < End(c)
    /\ clips' = (clips \ {c}) \cup Parts(c, at)
    /\ clipIds' = clipIds + 1

\* "move"
MoveTo(c, track, start) ==
    /\ clips' = (clips \ {c}) \cup {[c EXCEPT !.track = track, !.at = start]}
    /\ UNCHANGED clipIds

\* Mutant: every other clip of the track is pulled.
Pulled_All(c, d) == d.track = c.track

\* What a ripple trim of c pulls: the clips of its track that start at or
\* after its sourceOut, a position in the source.
Pulled(c, d) == d.track = c.track /\ d.at >= c.sourceOut

\* "rippleTrim": refused when nothing would be left, and when out is no shorter.
RippleTrim(c, out) ==
    /\ c.sourceIn < out /\ out < c.sourceOut
    /\ clips' = {IF d = c THEN [c EXCEPT !.sourceOut = out]
                 ELSE IF Pulled(c, d) THEN [d EXCEPT !.at = d.at - (c.sourceOut - out)]
                 ELSE d : d \in clips}
    /\ UNCHANGED clipIds

-----------------------------------------------------------------------------
(* The editing surface                                                     *)

\* addMaterial: onto the selected clip's track, else onto the first.
AddMaterial ==
    /\ Cardinality(clips) < MaxClips
    /\ \E track \in {FirstTrack} \cup {c.track : c \in clips}, s \in Sources : Add(track, s)

\* The key "s": one frame after the start of the selected clip.
SplitKey == /\ Cardinality(clips) < MaxClips
            /\ \E c \in clips : Split(c, c.at + 1)

MoveLeftKey == \E c \in clips : c.at > 0 /\ MoveTo(c, c.track, c.at - 1)

MoveRightKey == \E c \in clips : c.at < MaxFrame /\ MoveTo(c, c.track, c.at + 1)

\* The key "t": one frame shorter, down to a single frame.
TrimKey == \E c \in clips : RippleTrim(c, c.sourceOut - 1)

TimelineNext == AddMaterial \/ SplitKey \/ MoveLeftKey \/ MoveRightKey \/ TrimKey

TimelineSpec == TimelineInit /\ [][TimelineNext]_timelineVars

-----------------------------------------------------------------------------
(* Properties                                                              *)

\* What a viewer sees: at which frame of which track, which frame of a source.
Programme ==
    UNION {{<<c.track, c.at + k, c.source, c.sourceIn + k>> : k \in 0..(Length(c) - 1)} : c \in clips}

\* Every clip shows a non-empty part of its source and starts on the timeline,
\* so the check that runQc makes of each clip before it asks the server can
\* fail for an empty timeline only, whatever was split, moved and trimmed.
ClipsAreValid ==
    /\ clips \subseteq Clips /\ clipIds \in Nat
    /\ \A c \in clips : c.id <= clipIds /\ c.sourceIn < c.sourceOut /\ c.sourceOut <= Duration[c.source]
    /\ \A c, d \in clips : c.id = d.id => c = d

\* A split changes what can be edited and nothing of what is seen.
SplitKeepsProgramme == [][SplitKey => Programme' = Programme]_timelineVars

\* An added clip covers nothing: whatever was moved and trimmed before, the
\* frames it takes on its track are free.
AddCoversNothing ==
    [][AddMaterial =>
         \A new \in clips' \ clips, c \in clips : new.track = c.track => End(c) <= new.at]_timelineVars

=============================================================================
