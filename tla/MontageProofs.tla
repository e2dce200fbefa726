--------------------------- MODULE MontageProofs ----------------------------
(***************************************************************************)
(* Proofs about the montage editor.  Of the timeline, for any tracks,      *)
(* sources and durations: editing keeps every clip valid, a split keeps    *)
(* what is seen, and an added clip covers nothing.  Of the session, for    *)
(* any number of editors, any history limit and any number of edits,       *)
(* revisions and openings: types, revisions that keep the work, and undo   *)
(* along one line.                                                         *)
(***************************************************************************)
EXTENDS MontageTimeline, MontageSession, Integers, SequenceTheorems, TLAPS

-----------------------------------------------------------------------------
(* MontageTimeline: clips.                                                 *)

\* Among any of the clips one ends last: the maximum that "add" looks for.
HasLast(S) == \A T \in SUBSET S : T /= {} => \E c \in T : \A d \in T : End(d) <= End(c)

\* The inductive invariant.
TimelineInv == ClipsAreValid /\ HasLast(clips)

-----------------------------------------------------------------------------
(* Clips and their ends.                                                   *)

\* A clip ends at a whole frame.
LEMMA EndIsInt ==
    ASSUME NEW c \in Clips
    PROVE  Length(c) \in Int /\ End(c) \in Int
  BY DEF Clips, Length, End

\* A part of a timeline has a last clip when the timeline has.
LEMMA LastOfPart ==
    ASSUME NEW S, NEW T \in SUBSET S, HasLast(S)
    PROVE  HasLast(T)
  BY DEF HasLast

\* Two parts together have a last clip when each of them has.
LEMMA LastOfUnion ==
    ASSUME NEW S \in SUBSET Clips, NEW T \in SUBSET Clips, HasLast(S), HasLast(T)
    PROVE  HasLast(S \cup T)
<1> SUFFICES ASSUME NEW U \in SUBSET (S \cup T), U /= {}
             PROVE  \E c \in U : \A d \in U : End(d) <= End(c)
  BY DEF HasLast
<1>1. \A c \in U : End(c) \in Int
  BY EndIsInt
<1>2. CASE U \cap S = {} \/ U \cap T = {}
  <2>1. U \in SUBSET S \/ U \in SUBSET T
    BY <1>2
  <2> QED
    BY <2>1 DEF HasLast
<1>3. CASE U \cap S /= {} /\ U \cap T /= {}
  <2>1. PICK c \in U \cap S : \A d \in U \cap S : End(d) <= End(c)
    BY <1>3 DEF HasLast
  <2>2. PICK e \in U \cap T : \A d \in U \cap T : End(d) <= End(e)
    BY <1>3 DEF HasLast
  <2>3. CASE End(c) <= End(e)
    <3>1. \A d \in U : End(d) <= End(e)
      BY <1>1, <2>1, <2>2, <2>3
    <3> QED
      BY <3>1
  <2>4. CASE End(e) <= End(c)
    <3>1. \A d \in U : End(d) <= End(c)
      BY <1>1, <2>1, <2>2, <2>4
    <3> QED
      BY <3>1
  <2> QED
    BY <1>1, <2>3, <2>4
<1> QED
  BY <1>2, <1>3

\* A single clip is its own last.
LEMMA LastOfOne ==
    ASSUME NEW c \in Clips
    PROVE  HasLast({c})
<1>1. End(c) \in Int
  BY EndIsInt
<1> QED
  BY <1>1 DEF HasLast

\* Clips whose ends are those of others, moved together, keep their order.
LEMMA LastOfShift ==
    ASSUME NEW S \in SUBSET Clips, NEW T \in SUBSET Clips, NEW n \in Int, HasLast(S),
           \A t \in T : \E s \in S : End(t) = End(s) - n
    PROVE  HasLast(T)
<1> SUFFICES ASSUME NEW U \in SUBSET T, U /= {}
             PROVE  \E c \in U : \A d \in U : End(d) <= End(c)
  BY DEF HasLast
<1> DEFINE V == {s \in S : \E u \in U : End(u) = End(s) - n}
<1>1. V /= {} /\ V \in SUBSET S
  OBVIOUS
<1>2. PICK s \in V : \A r \in V : End(r) <= End(s)
  BY <1>1 DEF HasLast
<1>3. PICK u \in U : End(u) = End(s) - n
  BY <1>2
<1>4. ASSUME NEW d \in U
      PROVE  End(d) <= End(u)
  <2>1. PICK r \in S : End(d) = End(r) - n
    OBVIOUS
  <2>2. End(r) <= End(s)
    BY <1>2, <2>1
  <2>3. End(r) \in Int /\ End(s) \in Int
    BY EndIsInt
  <2> QED
    BY <1>3, <2>1, <2>2, <2>3
<1> QED
  BY <1>3, <1>4

\* "add" starts where the last clip of the track ends, or at 0.
LEMMA TrackEndIsLast ==
    ASSUME TimelineInv, NEW track \in Tracks
    PROVE  /\ TrackEnd(track) \in Nat
           /\ \A c \in clips : c.track = track => End(c) <= TrackEnd(track)
<1> DEFINE on == {c \in clips : c.track = track}
           ends == {0} \cup {End(c) : c \in on}
<1>1. \A c \in on : End(c) \in Nat
  BY DEF TimelineInv, ClipsAreValid, Clips, End, Length
<1>2. \E e \in ends : \A f \in ends : f <= e
  <2>1. CASE on = {}
    BY <2>1
  <2>2. CASE on /= {}
    <3>1. PICK c \in on : \A d \in on : End(d) <= End(c)
      BY <2>2 DEF TimelineInv, HasLast
    <3>2. \A f \in ends : f <= End(c)
      BY <1>1, <3>1
    <3> QED
      BY <3>2
  <2> QED
    BY <2>1, <2>2
<1>3. TrackEnd(track) = CHOOSE e \in ends : \A f \in ends : f <= e
  BY DEF TrackEnd
<1>4. TrackEnd(track) \in ends /\ \A f \in ends : f <= TrackEnd(track)
  BY <1>2, <1>3
<1> QED
  BY <1>1, <1>4

-----------------------------------------------------------------------------
(* The steps of the reducer keep the invariant.                            *)

\* The timeline a page opens on is valid.
LEMMA InitIsValid == TimelineInit => TimelineInv
<1> SUFFICES ASSUME TimelineInit PROVE TimelineInv
  OBVIOUS
<1>1. CASE clips = {} /\ clipIds = 0
  BY <1>1 DEF TimelineInv, ClipsAreValid, HasLast
<1>2. CASE \E track \in Tracks, s \in Sources :
              /\ clips = {[id |-> 1, track |-> track, source |-> s, at |-> 0,
                           sourceIn |-> 0, sourceOut |-> Duration[s]]}
              /\ clipIds = 1
  <2>1. PICK track \in Tracks, s \in Sources :
              /\ clips = {[id |-> 1, track |-> track, source |-> s, at |-> 0,
                           sourceIn |-> 0, sourceOut |-> Duration[s]]}
              /\ clipIds = 1
    BY <1>2
  <2> DEFINE c == [id |-> 1, track |-> track, source |-> s, at |-> 0,
                   sourceIn |-> 0, sourceOut |-> Duration[s]]
  <2>2. Duration[s] \in Nat \ {0}
    BY TimelineAssumption
  <2>3. c \in Clips
    BY <2>2 DEF Clips
  <2>4. HasLast(clips)
    BY <2>1, <2>3, LastOfOne
  <2>5. ClipsAreValid
    BY <2>1, <2>2, <2>3 DEF ClipsAreValid
  <2> QED
    BY <2>4, <2>5 DEF TimelineInv
<1> QED
  BY <1>1, <1>2 DEF TimelineInit

\* "add" appends a whole source to a track.
LEMMA AddKeepsValid ==
    ASSUME TimelineInv, NEW track \in Tracks, NEW s \in Sources, Add(track, s)
    PROVE  TimelineInv'
<1> DEFINE c == [id |-> clipIds + 1, track |-> track, source |-> s,
                 at |-> TrackEnd(track), sourceIn |-> 0, sourceOut |-> Duration[s]]
<1>1. clips' = clips \cup {c} /\ clipIds' = clipIds + 1
  BY DEF Add
<1>2. Duration[s] \in Nat \ {0}
  BY TimelineAssumption
<1>3. TrackEnd(track) \in Nat
  BY TrackEndIsLast
<1>4. clips \subseteq Clips /\ clipIds \in Nat
  BY DEF TimelineInv, ClipsAreValid
<1>5. c \in Clips
  BY <1>2, <1>3, <1>4 DEF Clips
<1>6. HasLast(clips')
  BY <1>1, <1>4, <1>5, LastOfOne, LastOfUnion DEF TimelineInv
<1>7. ClipsAreValid'
  <2>1. \A d \in clips : d.id \in Nat /\ d.id <= clipIds
    BY <1>4 DEF TimelineInv, ClipsAreValid, Clips
  <2>2. \A d \in clips' : /\ d.id <= clipIds' /\ d.sourceIn < d.sourceOut
                          /\ d.sourceOut <= Duration[d.source]
    BY <1>1, <1>2, <1>4, <2>1 DEF TimelineInv, ClipsAreValid
  <2>3. \A d, e \in clips' : d.id = e.id => d = e
    BY <1>1, <1>4, <2>1 DEF TimelineInv, ClipsAreValid
  <2> QED
    BY <1>1, <1>4, <1>5, <2>2, <2>3 DEF ClipsAreValid
<1> QED
  BY <1>6, <1>7 DEF TimelineInv

\* The parts of a split: each a clip of its own, ending where the whole did or
\* where it was split.
LEMMA PartsAreValid ==
    ASSUME TimelineInv, NEW c \in clips, NEW at \in Nat, c.at < at, at < End(c)
    PROVE  \E l, r \in Clips :
              /\ Parts(c, at) = {l, r}
              /\ l.id = c.id /\ r.id = clipIds + 1
              /\ l.source = c.source /\ r.source = c.source
              /\ l.track = c.track /\ r.track = c.track
              /\ l.at = c.at /\ r.at = at
              /\ l.sourceIn = c.sourceIn /\ l.sourceOut = c.sourceIn + (at - c.at)
              /\ r.sourceIn = c.sourceIn + (at - c.at) /\ r.sourceOut = c.sourceOut
              /\ l.sourceIn < l.sourceOut /\ r.sourceIn < r.sourceOut
              /\ l.sourceOut < r.sourceOut
<1> DEFINE offset == at - c.at
           l == [c EXCEPT !.sourceOut = c.sourceIn + offset]
           r == [c EXCEPT !.id = clipIds + 1, !.at = at, !.sourceIn = c.sourceIn + offset]
<1>1. c \in Clips /\ clipIds \in Nat
  BY DEF TimelineInv, ClipsAreValid
<1>2. /\ c.id \in Nat \ {0} /\ c.track \in Tracks /\ c.source \in Sources
      /\ c.at \in Nat /\ c.sourceIn \in Nat /\ c.sourceOut \in Nat
  BY <1>1 DEF Clips
<1>3. offset \in Nat /\ 0 < offset /\ offset < c.sourceOut - c.sourceIn
  BY <1>2 DEF End, Length
<1>4. c.sourceIn + offset \in Nat /\ clipIds + 1 \in Nat \ {0}
  BY <1>1, <1>2, <1>3
<1>5. l \in Clips /\ r \in Clips
  BY <1>1, <1>4 DEF Clips
<1>6. /\ l.id = c.id /\ l.source = c.source /\ l.track = c.track /\ l.at = c.at
      /\ l.sourceIn = c.sourceIn /\ l.sourceOut = c.sourceIn + offset
  BY <1>1 DEF Clips
<1>7. /\ r.id = clipIds + 1 /\ r.source = c.source /\ r.track = c.track /\ r.at = at
      /\ r.sourceIn = c.sourceIn + offset /\ r.sourceOut = c.sourceOut
  BY <1>1 DEF Clips
<1>8. l.sourceIn < l.sourceOut /\ r.sourceIn < r.sourceOut /\ l.sourceOut < r.sourceOut
  BY <1>2, <1>3, <1>6, <1>7
<1>9. Parts(c, at) = {l, r}
  BY DEF Parts
<1> QED
  BY <1>5, <1>6, <1>7, <1>8, <1>9

\* "split" leaves two valid clips where there was one.
LEMMA SplitKeepsValid ==
    ASSUME TimelineInv, NEW c \in clips, NEW at \in Nat, Split(c, at)
    PROVE  TimelineInv'
<1>1. /\ c.at < at /\ at < End(c)
      /\ clips' = (clips \ {c}) \cup Parts(c, at)
      /\ clipIds' = clipIds + 1
  BY DEF Split
<1>2. PICK l, r \in Clips :
              /\ Parts(c, at) = {l, r}
              /\ l.id = c.id /\ r.id = clipIds + 1
              /\ l.source = c.source /\ r.source = c.source
              /\ l.track = c.track /\ r.track = c.track
              /\ l.at = c.at /\ r.at = at
              /\ l.sourceIn = c.sourceIn /\ l.sourceOut = c.sourceIn + (at - c.at)
              /\ r.sourceIn = c.sourceIn + (at - c.at) /\ r.sourceOut = c.sourceOut
              /\ l.sourceIn < l.sourceOut /\ r.sourceIn < r.sourceOut
              /\ l.sourceOut < r.sourceOut
  BY <1>1, PartsAreValid
<1>3. clips \subseteq Clips /\ clipIds \in Nat
  BY DEF TimelineInv, ClipsAreValid
<1>4. HasLast(clips')
  <2>1. HasLast(clips \ {c}) /\ (clips \ {c}) \subseteq Clips
    BY <1>3, LastOfPart DEF TimelineInv
  <2>2. HasLast({l}) /\ HasLast({r})
    BY LastOfOne
  <2>3. HasLast({l} \cup {r}) /\ ({l} \cup {r}) \subseteq Clips
    BY <2>2, LastOfUnion
  <2>4. HasLast((clips \ {c}) \cup ({l} \cup {r}))
    BY <2>1, <2>3, LastOfUnion
  <2>5. {l, r} = {l} \cup {r}
    OBVIOUS
  <2> QED
    BY <1>1, <1>2, <2>4, <2>5
<1>5. ClipsAreValid'
  <2>1. \A d \in clips : /\ d.id \in Nat /\ d.id <= clipIds
                         /\ d.sourceOut \in Nat /\ d.sourceIn \in Nat /\ d.source \in Sources
    BY <1>3 DEF TimelineInv, ClipsAreValid, Clips
  <2>2. \A s \in Sources : Duration[s] \in Nat
    BY TimelineAssumption
  <2>3. l.sourceOut \in Nat /\ r.sourceOut \in Nat
    BY DEF Clips
  <2>4. /\ c.sourceOut <= Duration[c.source]
        /\ \A d \in clips : d.sourceIn < d.sourceOut /\ d.sourceOut <= Duration[d.source]
        /\ \A d, e \in clips : d.id = e.id => d = e
    BY DEF TimelineInv, ClipsAreValid
  <2>5. l.sourceOut <= Duration[l.source] /\ r.sourceOut <= Duration[r.source]
    BY <1>2, <2>1, <2>2, <2>3, <2>4
  <2>6. \A d \in clips' : /\ d.id <= clipIds' /\ d.sourceIn < d.sourceOut
                          /\ d.sourceOut <= Duration[d.source]
    BY <1>1, <1>2, <1>3, <2>1, <2>4, <2>5
  <2>7. \A d, e \in clips' : d.id = e.id => d = e
    BY <1>1, <1>2, <1>3, <2>1, <2>4
  <2> QED
    BY <1>1, <1>2, <1>3, <2>6, <2>7 DEF ClipsAreValid
<1> QED
  BY <1>4, <1>5 DEF TimelineInv

\* "move" takes a clip elsewhere, its part of the source with it.
LEMMA MoveKeepsValid ==
    ASSUME TimelineInv, NEW c \in clips, NEW track \in Tracks, NEW start \in Nat,
           MoveTo(c, track, start)
    PROVE  TimelineInv'
<1> DEFINE m == [c EXCEPT !.track = track, !.at = start]
<1>1. clips' = (clips \ {c}) \cup {m} /\ clipIds' = clipIds
  BY DEF MoveTo
<1>2. clips \subseteq Clips /\ c \in Clips
  BY DEF TimelineInv, ClipsAreValid
<1>3. m \in Clips /\ m.id = c.id /\ m.source = c.source
      /\ m.sourceIn = c.sourceIn /\ m.sourceOut = c.sourceOut
  BY <1>2 DEF Clips
<1>4. HasLast(clips')
  <2>1. HasLast(clips \ {c}) /\ (clips \ {c}) \subseteq Clips
    BY <1>2, LastOfPart DEF TimelineInv
  <2> QED
    BY <1>1, <1>3, <2>1, LastOfOne, LastOfUnion
<1>5. ClipsAreValid'
  <2>1. clips' \subseteq Clips /\ clipIds' \in Nat
    BY <1>1, <1>2, <1>3 DEF TimelineInv, ClipsAreValid
  <2>2. \A d \in clips' : d.id <= clipIds' /\ d.sourceIn < d.sourceOut /\ d.sourceOut <= Duration[d.source]
    BY <1>1, <1>3 DEF TimelineInv, ClipsAreValid
  <2>3. ASSUME NEW d \in clips', NEW e \in clips', d.id = e.id
        PROVE  d = e
    <3>1. \A x, y \in clips : x.id = y.id => x = y
      BY DEF TimelineInv, ClipsAreValid
    <3>2. \A x \in clips \ {c} : x.id /= m.id
      BY <1>3, <3>1
    <3> QED
      BY <1>1, <2>3, <3>1, <3>2
  <2> QED
    BY <2>1, <2>2, <2>3 DEF ClipsAreValid
<1> QED
  BY <1>4, <1>5 DEF TimelineInv

\* "rippleTrim" shortens a clip and pulls others by the frames it loses: none
\* of them before the start of the timeline, since what is pulled starts at or
\* after the end of the part that is kept.
LEMMA RippleTrimKeepsValid ==
    ASSUME TimelineInv, NEW c \in clips, NEW out \in Nat, RippleTrim(c, out)
    PROVE  TimelineInv'
<1> DEFINE n == c.sourceOut - out
           trimmed == [c EXCEPT !.sourceOut = out]
           pulled(d) == [d EXCEPT !.at = d.at - n]
           A == {d \in clips \ {c} : Pulled(c, d)}
           B == {d \in clips \ {c} : ~Pulled(c, d)}
           PA == {pulled(d) : d \in A}
<1>1. clips \subseteq Clips /\ clipIds \in Nat
  BY DEF TimelineInv, ClipsAreValid
<1>2. /\ c.sourceIn \in Nat /\ c.sourceOut \in Nat
      /\ c.sourceIn < out /\ out < c.sourceOut /\ n \in Nat
  BY <1>1 DEF RippleTrim, Clips
<1>3. /\ trimmed \in Clips /\ trimmed.id = c.id /\ trimmed.source = c.source
      /\ trimmed.sourceIn = c.sourceIn /\ trimmed.sourceOut = out
  BY <1>1, <1>2 DEF Clips
<1>4. ASSUME NEW d \in A
      PROVE  /\ pulled(d) \in Clips /\ pulled(d).id = d.id /\ pulled(d).source = d.source
             /\ pulled(d).sourceIn = d.sourceIn /\ pulled(d).sourceOut = d.sourceOut
             /\ pulled(d).at = d.at - n
  <2>1. d.at \in Nat /\ d.at >= c.sourceOut
    BY <1>1 DEF Pulled, Clips
  <2>2. d.at - n \in Nat
    BY <1>2, <2>1
  <2> QED
    BY <1>1, <2>2 DEF Clips
<1>5. clips' = B \cup PA \cup {trimmed} /\ clipIds' = clipIds
  BY DEF RippleTrim
<1>6. HasLast(clips')
  <2>1. HasLast(B) /\ B \subseteq Clips
    BY <1>1, LastOfPart DEF TimelineInv
  <2>2. \A t \in PA : \E s \in clips : End(t) = End(s) - n
    <3>1. SUFFICES ASSUME NEW d \in A
                   PROVE  End(pulled(d)) = End(d) - n
      OBVIOUS
    <3>2. d.at \in Nat /\ d.sourceIn \in Nat /\ d.sourceOut \in Nat
      BY <1>1 DEF Clips
    <3> QED
      BY <1>2, <1>4, <3>2 DEF End, Length
  <2>3. PA \subseteq Clips
    BY <1>4
  <2>4. HasLast(PA)
    BY <1>1, <1>2, <2>2, <2>3, LastOfShift DEF TimelineInv
  <2>5. HasLast(B \cup PA) /\ B \cup PA \subseteq Clips
    BY <2>1, <2>3, <2>4, LastOfUnion
  <2> QED
    BY <1>3, <1>5, <2>5, LastOfOne, LastOfUnion
<1>7. ClipsAreValid'
  <2>1. \A d \in clips : /\ d.id <= clipIds /\ d.sourceIn < d.sourceOut
                         /\ d.sourceOut <= Duration[d.source]
    BY DEF TimelineInv, ClipsAreValid
  <2>2. clips' \subseteq Clips
    BY <1>1, <1>3, <1>4, <1>5
  <2>3. trimmed.sourceOut <= Duration[trimmed.source]
    <3>1. Duration[c.source] \in Nat
      BY <1>1, TimelineAssumption DEF Clips
    <3> QED
      BY <1>2, <1>3, <2>1, <3>1
  <2>4. \A d \in clips' : d.id <= clipIds' /\ d.sourceIn < d.sourceOut /\ d.sourceOut <= Duration[d.source]
    <3>1. ASSUME NEW x \in A
          PROVE  /\ pulled(x).id <= clipIds /\ pulled(x).sourceIn < pulled(x).sourceOut
                 /\ pulled(x).sourceOut <= Duration[pulled(x).source]
      BY <1>4, <2>1
    <3>2. /\ trimmed.id <= clipIds /\ trimmed.sourceIn < trimmed.sourceOut
          /\ trimmed.sourceOut <= Duration[trimmed.source]
      BY <1>2, <1>3, <2>1, <2>3
    <3> HIDE DEF pulled, trimmed
    <3> QED
      BY <1>5, <2>1, <3>1, <3>2
  <2> DEFINE moved(x) == IF x = c THEN trimmed ELSE IF Pulled(c, x) THEN pulled(x) ELSE x
  <2>5. \A d \in clips' : \E x \in clips : d = moved(x)
    BY <1>5
  <2>6. \A x \in clips : moved(x).id = x.id
    BY <1>3, <1>4
  <2>7. ASSUME NEW d \in clips', NEW e \in clips', d.id = e.id
        PROVE  d = e
    <3>1. \A x, y \in clips : x.id = y.id => x = y
      BY DEF TimelineInv, ClipsAreValid
    <3>2. PICK x \in clips, y \in clips : d = moved(x) /\ e = moved(y)
      BY <2>5
    <3> HIDE DEF moved
    <3>3. x.id = y.id
      BY <2>6, <2>7, <3>2
    <3> QED
      BY <3>1, <3>2, <3>3
  <2> QED
    BY <1>1, <1>5, <2>2, <2>4, <2>7 DEF ClipsAreValid
<1> QED
  BY <1>6, <1>7 DEF TimelineInv

-----------------------------------------------------------------------------
(* The theorems.                                                           *)

\* Every key and the media bin keep the invariant.
LEMMA InvIsInductive == TimelineInv /\ [TimelineNext]_timelineVars => TimelineInv'
<1> SUFFICES ASSUME TimelineInv, [TimelineNext]_timelineVars
             PROVE  TimelineInv'
  OBVIOUS
<1>0. \A c \in clips : /\ c.track \in Tracks /\ c.at \in Nat
                       /\ c.sourceOut \in Nat /\ c.sourceIn \in Nat /\ c.sourceIn < c.sourceOut
  BY DEF TimelineInv, ClipsAreValid, Clips
<1>1. CASE AddMaterial
  BY <1>0, <1>1, AddKeepsValid, TimelineAssumption DEF AddMaterial
<1>2. CASE SplitKey
  <2>1. PICK c \in clips : Split(c, c.at + 1)
    BY <1>2 DEF SplitKey
  <2>2. c.at + 1 \in Nat
    BY <1>0
  <2> QED
    BY <2>1, <2>2, SplitKeepsValid
<1>3. CASE MoveLeftKey
  <2>1. PICK c \in clips : c.at > 0 /\ MoveTo(c, c.track, c.at - 1)
    BY <1>3 DEF MoveLeftKey
  <2>2. c.track \in Tracks /\ c.at - 1 \in Nat
    BY <1>0, <2>1
  <2> QED
    BY <2>1, <2>2, MoveKeepsValid
<1>4. CASE MoveRightKey
  <2>1. PICK c \in clips : MoveTo(c, c.track, c.at + 1)
    BY <1>4 DEF MoveRightKey
  <2>2. c.track \in Tracks /\ c.at + 1 \in Nat
    BY <1>0
  <2> QED
    BY <2>1, <2>2, MoveKeepsValid
<1>5. CASE TrimKey
  <2>1. PICK c \in clips : RippleTrim(c, c.sourceOut - 1)
    BY <1>5 DEF TrimKey
  <2>2. c.sourceOut - 1 \in Nat
    BY <1>0
  <2> QED
    BY <2>1, <2>2, RippleTrimKeepsValid
<1>6. CASE UNCHANGED timelineVars
  BY <1>6 DEF timelineVars, TimelineInv, ClipsAreValid, HasLast
<1> QED
  BY <1>1, <1>2, <1>3, <1>4, <1>5, <1>6 DEF TimelineNext

\* The invariant holds of every editing session.
THEOREM TimelineInvariant == TimelineSpec => []TimelineInv
  BY InitIsValid, InvIsInductive, PTL DEF TimelineSpec

\* Every clip shows a non-empty part of its source, from the start of the
\* timeline on, and has an id of its own, whatever was split, moved, trimmed
\* and added before: runQc refuses nothing but an empty timeline.
THEOREM ClipsStayValid == TimelineSpec => []ClipsAreValid
  BY TimelineInvariant, PTL DEF TimelineInv

\* A split changes nothing of what is seen: the two parts show the frames of
\* the whole, each at its place.
THEOREM SplitIsUnseen == TimelineSpec => SplitKeepsProgramme
<1>1. TimelineInv /\ [TimelineNext]_timelineVars => [SplitKey => Programme' = Programme]_timelineVars
  <2> SUFFICES ASSUME TimelineInv, SplitKey
               PROVE  Programme' = Programme
    OBVIOUS
  <2> DEFINE frames(d) == {<<d.track, d.at + k, d.source, d.sourceIn + k>> : k \in 0..(Length(d) - 1)}
  <2>1. PICK c \in clips : Split(c, c.at + 1)
    BY DEF SplitKey
  <2>2. c \in Clips
    BY DEF TimelineInv, ClipsAreValid
  <2>3. c.at \in Nat /\ c.sourceIn \in Nat /\ c.sourceOut \in Nat
    BY <2>2 DEF Clips
  <2>4. clips' = (clips \ {c}) \cup Parts(c, c.at + 1) /\ c.at + 1 < End(c)
    BY <2>1 DEF Split
  <2>5. PICK l, r \in Clips :
              /\ Parts(c, c.at + 1) = {l, r}
              /\ l.id = c.id /\ r.id = clipIds + 1
              /\ l.source = c.source /\ r.source = c.source
              /\ l.track = c.track /\ r.track = c.track
              /\ l.at = c.at /\ r.at = c.at + 1
              /\ l.sourceIn = c.sourceIn /\ l.sourceOut = c.sourceIn + (c.at + 1 - c.at)
              /\ r.sourceIn = c.sourceIn + (c.at + 1 - c.at) /\ r.sourceOut = c.sourceOut
              /\ l.sourceIn < l.sourceOut /\ r.sourceIn < r.sourceOut
              /\ l.sourceOut < r.sourceOut
    BY <2>1, <2>3, PartsAreValid DEF Split
  <2> DEFINE m == Length(c)
  <2>6. /\ l.sourceIn = c.sourceIn /\ l.sourceOut = c.sourceIn + 1 /\ l.at = c.at
        /\ r.sourceIn = c.sourceIn + 1 /\ r.sourceOut = c.sourceOut /\ r.at = c.at + 1
        /\ m \in Nat /\ Length(l) = 1 /\ Length(r) = m - 1 /\ m > 1
    BY <2>3, <2>4, <2>5 DEF Length, End
  <2>7. frames(c) = frames(l) \cup frames(r)
    <3> DEFINE frame(k) == <<c.track, c.at + k, c.source, c.sourceIn + k>>
    <3>1. frames(c) = {frame(k) : k \in 0..(m - 1)}
      OBVIOUS
    <3>2. frames(l) = {frame(k) : k \in {0}}
      <4>1. 0..(Length(l) - 1) = {0}
        BY <2>6
      <4> QED
        BY <2>5, <2>6, <4>1
    <3>3. frames(r) = {frame(k) : k \in 1..(m - 1)}
      <4>1. ASSUME NEW k \in 0..(Length(r) - 1)
            PROVE  /\ k + 1 \in 1..(m - 1)
                   /\ <<r.track, r.at + k, r.source, r.sourceIn + k>> = frame(k + 1)
        BY <2>3, <2>5, <2>6
      <4>2. ASSUME NEW k \in 1..(m - 1)
            PROVE  /\ k - 1 \in 0..(Length(r) - 1)
                   /\ <<r.track, r.at + (k - 1), r.source, r.sourceIn + (k - 1)>> = frame(k)
        BY <2>3, <2>5, <2>6
      <4> QED
        BY <4>1, <4>2
    <3>4. 0..(m - 1) = {0} \cup 1..(m - 1)
      BY <2>6
    <3> QED
      BY <3>1, <3>2, <3>3, <3>4
  <2>8. Programme = UNION {frames(d) : d \in clips}
    BY DEF Programme
  <2>9. Programme' = UNION {frames(d) : d \in clips'}
    BY DEF Programme, Length
  <2>10. clips' = (clips \ {c}) \cup {l, r}
    BY <2>4, <2>5
  <2> HIDE DEF frames
  <2> QED
    BY <2>7, <2>8, <2>9, <2>10
<1> QED
  BY <1>1, TimelineInvariant, PTL DEF TimelineSpec, SplitKeepsProgramme

\* An added clip covers nothing, although moved and trimmed clips may lie
\* anywhere on its track.
THEOREM AddsCoverNothing == TimelineSpec => AddCoversNothing
<1> DEFINE free == \A new \in clips' \ clips, c \in clips : new.track = c.track => End(c) <= new.at
<1>1. TimelineInv /\ [TimelineNext]_timelineVars => [AddMaterial => free]_timelineVars
  <2> SUFFICES ASSUME TimelineInv, AddMaterial
               PROVE  free
    OBVIOUS
  <2>1. \A c \in clips : c.track \in Tracks
    BY DEF TimelineInv, ClipsAreValid, Clips
  <2>2. PICK track \in Tracks, s \in Sources : Add(track, s)
    BY <2>1, TimelineAssumption DEF AddMaterial
  <2>3. \A new \in clips' \ clips : new.track = track /\ new.at = TrackEnd(track)
    BY <2>2 DEF Add
  <2>4. \A c \in clips : c.track = track => End(c) <= TrackEnd(track)
    BY TrackEndIsLast
  <2> QED
    BY <2>3, <2>4
<1> QED
  BY <1>1, TimelineInvariant, PTL DEF TimelineSpec, AddCoversNothing

-----------------------------------------------------------------------------
(* MontageSession: types and revisions.                                    *)

-----------------------------------------------------------------------------
(* Undo histories.                                                         *)

PanelOK(p) == p \in Panels /\ Len(p.past) + Len(p.future) <= HistoryLimit

\* A history that has grown by one is cut to what withHistory keeps.
LEMMA NewestIsShort ==
    ASSUME NEW past \in Seq(Timelines), Len(past) <= HistoryLimit, NEW t \in Timelines
    PROVE  /\ Newest(Append(past, t)) \in Seq(Timelines)
           /\ Len(Newest(Append(past, t))) <= HistoryLimit
<1> DEFINE longer == Append(past, t)
<1>1. longer \in Seq(Timelines) /\ Len(longer) = Len(past) + 1 /\ longer /= <<>>
  OBVIOUS
<1>2. HistoryLimit \in Nat \ {0}
  BY SessionAssumption
<1>3. CASE Len(longer) > HistoryLimit
  <2>1. Tail(longer) \in Seq(Timelines) /\ Len(Tail(longer)) = Len(longer) - 1
    BY <1>1
  <2> QED
    BY <1>1, <1>2, <1>3, <2>1 DEF Newest
<1>4. CASE ~(Len(longer) > HistoryLimit)
  BY <1>1, <1>2, <1>4 DEF Newest
<1> QED
  BY <1>3, <1>4

\* The last of a history, and what is left without it.
LEMMA LastAndFront ==
    ASSUME NEW past \in Seq(Timelines), past /= <<>>
    PROVE  /\ Last(past) \in Timelines
           /\ Front(past) \in Seq(Timelines) /\ Len(Front(past)) = Len(past) - 1
           /\ \A i \in 1..(Len(past) - 1) : Front(past)[i] = past[i]
           /\ Last(past) = past[Len(past)]
<1>1. Len(past) \in Nat /\ Len(past) /= 0 /\ \A i \in 1..Len(past) : past[i] \in Timelines
  OBVIOUS
<1>2. /\ Front(past) \in Seq(Timelines) /\ Len(Front(past)) = Len(past) - 1
      /\ \A i \in 1..(Len(past) - 1) : Front(past)[i] = past[i]
  <2> DEFINE n == Len(past) - 1
  <2>1. n \in Nat /\ \A i \in 1..n : past[i] \in Timelines
    BY <1>1
  <2>2. /\ SubSeq(past, 1, n) \in Seq(Timelines)
        /\ Len(SubSeq(past, 1, n)) = IF 1 <= n THEN n - 1 + 1 ELSE 0
        /\ \A i \in 1..(n - 1 + 1) : SubSeq(past, 1, n)[i] = past[1 + i - 1]
    BY <2>1, SubSeqProperties
  <2>3. Front(past) = SubSeq(past, 1, n)
    BY DEF Front
  <2>4. \A i \in 1..n : i \in 1..(n - 1 + 1) /\ 1 + i - 1 = i
    BY <2>1
  <2> HIDE DEF n
  <2>5. Len(Front(past)) = n /\ \A i \in 1..n : Front(past)[i] = past[i]
    BY <2>1, <2>2, <2>3, <2>4
  <2> QED
    BY <2>2, <2>3, <2>5 DEF n
<1> QED
  BY <1>1, <1>2 DEF Last

\* An edit keeps a panel's types and its history within the limit.
LEMMA WithHistoryOK ==
    ASSUME NEW p, PanelOK(p), NEW next \in Timelines
    PROVE  PanelOK(WithHistory(p, next))
<1>1. p.past \in Seq(Timelines) /\ p.future \in Seq(Timelines) /\ p.timeline \in Timelines
  BY DEF PanelOK, Panels
<1>2. Len(p.past) <= HistoryLimit
  <2>1. Len(p.past) \in Nat /\ Len(p.future) \in Nat /\ HistoryLimit \in Nat
    BY <1>1, SessionAssumption
  <2>2. Len(p.past) + Len(p.future) <= HistoryLimit
    BY DEF PanelOK
  <2> QED
    BY <2>1, <2>2 DEF PanelOK, Panels
<1>3. /\ Newest(Append(p.past, p.timeline)) \in Seq(Timelines)
      /\ Len(Newest(Append(p.past, p.timeline))) <= HistoryLimit
  BY <1>1, <1>2, NewestIsShort
<1>4. <<>> \in Seq(Timelines) /\ Len(<<>>) = 0
  OBVIOUS
<1>5. WithHistory(p, next) \in Panels
  BY <1>3, <1>4 DEF WithHistory, PanelOK, Panels
<1>6. /\ WithHistory(p, next).past = Newest(Append(p.past, p.timeline))
      /\ WithHistory(p, next).future = <<>>
  BY DEF WithHistory, PanelOK, Panels
<1> QED
  BY <1>3, <1>4, <1>5, <1>6 DEF PanelOK

\* undoEditor moves a timeline from the past to the future.
LEMMA UndoneOK ==
    ASSUME NEW p, PanelOK(p), p.past /= <<>>
    PROVE  PanelOK(Undone(p))
<1>1. p.past \in Seq(Timelines) /\ p.future \in Seq(Timelines) /\ p.timeline \in Timelines
  BY DEF PanelOK, Panels
<1>2. /\ Last(p.past) \in Timelines
      /\ Front(p.past) \in Seq(Timelines) /\ Len(Front(p.past)) = Len(p.past) - 1
  BY <1>1, LastAndFront
<1>3. <<p.timeline>> \o p.future \in Seq(Timelines)
      /\ Len(<<p.timeline>> \o p.future) = 1 + Len(p.future)
  BY <1>1
<1>4. Undone(p) \in Panels
  BY <1>2, <1>3 DEF Undone, PanelOK, Panels
<1>5. Undone(p).past = Front(p.past) /\ Undone(p).future = <<p.timeline>> \o p.future
  BY DEF Undone, PanelOK, Panels
<1>6. Len(Front(p.past)) + Len(<<p.timeline>> \o p.future) <= HistoryLimit
  <2>1. Len(p.past) \in Nat /\ Len(p.future) \in Nat /\ HistoryLimit \in Nat
    BY <1>1, SessionAssumption
  <2>2. Len(p.past) + Len(p.future) <= HistoryLimit
    BY DEF PanelOK
  <2> QED
    BY <1>2, <1>3, <2>1, <2>2 DEF PanelOK, Panels
<1> QED
  BY <1>4, <1>5, <1>6 DEF PanelOK

\* redoEditor moves one back, and does not cut: the history keeps its length.
LEMMA RedoneOK ==
    ASSUME NEW p, PanelOK(p), p.future /= <<>>
    PROVE  PanelOK(Redone(p))
<1>1. p.past \in Seq(Timelines) /\ p.future \in Seq(Timelines) /\ p.timeline \in Timelines
  BY DEF PanelOK, Panels
<1>2. /\ Head(p.future) \in Timelines
      /\ Tail(p.future) \in Seq(Timelines) /\ Len(Tail(p.future)) = Len(p.future) - 1
  BY <1>1
<1>3. Append(p.past, p.timeline) \in Seq(Timelines)
      /\ Len(Append(p.past, p.timeline)) = Len(p.past) + 1
  BY <1>1
<1>4. Redone(p) \in Panels
  BY <1>2, <1>3 DEF Redone, PanelOK, Panels
<1>5. Redone(p).past = Append(p.past, p.timeline) /\ Redone(p).future = Tail(p.future)
  BY DEF Redone, PanelOK, Panels
<1>6. Len(Append(p.past, p.timeline)) + Len(Tail(p.future)) <= HistoryLimit
  <2>1. Len(p.past) \in Nat /\ Len(p.future) \in Nat /\ HistoryLimit \in Nat
    BY <1>1, SessionAssumption
  <2>2. Len(p.past) + Len(p.future) <= HistoryLimit
    BY DEF PanelOK
  <2> QED
    BY <1>2, <1>3, <2>1, <2>2 DEF PanelOK, Panels
<1> QED
  BY <1>4, <1>5, <1>6 DEF PanelOK

-----------------------------------------------------------------------------
(* The types.                                                              *)

\* What a step may do to one panel.
LEMMA PanelStep ==
    ASSUME SessionTypeOK, NEW e \in Editors, NEW p, PanelOK(p), panel' = [panel EXCEPT ![e] = p]
    PROVE  /\ panel' \in [Editors -> Panels]
           /\ \A f \in Editors : Len(panel'[f].past) + Len(panel'[f].future) <= HistoryLimit
<1>1. panel \in [Editors -> Panels] /\ p \in Panels
  BY DEF SessionTypeOK, PanelOK
<1>2. panel' \in [Editors -> Panels]
  BY <1>1
<1>3. ASSUME NEW f \in Editors
      PROVE  Len(panel'[f].past) + Len(panel'[f].future) <= HistoryLimit
  <2>1. CASE f = e
    <3>1. panel'[f] = p
      BY <1>1, <2>1
    <3> QED
      BY <3>1 DEF PanelOK
  <2>2. CASE f /= e
    <3>1. panel'[f] = panel[f]
      BY <1>1, <2>2
    <3> QED
      BY <3>1 DEF SessionTypeOK
  <2> QED
    BY <2>1, <2>2
<1> QED
  BY <1>2, <1>3

\* Every panel is one that a step may find.
LEMMA PanelsAreOK ==
    ASSUME SessionTypeOK, NEW e \in Editors
    PROVE  PanelOK(panel[e])
  BY DEF SessionTypeOK, PanelOK

\* A page that has just loaded a timeline has no history.
LEMMA FreshOK ==
    ASSUME SessionTypeOK, NEW t \in Timelines
    PROVE  PanelOK(Fresh(t))
<1>1. Head_ \in Numbers
  BY DEF SessionTypeOK, Numbers, Head_
<1>2. <<>> \in Seq(Timelines) /\ Len(<<>>) = 0
  OBVIOUS
<1>3. Fresh(t) \in Panels
  BY <1>1, <1>2 DEF Panels, Fresh
<1>4. Fresh(t).past = <<>> /\ Fresh(t).future = <<>>
  BY DEF Fresh
<1> QED
  BY <1>2, <1>3, <1>4, SessionAssumption DEF PanelOK

\* A page at rest is one that a step may find.
LEMMA ClosedOK == PanelOK(Closed) /\ Idle \in Requests
<1>1. <<>> \in Seq(Timelines) /\ Len(<<>>) = 0 /\ 0 \in Timelines /\ 0 \in Numbers
  BY SessionAssumption DEF Timelines, Numbers
<1>2. Closed \in Panels
  BY <1>1 DEF Closed, Panels
<1>3. Closed.past = <<>> /\ Closed.future = <<>>
  BY DEF Closed
<1>4. Idle \in Requests
  BY <1>1 DEF Idle, Requests
<1> QED
  BY <1>1, <1>2, <1>3, <1>4, SessionAssumption DEF PanelOK

\* The panels, the requests and the revisions keep their types, and an undo
\* history never grows over its limit, although redoEditor does not cut.
THEOREM SessionTypes == SessionSpec => []SessionTypeOK
<1>1. SessionInit => SessionTypeOK
  <2> SUFFICES ASSUME SessionInit PROVE SessionTypeOK
    OBVIOUS
  <2>1. \A e \in Editors : panel[e] = Closed
    BY DEF SessionInit
  <2>2. panel \in [Editors -> Panels] /\ asked \in [Editors -> Requests]
    BY ClosedOK DEF SessionInit, PanelOK
  <2>3. \A e \in Editors : Len(panel[e].past) + Len(panel[e].future) <= HistoryLimit
    BY <2>1, ClosedOK DEF PanelOK
  <2>4. revisions \in Seq(Revisions) /\ Head_ = 0
    BY DEF SessionInit, Head_
  <2>5. edits \in 0..MaxEdits /\ opens \in 0..MaxOpens /\ Head_ <= MaxRevisions
    BY <2>4, SessionAssumption DEF SessionInit
  <2> QED
    BY <2>2, <2>3, <2>4, <2>5 DEF SessionTypeOK
<1>2. SessionTypeOK /\ [SessionNext]_sessionVars => SessionTypeOK'
  <2> SUFFICES ASSUME SessionTypeOK, [SessionNext]_sessionVars
               PROVE  SessionTypeOK'
    OBVIOUS
  <2>0. /\ panel \in [Editors -> Panels] /\ asked \in [Editors -> Requests]
        /\ revisions \in Seq(Revisions)
        /\ edits \in 0..MaxEdits /\ opens \in 0..MaxOpens /\ Head_ <= MaxRevisions
        /\ Head_ \in Numbers
        /\ MaxEdits \in Nat /\ MaxOpens \in Nat /\ MaxRevisions \in Nat
    BY SessionAssumption DEF SessionTypeOK, Head_, Numbers
  <2>1. ASSUME NEW e \in Editors, NEW p, PanelOK(p), Opened(e, p)
        PROVE  SessionTypeOK'
    <3>1. panel' = [panel EXCEPT ![e] = p]
      BY <2>1 DEF Opened
    <3>2. asked' \in [Editors -> Requests]
      BY <2>0, <2>1, ClosedOK DEF Opened
    <3>3. opens' \in 0..MaxOpens /\ edits' = edits /\ revisions' = revisions
      BY <2>0, <2>1 DEF Opened
    <3>4. /\ panel' \in [Editors -> Panels]
          /\ \A f \in Editors : Len(panel'[f].past) + Len(panel'[f].future) <= HistoryLimit
      BY <2>1, <3>1, PanelStep
    <3> QED
      BY <2>0, <3>2, <3>3, <3>4 DEF SessionTypeOK, Head_
  <2>2. ASSUME NEW e \in Editors, Open(e) PROVE SessionTypeOK'
    <3> DEFINE t == IF Head_ = 0 THEN 0 ELSE revisions[Head_].timeline
    <3>1. t \in Timelines
      <4>1. 0 \in Timelines
        BY SessionAssumption DEF Timelines
      <4>2. CASE Head_ /= 0
        <5>1. Head_ \in 1..Len(revisions)
          BY <2>0, <4>2 DEF Head_
        <5>2. revisions[Head_] \in Revisions
          BY <2>0, <5>1
        <5> QED
          BY <5>2, <4>2 DEF Revisions
      <4> QED
        BY <4>1, <4>2
    <3>2. Opened(e, Fresh(t))
      BY <2>2 DEF Open
    <3> QED
      BY <2>1, <3>1, <3>2, FreshOK
  <2>3. ASSUME NEW e \in Editors, OpenWithoutRevision(e) PROVE SessionTypeOK'
    <3>1. 0 \in Timelines
      BY SessionAssumption DEF Timelines
    <3> QED
      BY <2>1, <2>3, <3>1, FreshOK DEF OpenWithoutRevision
  <2>4. ASSUME NEW e \in Editors, Edit(e) PROVE SessionTypeOK'
    <3>1. edits + 1 \in Timelines /\ edits' \in 0..MaxEdits
      BY <2>0, <2>4 DEF Edit, Timelines
    <3>2. panel' = [panel EXCEPT ![e] = WithHistory(panel[e], edits + 1)]
      BY <2>4 DEF Edit
    <3>3. PanelOK(WithHistory(panel[e], edits + 1))
      BY <3>1, PanelsAreOK, WithHistoryOK
    <3> QED
      BY <2>0, <2>4, <3>1, <3>2, <3>3, PanelStep DEF Edit, SessionTypeOK, Head_
  <2>5. ASSUME NEW e \in Editors, Undo(e) PROVE SessionTypeOK'
    <3>1. panel' = [panel EXCEPT ![e] = Undone(panel[e])]
      BY <2>5 DEF Undo
    <3>2. PanelOK(Undone(panel[e]))
      BY <2>5, PanelsAreOK, UndoneOK DEF Undo
    <3> QED
      BY <2>0, <2>5, <3>1, <3>2, PanelStep DEF Undo, SessionTypeOK, Head_
  <2>6. ASSUME NEW e \in Editors, Redo(e) PROVE SessionTypeOK'
    <3>1. panel' = [panel EXCEPT ![e] = Redone(panel[e])]
      BY <2>6 DEF Redo
    <3>2. PanelOK(Redone(panel[e]))
      BY <2>6, PanelsAreOK, RedoneOK DEF Redo
    <3> QED
      BY <2>0, <2>6, <3>1, <3>2, PanelStep DEF Redo, SessionTypeOK, Head_
  <2>7. ASSUME NEW e \in Editors, NEW kind \in {"save", "cmx"}, NEW t \in Timelines, Ask(e, kind, t)
        PROVE  asked' \in [Editors -> Requests]
    <3>1. panel[e].revision \in Numbers /\ 0 \in Numbers
      BY <2>0, SessionAssumption DEF Panels, Numbers
    <3>2. [Idle EXCEPT !.kind = kind, !.expected = panel[e].revision, !.timeline = t] \in Requests
      BY <3>1 DEF Idle, Requests
    <3> QED
      BY <2>0, <2>7, <3>2 DEF Ask
  <2>8. ASSUME NEW e \in Editors, Save(e) PROVE SessionTypeOK'
    <3>1. panel[e].timeline \in Timelines
      BY <2>0 DEF Panels
    <3> QED
      BY <2>0, <2>7, <2>8, <3>1 DEF Save, SessionTypeOK, Head_
  <2>9. ASSUME NEW e \in Editors, ApplyCmx(e) PROVE SessionTypeOK'
    <3>1. edits + 1 \in Timelines /\ edits' \in 0..MaxEdits
      BY <2>0, <2>9 DEF ApplyCmx, Timelines
    <3> QED
      BY <2>0, <2>7, <2>9, <3>1 DEF ApplyCmx, SessionTypeOK, Head_
  <2>10. ASSUME NEW e \in Editors, Serve(e) PROVE SessionTypeOK'
    <3>1. panel[e].seen \in Numbers /\ asked[e].timeline \in Timelines /\ asked[e] \in Requests
      BY <2>0 DEF Panels, Requests
    <3>2. CASE Current(asked[e].expected)
      <4> DEFINE r == [author |-> e, timeline |-> asked[e].timeline, seen |-> panel[e].seen]
      <4>1. r \in Revisions
        BY <3>1 DEF Revisions
      <4>2. Head_ < MaxRevisions /\ revisions' = Append(revisions, r)
        BY <2>10, <3>2 DEF Serve
      <4>3. revisions' \in Seq(Revisions) /\ Len(revisions') = Len(revisions) + 1
        BY <2>0, <4>1, <4>2
      <4>4. Head_ + 1 \in Numbers /\ Len(revisions') <= MaxRevisions
        BY <2>0, <4>2, <4>3 DEF Head_, Numbers
      <4>5. asked' = [asked EXCEPT ![e] = [asked[e] EXCEPT !.answer = "ok", !.revision = Head_ + 1]]
        BY <2>0, <2>10, <3>2 DEF Serve
      <4>6. asked' \in [Editors -> Requests]
        BY <2>0, <3>1, <4>4, <4>5 DEF Requests
      <4> QED
        BY <2>0, <2>10, <4>3, <4>4, <4>6 DEF Serve, SessionTypeOK, Head_
    <3>3. CASE ~Current(asked[e].expected)
      <4>1. asked' = [asked EXCEPT ![e] = [asked[e] EXCEPT !.answer = "conflict", !.revision = Head_]]
        BY <2>0, <2>10, <3>3 DEF Serve
      <4>2. asked' \in [Editors -> Requests]
        BY <2>0, <3>1, <4>1 DEF Requests
      <4> QED
        BY <2>0, <2>10, <3>3, <4>2 DEF Serve, SessionTypeOK, Head_
    <3> QED
      BY <3>2, <3>3
  <2>11. ASSUME NEW e \in Editors, Lose(e) PROVE SessionTypeOK'
    BY <2>0, <2>11, ClosedOK DEF Lose, SessionTypeOK, Head_
  <2>12. ASSUME NEW e \in Editors, Hear(e) PROVE SessionTypeOK'
    <3> DEFINE n == IF Learns(asked[e]) THEN asked[e].revision ELSE panel[e].revision
               p == [panel[e] EXCEPT !.revision = n]
    <3>1. n \in Numbers
      BY <2>0 DEF Panels, Requests
    <3>2. panel[e] \in Panels /\ p.past = panel[e].past /\ p.future = panel[e].future
      BY <2>0 DEF Panels
    <3>3. PanelOK(p)
      BY <3>1, <3>2, PanelsAreOK DEF PanelOK, Panels
    <3>4. panel' = [panel EXCEPT ![e] = p]
      BY <2>0, <2>12 DEF Hear
    <3> QED
      BY <2>0, <2>12, <3>3, <3>4, PanelStep, ClosedOK DEF Hear, SessionTypeOK, Head_
  <2>13. CASE UNCHANGED sessionVars
    BY <2>13 DEF sessionVars, SessionTypeOK, Head_
  <2> QED
    BY <2>2, <2>3, <2>4, <2>5, <2>6, <2>8, <2>9, <2>10, <2>11, <2>12, <2>13 DEF SessionNext
<1> QED
  BY <1>1, <1>2, PTL DEF SessionSpec

-----------------------------------------------------------------------------
(* Nobody's revision is replaced by a timeline made without it.            *)

\* Revision n of rs may be saved over from page q of e: the revisions that the
\* page was not loaded with, up to n, are e's own.
OwnIn(rs, q, e, n) ==
    /\ n \in 0..Len(rs)
    /\ \A m \in 1..n : m > q.seen => rs[m].author = e

Own(e, n) == OwnIn(revisions, panel[e], e, n)
SavedAfter(e, n) == OwnIn(revisions', panel'[e], e, n)

\* What makes it so: a panel moves on to the revisions it is told it saved.
OwnInv == \A e \in Editors :
    /\ Own(e, panel[e].revision)
    /\ Own(e, asked[e].expected)
    /\ asked[e].answer = "ok" => Own(e, asked[e].revision)

\* A step that adds no revision and leaves the page loaded as it was keeps what
\* may be saved over.
LEMMA OwnIsStable ==
    ASSUME SessionTypeOK, revisions' = revisions, NEW e \in Editors, NEW n, Own(e, n),
           panel'[e].seen = panel[e].seen
    PROVE  SavedAfter(e, n)
  BY DEF Own, SavedAfter, OwnIn

\* Nor does a revision added by anyone disturb it.
LEMMA OwnGrows ==
    ASSUME SessionTypeOK, NEW r \in Revisions, revisions' = Append(revisions, r),
           NEW e \in Editors, NEW n, Own(e, n), panel' = panel
    PROVE  SavedAfter(e, n)
<1>1. Head_ \in Nat /\ Head_' = Head_ + 1 /\ n \in 0..Head_
  BY DEF SessionTypeOK, Head_, Own, SavedAfter, OwnIn
<1>2. \A m \in 1..n : revisions'[m] = revisions[m]
  BY <1>1 DEF SessionTypeOK, Head_
<1> QED
  BY <1>1, <1>2 DEF Own, SavedAfter, OwnIn

\* A page that is loaded from the head may save over it.
LEMMA FreshIsOwn ==
    ASSUME SessionTypeOK, revisions' = revisions, NEW e \in Editors, NEW t \in Timelines,
           panel' = [panel EXCEPT ![e] = Fresh(t)]
    PROVE  SavedAfter(e, panel'[e].revision) /\ SavedAfter(e, 0)
<1>1. panel'[e] = Fresh(t) /\ Head_ \in Nat /\ Head_' = Head_
  BY DEF SessionTypeOK, Head_
<1>2. panel'[e].revision = Head_ /\ panel'[e].seen = Head_
  BY <1>1 DEF Fresh
<1>3. \A m \in 1..Head_ : ~(m > Head_)
  BY <1>1
<1>4. SavedAfter(e, 0)
  BY <1>1 DEF Own, SavedAfter, OwnIn
<1>5. panel'[e].revision \in 0..Head_' /\
      \A m \in 1..panel'[e].revision : m > panel'[e].seen => revisions'[m].author = e
  BY <1>1, <1>2, <1>3
<1> QED
  BY <1>4, <1>5 DEF SavedAfter, OwnIn, Head_

\* Nobody's saved work is replaced by a timeline made without it, whatever
\* answers are lost and however often the pages are loaded, edited and saved.
THEOREM WorkIsKept == SessionSpec => []OthersWorkIsKept
<1>1. SessionInit => OwnInv /\ OthersWorkIsKept
  <2> SUFFICES ASSUME SessionInit PROVE OwnInv /\ OthersWorkIsKept
    OBVIOUS
  <2>1. Head_ = 0 /\ DOMAIN revisions = {}
    BY DEF SessionInit, Head_
  <2>2. ASSUME NEW e \in Editors
        PROVE  panel[e].revision = 0 /\ asked[e].expected = 0 /\ asked[e].answer = "none"
    BY DEF SessionInit, Closed, Idle
  <2>3. \A e \in Editors : Own(e, 0)
    BY <2>1 DEF Own, SavedAfter, OwnIn
  <2> QED
    BY <2>1, <2>2, <2>3 DEF OwnInv, OthersWorkIsKept
<1>2. SessionTypeOK /\ OwnInv /\ OthersWorkIsKept /\ [SessionNext]_sessionVars
        => OwnInv' /\ OthersWorkIsKept'
  <2> SUFFICES ASSUME SessionTypeOK, OwnInv, OthersWorkIsKept, [SessionNext]_sessionVars
               PROVE  OwnInv' /\ OthersWorkIsKept'
    OBVIOUS
  <2>0. panel \in [Editors -> Panels] /\ asked \in [Editors -> Requests]
        /\ revisions \in Seq(Revisions)
    BY DEF SessionTypeOK
  <2>1. ASSUME revisions' = revisions PROVE OthersWorkIsKept'
    BY <2>1 DEF OthersWorkIsKept
  <2>2. ASSUME NEW e \in Editors, revisions' = revisions,
               \A f \in Editors : f /= e => panel'[f] = panel[f] /\ asked'[f] = asked[f],
               /\ SavedAfter(e, panel'[e].revision)
               /\ SavedAfter(e, asked'[e].expected)
               /\ asked'[e].answer = "ok" => SavedAfter(e, asked'[e].revision)
        PROVE  OwnInv' /\ OthersWorkIsKept'
    <3>1. ASSUME NEW f \in Editors, f /= e
          PROVE  /\ SavedAfter(f, panel'[f].revision)
                 /\ SavedAfter(f, asked'[f].expected)
                 /\ asked'[f].answer = "ok" => SavedAfter(f, asked'[f].revision)
      BY <2>2, <3>1 DEF OwnInv, Own, SavedAfter, OwnIn, Head_
    <3> QED
      BY <2>1, <2>2, <3>1 DEF OwnInv, Own, SavedAfter
  <2>3. ASSUME NEW e \in Editors, NEW t \in Timelines, Opened(e, Fresh(t))
        PROVE  OwnInv' /\ OthersWorkIsKept'
    <3>1. SavedAfter(e, panel'[e].revision) /\ SavedAfter(e, 0)
      BY <2>3, FreshIsOwn DEF Opened
    <3>2. asked'[e] = Idle
      BY <2>0, <2>3 DEF Opened
    <3>3. asked'[e].expected = 0 /\ asked'[e].answer = "none"
      BY <3>2 DEF Idle
    <3>4. \A f \in Editors : f /= e => panel'[f] = panel[f] /\ asked'[f] = asked[f]
      BY <2>0, <2>3 DEF Opened
    <3>5. SavedAfter(e, asked'[e].expected)
      BY <3>1, <3>3 DEF Own, SavedAfter, OwnIn
    <3> QED
      BY <2>2, <2>3, <3>1, <3>3, <3>4, <3>5 DEF Opened
  \* A step that touches one panel without moving it to another revision.
  <2>4. ASSUME NEW e \in Editors, NEW p, panel' = [panel EXCEPT ![e] = p],
               p.revision = panel[e].revision, p.seen = panel[e].seen,
               asked' = asked, revisions' = revisions
        PROVE  OwnInv' /\ OthersWorkIsKept'
    <3>1. panel'[e] = p /\ \A f \in Editors : f /= e => panel'[f] = panel[f]
      BY <2>0, <2>4
    <3>2. panel'[e].revision = panel[e].revision /\ panel'[e].seen = panel[e].seen
      BY <2>4, <3>1
    <3>3. /\ SavedAfter(e, panel'[e].revision)
          /\ SavedAfter(e, asked'[e].expected)
          /\ asked'[e].answer = "ok" => SavedAfter(e, asked'[e].revision)
      BY <2>4, <3>2 DEF OwnInv, Own, SavedAfter, OwnIn, Head_
    <3> QED
      BY <2>2, <2>4, <3>1, <3>3
  \* A step that touches one request, which asks for what may be saved over.
  <2>5. ASSUME NEW e \in Editors, NEW r, asked' = [asked EXCEPT ![e] = r],
               r.answer /= "ok", Own(e, r.expected), panel' = panel, revisions' = revisions
        PROVE  OwnInv' /\ OthersWorkIsKept'
    <3>1. asked'[e] = r /\ \A f \in Editors : f /= e => asked'[f] = asked[f]
      BY <2>0, <2>5
    <3>2. /\ SavedAfter(e, panel'[e].revision)
          /\ SavedAfter(e, asked'[e].expected)
          /\ asked'[e].answer /= "ok"
      BY <2>5, <3>1 DEF OwnInv, Own, SavedAfter, OwnIn, Head_
    <3> QED
      BY <2>2, <2>5, <3>1, <3>2
  <2>6. \A e \in Editors : Own(e, 0)
    BY DEF Own, SavedAfter, OwnIn, Head_, SessionTypeOK
  <2>7. ASSUME NEW e \in Editors, Open(e) \/ OpenWithoutRevision(e)
        PROVE  OwnInv' /\ OthersWorkIsKept'
    <3>1. 0 \in Timelines
      BY SessionAssumption DEF Timelines
    <3>2. CASE OpenWithoutRevision(e)
      BY <2>3, <3>1, <3>2 DEF OpenWithoutRevision
    <3>3. CASE Open(e)
      <4> DEFINE t == IF Head_ = 0 THEN 0 ELSE revisions[Head_].timeline
      <4>1. CASE Head_ /= 0
        <5>1. revisions[Head_] \in Revisions
          BY <2>0, <4>1 DEF Head_
        <5> QED
          BY <2>3, <3>3, <4>1, <5>1 DEF Open, Revisions
      <4>2. CASE Head_ = 0
        BY <2>3, <3>1, <3>3, <4>2 DEF Open
      <4> QED
        BY <4>1, <4>2
    <3> QED
      BY <2>7, <3>2, <3>3
  <2>8. ASSUME NEW e \in Editors, Edit(e) PROVE OwnInv' /\ OthersWorkIsKept'
    <3>1. panel[e] \in Panels
      BY <2>0
    <3>2. /\ WithHistory(panel[e], edits + 1).revision = panel[e].revision
          /\ WithHistory(panel[e], edits + 1).seen = panel[e].seen
      BY <3>1 DEF WithHistory, Panels
    <3> QED
      BY <2>4, <2>8, <3>2 DEF Edit
  <2>9. ASSUME NEW e \in Editors, Undo(e) PROVE OwnInv' /\ OthersWorkIsKept'
    <3>1. panel[e] \in Panels
      BY <2>0
    <3>2. Undone(panel[e]).revision = panel[e].revision /\ Undone(panel[e]).seen = panel[e].seen
      BY <3>1 DEF Undone, Panels
    <3> QED
      BY <2>4, <2>9, <3>2 DEF Undo
  <2>10. ASSUME NEW e \in Editors, Redo(e) PROVE OwnInv' /\ OthersWorkIsKept'
    <3>1. panel[e] \in Panels
      BY <2>0
    <3>2. Redone(panel[e]).revision = panel[e].revision /\ Redone(panel[e]).seen = panel[e].seen
      BY <3>1 DEF Redone, Panels
    <3> QED
      BY <2>4, <2>10, <3>2 DEF Redo
  <2>11. ASSUME NEW e \in Editors, NEW kind, NEW t, Ask(e, kind, t),
                panel' = panel, revisions' = revisions
         PROVE  OwnInv' /\ OthersWorkIsKept'
    <3> DEFINE r == [Idle EXCEPT !.kind = kind, !.expected = panel[e].revision, !.timeline = t]
    <3>1. r.expected = panel[e].revision /\ r.answer = "none"
      BY DEF Idle
    <3>2. Own(e, r.expected)
      BY <3>1 DEF OwnInv
    <3>3. asked' = [asked EXCEPT ![e] = r]
      BY <2>11 DEF Ask
    <3> QED
      BY <2>5, <2>11, <3>1, <3>2, <3>3
  <2>12. ASSUME NEW e \in Editors, Save(e) \/ ApplyCmx(e) PROVE OwnInv' /\ OthersWorkIsKept'
    BY <2>11, <2>12 DEF Save, ApplyCmx
  <2>13. ASSUME NEW e \in Editors, Lose(e) PROVE OwnInv' /\ OthersWorkIsKept'
    <3>1. Idle.answer /= "ok" /\ Idle.expected = 0
      BY DEF Idle
    <3> QED
      BY <2>5, <2>6, <2>13, <3>1 DEF Lose
  <2>14. ASSUME NEW e \in Editors, Hear(e) PROVE OwnInv' /\ OthersWorkIsKept'
    <3> DEFINE n == IF Learns(asked[e]) THEN asked[e].revision ELSE panel[e].revision
    <3>1. Own(e, n)
      BY DEF OwnInv, Learns
    <3>2. /\ panel' = [panel EXCEPT ![e] = [panel[e] EXCEPT !.revision = n]]
          /\ asked' = [asked EXCEPT ![e] = Idle] /\ revisions' = revisions
      BY <2>0, <2>14 DEF Hear
    <3>3. panel[e] \in Panels
      BY <2>0
    <3> HIDE DEF n
    <3>4. panel'[e].revision = n /\ panel'[e].seen = panel[e].seen
      BY <2>0, <3>2, <3>3 DEF Panels
    <3>5. asked'[e].expected = 0 /\ asked'[e].answer = "none"
      BY <2>0, <3>2 DEF Idle
    <3>6. \A f \in Editors : f /= e => panel'[f] = panel[f] /\ asked'[f] = asked[f]
      BY <2>0, <3>2
    <3>7. SavedAfter(e, n) /\ SavedAfter(e, 0)
      BY <2>6, <3>1, <3>2, <3>4 DEF Own, SavedAfter, OwnIn, Head_
    <3>8. SavedAfter(e, panel'[e].revision) /\ SavedAfter(e, asked'[e].expected)
      BY <3>4, <3>5, <3>7 DEF Own, SavedAfter, OwnIn
    <3> QED
      BY <2>2, <3>2, <3>5, <3>6, <3>8
  <2>15. ASSUME NEW e \in Editors, Serve(e) PROVE OwnInv' /\ OthersWorkIsKept'
    <3>1. CASE ~Current(asked[e].expected)
      <4> DEFINE r == [asked[e] EXCEPT !.answer = "conflict", !.revision = Head_]
      <4>1. asked' = [asked EXCEPT ![e] = r] /\ panel' = panel /\ revisions' = revisions
        BY <2>0, <2>15, <3>1 DEF Serve
      <4>2. asked[e] \in Requests
        BY <2>0
      <4>3. r.answer /= "ok" /\ r.expected = asked[e].expected
        BY <4>2 DEF Requests
      <4> QED
        BY <2>5, <4>1, <4>3 DEF OwnInv
    <3>2. CASE Current(asked[e].expected)
      <4> DEFINE v == [author |-> e, timeline |-> asked[e].timeline, seen |-> panel[e].seen]
                 r == [asked[e] EXCEPT !.answer = "ok", !.revision = Head_ + 1]
      <4>1. asked' = [asked EXCEPT ![e] = r] /\ panel' = panel /\ revisions' = Append(revisions, v)
        BY <2>0, <2>15, <3>2 DEF Serve
      <4>2. asked[e] \in Requests /\ panel[e] \in Panels
        BY <2>0
      <4>3. v \in Revisions
        BY <4>2 DEF Requests, Panels, Revisions
      <4>4. /\ asked'[e].revision = Head_ + 1 /\ asked'[e].expected = asked[e].expected
            /\ \A f \in Editors : f /= e => asked'[f] = asked[f]
        BY <2>0, <4>1, <4>2 DEF Requests
      <4>5. \A m \in 1..Head_ : m > panel[e].seen => revisions[m].author = e
        BY <3>2 DEF OwnInv, Own, SavedAfter, OwnIn, Current
      <4>6. /\ Head_ \in Nat /\ Head_' = Head_ + 1
            /\ \A m \in 1..Head_ : revisions'[m] = revisions[m]
            /\ revisions'[Head_ + 1] = v
        BY <2>0, <4>1, <4>3 DEF Head_
      <4> HIDE DEF r
      <4>7. SavedAfter(e, Head_ + 1)
        <5>1. ASSUME NEW m \in 1..(Head_ + 1), m > panel[e].seen PROVE revisions'[m].author = e
          <6>1. CASE m = Head_ + 1
            BY <4>6, <6>1
          <6>2. CASE m \in 1..Head_
            BY <4>5, <4>6, <5>1, <6>2
          <6> QED
            BY <4>6, <6>1, <6>2
        <5> QED
          BY <4>1, <4>6, <5>1 DEF SavedAfter, OwnIn, Head_
      <4>8. \A f \in Editors : \A n : Own(f, n) => SavedAfter(f, n)
        BY <4>1, <4>3, OwnGrows
      <4>9. OwnInv'
        <5>1. ASSUME NEW f \in Editors, f /= e
              PROVE  /\ SavedAfter(f, panel'[f].revision)
                     /\ SavedAfter(f, asked'[f].expected)
                     /\ asked'[f].answer = "ok" => SavedAfter(f, asked'[f].revision)
          <6>1. asked'[f] = asked[f] /\ panel'[f] = panel[f]
            BY <4>1, <4>4, <5>1
          <6> QED
            BY <4>8, <6>1 DEF OwnInv
        <5>2. SavedAfter(e, panel'[e].revision) /\ SavedAfter(e, asked'[e].expected)
          BY <4>1, <4>4, <4>8 DEF OwnInv
        <5>3. SavedAfter(e, asked'[e].revision)
          BY <4>4, <4>7
        <5> QED
          BY <5>1, <5>2, <5>3 DEF OwnInv, Own, SavedAfter
      <4>10. OthersWorkIsKept'
        <5> SUFFICES ASSUME NEW n \in 1..(Head_ + 1), NEW m \in 1..(Head_ + 1), m < n,
                            revisions'[m].author /= revisions'[n].author
                     PROVE  m <= revisions'[n].seen
          BY <4>6, <2>0, <4>1, <4>3 DEF OthersWorkIsKept, Head_
        <5>1. m \in 1..Head_
          BY <4>6
        <5>2. CASE n = Head_ + 1
          <6>1. ~(m > panel[e].seen)
            BY <4>5, <4>6, <5>1, <5>2
          <6>2. panel[e].seen \in Nat
            BY <4>2 DEF Panels, Numbers
          <6> QED
            BY <4>6, <5>1, <5>2, <6>1, <6>2
        <5>3. CASE n \in 1..Head_
          BY <4>6, <5>1, <5>3, <2>0 DEF OthersWorkIsKept, Head_
        <5> QED
          BY <4>6, <5>2, <5>3
      <4> QED
        BY <4>9, <4>10
    <3> QED
      BY <3>1, <3>2
  <2>16. CASE UNCHANGED sessionVars
    BY <2>16, <2>1 DEF sessionVars, OwnInv, Own, SavedAfter, OwnIn, Head_
  <2> QED
    BY <2>7, <2>8, <2>9, <2>10, <2>12, <2>13, <2>14, <2>15, <2>16 DEF SessionNext
<1> QED
  BY <1>1, <1>2, SessionTypes, PTL DEF SessionSpec

-----------------------------------------------------------------------------
(* MontageSession: undo and redo walk along one line of timelines.         *)

\* One line of timelines, the newest of which is not after the last edit.
Line(p, last) ==
    /\ p.timeline <= last
    /\ \A i \in 1..Len(p.past) : p.past[i] < p.timeline
    /\ \A i, j \in 1..Len(p.past) : i < j => p.past[i] < p.past[j]
    /\ \A i \in 1..Len(p.future) : p.timeline < p.future[i] /\ p.future[i] <= last
    /\ \A i, j \in 1..Len(p.future) : i < j => p.future[i] < p.future[j]

\* The inductive invariant: every panel is a line, and neither a save on its way
\* nor a revision carries a timeline newer than the last edit.
LineInv ==
    /\ \A e \in Editors : Line(panel[e], edits) /\ asked[e].timeline <= edits
    /\ \A n \in 1..Head_ : revisions[n].timeline <= edits

\* The past and the future of a panel are sequences of numbers.
LEMMA PanelParts ==
    ASSUME NEW p \in Panels
    PROVE  /\ p.past \in Seq(Nat) /\ p.future \in Seq(Nat) /\ p.timeline \in Nat
           /\ Len(p.past) \in Nat /\ Len(p.future) \in Nat
           /\ \A i \in 1..Len(p.past) : p.past[i] \in Nat
           /\ \A i \in 1..Len(p.future) : p.future[i] \in Nat
<1>1. p.past \in Seq(Timelines) /\ p.future \in Seq(Timelines) /\ p.timeline \in Timelines
  BY DEF Panels
<1>2. \A t \in Timelines : t \in Nat
  BY SessionAssumption DEF Timelines
<1>3. /\ Len(p.past) \in Nat /\ Len(p.future) \in Nat
      /\ \A i \in 1..Len(p.past) : p.past[i] \in Nat
      /\ \A i \in 1..Len(p.future) : p.future[i] \in Nat
  BY <1>1, <1>2
<1>4. p.past \in Seq(Nat) /\ p.future \in Seq(Nat)
  BY <1>1, <1>2
<1> QED
  BY <1>1, <1>2, <1>3, <1>4

\* The timelines of a sequence that has grown by one.
LEMMA GrownByOne ==
    ASSUME NEW s \in Seq(Nat), NEW t \in Nat
    PROVE  /\ Append(s, t) \in Seq(Nat) /\ Len(Append(s, t)) = Len(s) + 1
           /\ \A i \in 1..(Len(s) + 1) :
                 \/ i \in 1..Len(s) /\ Append(s, t)[i] = s[i]
                 \/ i = Len(s) + 1 /\ Append(s, t)[i] = t
<1>1. /\ Append(s, t) \in Seq(Nat) /\ Len(Append(s, t)) = Len(s) + 1
      /\ \A i \in 1..Len(s) : Append(s, t)[i] = s[i]
      /\ Append(s, t)[Len(s) + 1] = t
  BY AppendProperties
<1>2. Len(s) \in Nat
  OBVIOUS
<1>3. \A i \in 1..(Len(s) + 1) : i \in 1..Len(s) \/ i = Len(s) + 1
  BY <1>2
<1> QED
  BY <1>1, <1>3

\* What undo and redo walk along increases from end to end.
LEMMA LineIncreases ==
    ASSUME NEW p \in Panels, NEW last \in Nat, Line(p, last)
    PROVE  \A i, j \in DOMAIN History(p) : i < j => History(p)[i] < History(p)[j]
<1> DEFINE n == Len(p.past)
           m == Len(p.future)
           h == History(p)
<1>1. /\ p.past \in Seq(Nat) /\ p.future \in Seq(Nat) /\ p.timeline \in Nat /\ n \in Nat /\ m \in Nat
      /\ \A i \in 1..n : p.past[i] \in Nat
      /\ \A i \in 1..m : p.future[i] \in Nat
  BY PanelParts
<1>2. DOMAIN h = 1..(n + 1 + m)
      /\ \A i \in 1..(n + 1 + m) : h[i] = IF i <= n THEN p.past[i]
                                           ELSE IF i = n + 1 THEN p.timeline ELSE p.future[i - (n + 1)]
  <2>1. PICK one : one = <<p.timeline>>
    OBVIOUS
  <2>2. one \in Seq(Nat) /\ Len(one) = 1 /\ one[1] = p.timeline
    BY <1>1, <2>1
  <2>3. PICK q : q = p.past \o one
    OBVIOUS
  <2>4. /\ q \in Seq(Nat) /\ Len(q) = n + 1
        /\ \A i \in 1..(n + 1) : q[i] = IF i <= n THEN p.past[i] ELSE one[i - n]
    <3>1. /\ p.past \o one \in Seq(Nat) /\ Len(p.past \o one) = Len(p.past) + Len(one)
          /\ \A i \in 1..(Len(p.past) + Len(one)) : (p.past \o one)[i] =
                 IF i <= Len(p.past) THEN p.past[i] ELSE one[i - Len(p.past)]
      BY <1>1, <2>2, ConcatProperties
    <3> QED
      BY <2>2, <2>3, <3>1
  <2>5. h = q \o p.future
    BY <2>1, <2>3 DEF History
  <2> HIDE DEF h
  <2>6. /\ h \in Seq(Nat) /\ Len(h) = Len(q) + Len(p.future)
        /\ \A i \in 1..(Len(q) + Len(p.future)) : h[i] = IF i <= Len(q) THEN q[i] ELSE p.future[i - Len(q)]
    BY <1>1, <2>4, <2>5, ConcatProperties
  <2>7. DOMAIN h = 1..(n + 1 + m)
    BY <1>1, <2>4, <2>6
  <2>8. ASSUME NEW i \in 1..(n + 1 + m)
        PROVE  h[i] = IF i <= n THEN p.past[i]
                      ELSE IF i = n + 1 THEN p.timeline ELSE p.future[i - (n + 1)]
    <3>1. h[i] = IF i <= n + 1 THEN q[i] ELSE p.future[i - (n + 1)]
      BY <2>4, <2>6
    <3>2. CASE i <= n
      <4>1. i \in 1..(n + 1)
        BY <1>1, <3>2
      <4> QED
        BY <1>1, <2>4, <3>1, <3>2, <4>1
    <3>3. CASE i = n + 1
      <4>1. i \in 1..(n + 1) /\ i - n = 1 /\ ~(i <= n) /\ i <= n + 1
        BY <1>1, <3>3
      <4> QED
        BY <2>2, <2>4, <3>1, <3>3, <4>1
    <3>4. CASE i > n + 1
      BY <1>1, <3>1, <3>4
    <3> QED
      <4>1. i <= n \/ i = n + 1 \/ i > n + 1
        BY <1>1
      <4>2. i = n + 1 => ~(i <= n)
        BY <1>1
      <4>3. i > n + 1 => ~(i <= n) /\ i /= n + 1
        BY <1>1
      <4> QED
        BY <3>2, <3>3, <3>4, <4>1, <4>2, <4>3
  <2> QED
    BY <2>7, <2>8
<1>3. /\ \A i \in 1..n : p.past[i] < p.timeline
      /\ \A i, j \in 1..n : i < j => p.past[i] < p.past[j]
      /\ \A i \in 1..m : p.timeline < p.future[i]
      /\ \A i, j \in 1..m : i < j => p.future[i] < p.future[j]
  BY DEF Line
<1> HIDE DEF h, n, m
<1> SUFFICES ASSUME NEW i \in 1..(n + 1 + m), NEW j \in 1..(n + 1 + m), i < j PROVE h[i] < h[j]
  BY <1>2 DEF h
<1>4. CASE j <= n
  <2>1. i \in 1..n /\ j \in 1..n
    BY <1>1, <1>4
  <2>2. h[i] = p.past[i] /\ h[j] = p.past[j]
    BY <1>1, <1>2, <1>4, <2>1
  <2> QED
    BY <1>3, <2>1, <2>2
<1>5. CASE i <= n /\ j = n + 1
  <2>1. i \in 1..n
    BY <1>1, <1>5
  <2>2. h[i] = p.past[i] /\ h[j] = p.timeline
    BY <1>1, <1>2, <1>5, <2>1
  <2> QED
    BY <1>3, <2>1, <2>2
<1>6. CASE i <= n /\ j > n + 1
  <2>1. i \in 1..n /\ j - (n + 1) \in 1..m
    BY <1>1, <1>6
  <2>2. h[i] = p.past[i] /\ h[j] = p.future[j - (n + 1)]
    BY <1>1, <1>2, <1>6, <2>1
  <2>3. p.past[i] < p.timeline /\ p.timeline < p.future[j - (n + 1)]
    BY <1>3, <2>1
  <2> QED
    BY <1>1, <2>1, <2>2, <2>3
<1>7. CASE i = n + 1
  <2>1. j - (n + 1) \in 1..m
    BY <1>1, <1>7
  <2>2. h[i] = p.timeline /\ h[j] = p.future[j - (n + 1)]
    BY <1>1, <1>2, <1>7, <2>1
  <2> QED
    BY <1>3, <2>1, <2>2
<1>8. CASE i > n + 1
  <2>1. i - (n + 1) \in 1..m /\ j - (n + 1) \in 1..m /\ i - (n + 1) < j - (n + 1)
    BY <1>1, <1>8
  <2>2. h[i] = p.future[i - (n + 1)] /\ h[j] = p.future[j - (n + 1)]
    BY <1>1, <1>2, <1>8, <2>1
  <2> QED
    BY <1>3, <2>1, <2>2
<1>9. j <= n \/ (i <= n /\ j = n + 1) \/ (i <= n /\ j > n + 1) \/ i = n + 1 \/ i > n + 1
  <2>1. n \in Nat /\ i \in Int /\ j \in Int /\ i < j
    BY <1>1
  <2> QED
    BY <2>1
<1> QED
  BY <1>4, <1>5, <1>6, <1>7, <1>8, <1>9

\* A history that is cut keeps its newest timelines, in their order.
LEMMA NewestLine ==
    ASSUME NEW past \in Seq(Nat), NEW t \in Nat, NEW next \in Nat, t < next,
           \A i \in 1..Len(past) : past[i] < t,
           \A i, j \in 1..Len(past) : i < j => past[i] < past[j]
    PROVE  LET cut == Newest(Append(past, t))
           IN  /\ \A i \in 1..Len(cut) : cut[i] < next
               /\ \A i, j \in 1..Len(cut) : i < j => cut[i] < cut[j]
<1> DEFINE longer == Append(past, t)
<1>0. Len(past) \in Nat /\ \A i \in 1..Len(past) : past[i] \in Nat
  OBVIOUS
<1>1. /\ longer \in Seq(Nat) /\ Len(longer) = Len(past) + 1 /\ longer /= <<>>
      /\ \A i \in 1..Len(longer) : \/ i \in 1..Len(past) /\ longer[i] = past[i]
                                   \/ i = Len(past) + 1 /\ longer[i] = t
  BY GrownByOne
<1> HIDE DEF longer
<1>2. \A i \in 1..Len(longer) : longer[i] < next
  BY <1>0, <1>1
<1>3. \A i, j \in 1..Len(longer) : i < j => longer[i] < longer[j]
  <2> TAKE i, j \in 1..Len(longer)
  <2> HAVE i < j
  <2>1. i \in 1..Len(past) /\ longer[i] = past[i]
    BY <1>0, <1>1
  <2>2. (j \in 1..Len(past) /\ longer[j] = past[j]) \/ longer[j] = t
    BY <1>1
  <2> QED
    BY <2>1, <2>2
<1>4. /\ Tail(longer) \in Seq(Nat) /\ Len(Tail(longer)) = Len(longer) - 1
      /\ \A i \in 1..(Len(longer) - 1) : Tail(longer)[i] = longer[i + 1]
  BY <1>1
<1>5. \A i \in 1..(Len(longer) - 1) : i + 1 \in 1..Len(longer)
  BY <1>1
<1>6. \A i \in 1..Len(Tail(longer)) : Tail(longer)[i] < next
  BY <1>2, <1>4, <1>5
<1>7. \A i, j \in 1..Len(Tail(longer)) : i < j => Tail(longer)[i] < Tail(longer)[j]
  <2> TAKE i, j \in 1..Len(Tail(longer))
  <2> HAVE i < j
  <2>1. i + 1 \in 1..Len(longer) /\ j + 1 \in 1..Len(longer) /\ i + 1 < j + 1
    BY <1>1, <1>4, <1>5
  <2> QED
    BY <1>3, <1>4, <2>1
<1>8. Newest(longer) \in {longer, Tail(longer)}
  BY DEF Newest
<1> QED
  BY <1>2, <1>3, <1>6, <1>7, <1>8 DEF longer

\* An edit, which is newer than every timeline, ends the line of the past and
\* leaves no future (withHistory).
LEMMA WithHistoryLine ==
    ASSUME NEW p \in Panels, NEW last \in Nat, Line(p, last)
    PROVE  Line(WithHistory(p, last + 1), last + 1)
<1>1. p.past \in Seq(Nat) /\ p.timeline \in Nat /\ p.timeline <= last
  BY PanelParts DEF Line
<1>2. PICK q : q = WithHistory(p, last + 1)
  OBVIOUS
<1>3. /\ q.timeline = last + 1 /\ q.past = Newest(Append(p.past, p.timeline)) /\ q.future = <<>>
  BY <1>2 DEF WithHistory, Panels
<1>4. /\ \A i \in 1..Len(q.past) : q.past[i] < last + 1
      /\ \A i, j \in 1..Len(q.past) : i < j => q.past[i] < q.past[j]
  <2>1. p.timeline < last + 1
    BY <1>1
  <2>2. /\ \A i \in 1..Len(p.past) : p.past[i] < p.timeline
        /\ \A i, j \in 1..Len(p.past) : i < j => p.past[i] < p.past[j]
    BY DEF Line
  <2> QED
    <3>1. last + 1 \in Nat
      OBVIOUS
    <3> QED
      BY <1>1, <1>3, <2>1, <2>2, <3>1, NewestLine
<1>5. Line(q, last + 1)
  BY <1>3, <1>4 DEF Line
<1> QED
  BY <1>2, <1>5

\* Undo moves the newest of the past along the line (the "undo" case).
LEMMA UndoneLine ==
    ASSUME NEW p \in Panels, NEW last \in Nat, Line(p, last), p.past /= <<>>
    PROVE  Line(Undone(p), last)
<1>1. /\ p.past \in Seq(Nat) /\ p.future \in Seq(Nat) /\ p.timeline \in Nat
      /\ Len(p.past) \in Nat /\ Len(p.future) \in Nat
      /\ \A i \in 1..Len(p.past) : p.past[i] \in Nat
      /\ \A i \in 1..Len(p.future) : p.future[i] \in Nat
  BY PanelParts
<1>0. Len(p.past) \in 1..Len(p.past)
  BY <1>1
<1>2. /\ Len(Front(p.past)) = Len(p.past) - 1
      /\ \A i \in 1..(Len(p.past) - 1) : Front(p.past)[i] = p.past[i]
      /\ Last(p.past) = p.past[Len(p.past)]
  BY LastAndFront DEF Panels
<1>3. PICK f : f = <<p.timeline>> \o p.future
  OBVIOUS
<1>4. /\ Len(f) = 1 + Len(p.future)
      /\ \A i \in 1..Len(f) : f[i] = IF i = 1 THEN p.timeline ELSE p.future[i - 1]
  <2>1. PICK one : one = <<p.timeline>>
    OBVIOUS
  <2>2. one \in Seq(Nat) /\ Len(one) = 1 /\ one[1] = p.timeline
    BY <1>1, <2>1
  <2>3. /\ Len(f) = 1 + Len(p.future)
        /\ \A i \in 1..(1 + Len(p.future)) : f[i] = IF i <= 1 THEN one[i] ELSE p.future[i - 1]
    BY <1>1, <1>3, <2>1, <2>2, ConcatProperties
  <2>4. \A i \in 1..(1 + Len(p.future)) : i <= 1 <=> i = 1
    OBVIOUS
  <2> QED
    BY <2>2, <2>3, <2>4
<1>5. PICK q : q = Undone(p)
  OBVIOUS
<1>6. q.timeline = p.past[Len(p.past)] /\ q.past = Front(p.past) /\ q.future = f
  BY <1>2, <1>3, <1>5 DEF Undone, Panels
<1>l. /\ p.timeline <= last
      /\ \A i \in 1..Len(p.past) : p.past[i] < p.timeline
      /\ \A i, j \in 1..Len(p.past) : i < j => p.past[i] < p.past[j]
      /\ \A i \in 1..Len(p.future) : p.timeline < p.future[i] /\ p.future[i] <= last
      /\ \A i, j \in 1..Len(p.future) : i < j => p.future[i] < p.future[j]
  BY DEF Line
<1>7. q.timeline <= last /\ q.timeline < p.timeline /\ q.timeline \in Nat
  BY <1>0, <1>1, <1>6, <1>l
<1>8. /\ \A i \in 1..Len(q.past) : q.past[i] < q.timeline
      /\ \A i, j \in 1..Len(q.past) : i < j => q.past[i] < q.past[j]
  <2>1. \A i \in 1..Len(q.past) : i \in 1..Len(p.past) /\ i < Len(p.past) /\ q.past[i] = p.past[i]
    BY <1>1, <1>2, <1>6
  <2> QED
    BY <1>0, <1>6, <1>l, <2>1
<1>9. \A i \in 1..Len(f) : i = 1 \/ i - 1 \in 1..Len(p.future)
  BY <1>1, <1>4
<1>10. \A i \in 1..Len(f) : q.timeline < f[i] /\ f[i] <= last
  <2> TAKE i \in 1..Len(f)
  <2>1. CASE i = 1
    BY <1>4, <1>7, <1>l, <2>1
  <2>2. CASE i /= 1
    <3>1. i - 1 \in 1..Len(p.future) /\ f[i] = p.future[i - 1]
      BY <1>4, <1>9, <2>2
    <3>2. p.timeline < f[i] /\ f[i] <= last /\ f[i] \in Nat
      BY <1>1, <1>l, <3>1
    <3> QED
      BY <1>1, <1>7, <3>2
  <2> QED
    BY <2>1, <2>2
<1>11. \A i, j \in 1..Len(f) : i < j => f[i] < f[j]
  <2> TAKE i, j \in 1..Len(f)
  <2> HAVE i < j
  <2>1. j /= 1 /\ j - 1 \in 1..Len(p.future)
    BY <1>1, <1>4
  <2>2. CASE i = 1
    BY <1>4, <1>l, <2>1, <2>2
  <2>3. CASE i /= 1
    <3>1. i - 1 \in 1..Len(p.future) /\ i - 1 < j - 1
      BY <1>9, <2>3
    <3> QED
      BY <1>4, <1>l, <2>1, <2>3, <3>1
  <2> QED
    BY <2>2, <2>3
<1>12. Line(q, last)
  BY <1>6, <1>7, <1>8, <1>10, <1>11 DEF Line
<1> QED
  BY <1>5, <1>12

\* Redo moves the oldest of the future along the line (the "redo" case).
LEMMA RedoneLine ==
    ASSUME NEW p \in Panels, NEW last \in Nat, Line(p, last), p.future /= <<>>
    PROVE  Line(Redone(p), last)
<1>1. /\ p.past \in Seq(Nat) /\ p.future \in Seq(Nat) /\ p.timeline \in Nat
      /\ Len(p.past) \in Nat /\ Len(p.future) \in Nat
      /\ \A i \in 1..Len(p.past) : p.past[i] \in Nat
      /\ \A i \in 1..Len(p.future) : p.future[i] \in Nat
  BY PanelParts
<1>0. 1 \in 1..Len(p.future)
  BY <1>1
<1>2. /\ Len(Tail(p.future)) = Len(p.future) - 1 /\ Head(p.future) = p.future[1]
      /\ \A i \in 1..(Len(p.future) - 1) : Tail(p.future)[i] = p.future[i + 1]
  BY <1>1
<1>3. PICK h : h = Append(p.past, p.timeline)
  OBVIOUS
<1>4. /\ Len(h) = Len(p.past) + 1
      /\ \A i \in 1..Len(h) : h[i] = IF i <= Len(p.past) THEN p.past[i] ELSE p.timeline
  <2>1. /\ Len(h) = Len(p.past) + 1
        /\ \A i \in 1..Len(h) : \/ i \in 1..Len(p.past) /\ h[i] = p.past[i]
                                \/ i = Len(p.past) + 1 /\ h[i] = p.timeline
    BY <1>1, <1>3, GrownByOne
  <2> QED
    BY <1>1, <2>1
<1>5. PICK q : q = Redone(p)
  OBVIOUS
<1>6. q.timeline = p.future[1] /\ q.past = h /\ q.future = Tail(p.future)
  BY <1>2, <1>3, <1>5 DEF Redone, Panels
<1>l. /\ p.timeline <= last
      /\ \A i \in 1..Len(p.past) : p.past[i] < p.timeline
      /\ \A i, j \in 1..Len(p.past) : i < j => p.past[i] < p.past[j]
      /\ \A i \in 1..Len(p.future) : p.timeline < p.future[i] /\ p.future[i] <= last
      /\ \A i, j \in 1..Len(p.future) : i < j => p.future[i] < p.future[j]
  BY DEF Line
<1>7. q.timeline <= last /\ p.timeline < q.timeline /\ q.timeline \in Nat
  BY <1>0, <1>1, <1>6, <1>l
<1>8. \A i \in 1..Len(q.future) :
        i + 1 \in 1..Len(p.future) /\ 1 < i + 1 /\ q.future[i] = p.future[i + 1]
  <2>1. Len(q.future) = Len(p.future) - 1
    BY <1>2, <1>6
  <2>2. \A i \in 1..Len(q.future) : i \in 1..(Len(p.future) - 1) /\ i + 1 \in 1..Len(p.future) /\ 1 < i + 1
    BY <1>1, <2>1
  <2> QED
    BY <1>2, <1>6, <2>2
<1>9. /\ \A i \in 1..Len(q.future) : q.timeline < q.future[i] /\ q.future[i] <= last
      /\ \A i, j \in 1..Len(q.future) : i < j => q.future[i] < q.future[j]
  <2>1. \A i \in 1..Len(q.future) : q.timeline < q.future[i] /\ q.future[i] <= last
    BY <1>0, <1>6, <1>8, <1>l
  <2>2. ASSUME NEW i \in 1..Len(q.future), NEW j \in 1..Len(q.future), i < j
        PROVE  q.future[i] < q.future[j]
    <3>1. i + 1 < j + 1
      BY <2>2
    <3> QED
      BY <1>8, <1>l, <3>1
  <2> QED
    BY <2>1, <2>2
<1>10. \A i \in 1..Len(h) : h[i] < q.timeline
  <2> TAKE i \in 1..Len(h)
  <2>1. CASE i <= Len(p.past)
    <3>1. i \in 1..Len(p.past) /\ h[i] = p.past[i]
      BY <1>1, <1>4, <2>1
    <3>2. p.past[i] < p.timeline
      BY <1>l, <3>1
    <3> QED
      BY <1>1, <1>7, <3>1, <3>2
  <2>2. CASE ~(i <= Len(p.past))
    BY <1>4, <1>7, <2>2
  <2> QED
    BY <2>1, <2>2
<1>11. \A i, j \in 1..Len(h) : i < j => h[i] < h[j]
  <2> TAKE i, j \in 1..Len(h)
  <2> HAVE i < j
  <2>1. i \in 1..Len(p.past) /\ h[i] = p.past[i]
    BY <1>1, <1>4
  <2>2. CASE j <= Len(p.past)
    <3>1. j \in 1..Len(p.past) /\ h[j] = p.past[j]
      BY <1>1, <1>4, <2>2
    <3> QED
      BY <1>l, <2>1, <3>1
  <2>3. CASE ~(j <= Len(p.past))
    BY <1>4, <1>l, <2>1, <2>3
  <2> QED
    BY <2>2, <2>3
<1>12. Line(q, last)
  BY <1>6, <1>7, <1>9, <1>10, <1>11 DEF Line
<1> QED
  BY <1>5, <1>12

\* A panel that only learns a revision has the line it had, and more edits leave
\* a line one.
LEMMA LineStays ==
    ASSUME NEW p \in Panels, NEW q \in Panels, NEW last \in Nat, NEW more \in Nat, Line(p, last), last <= more,
           q.timeline = p.timeline, q.past = p.past, q.future = p.future
    PROVE  Line(q, more)
<1>1. p.timeline \in Nat /\ \A i \in 1..Len(p.future) : p.future[i] \in Nat
  BY PanelParts
<1> QED
  BY <1>1 DEF Line

\* Every step of the session keeps the lines.
LEMMA LineStep == SessionTypeOK /\ LineInv /\ [SessionNext]_sessionVars => LineInv'
<1> SUFFICES ASSUME SessionTypeOK, LineInv, [SessionNext]_sessionVars PROVE LineInv'
  OBVIOUS
<1>0. /\ panel \in [Editors -> Panels] /\ asked \in [Editors -> Requests]
      /\ revisions \in Seq(Revisions) /\ edits \in Nat /\ Head_ \in Nat
      /\ \A e \in Editors : panel[e] \in Panels /\ asked[e] \in Requests
      /\ \A n \in 1..Head_ : revisions[n] \in Revisions
  BY SessionAssumption DEF SessionTypeOK, Head_
<1>t. /\ \A e \in Editors : asked[e].timeline \in Nat
      /\ \A n \in 1..Head_ : revisions[n].timeline \in Nat
  BY <1>0, SessionAssumption DEF Requests, Revisions, Timelines
<1>l. /\ \A e \in Editors : Line(panel[e], edits) /\ asked[e].timeline <= edits
      /\ \A n \in 1..Head_ : revisions[n].timeline <= edits
  BY DEF LineInv
<1>i. Idle.timeline = 0
  BY DEF Idle
\* A page that is loaded.
<1>1. ASSUME NEW e \in Editors, NEW t \in Nat, t <= edits, Opened(e, Fresh(t)) PROVE LineInv'
  <2>1. /\ panel' = [panel EXCEPT ![e] = Fresh(t)] /\ asked' = [asked EXCEPT ![e] = Idle]
        /\ UNCHANGED <<revisions, edits>>
    BY <1>1 DEF Opened
  <2>2. Line(Fresh(t), edits)
    <3>1. Fresh(t).timeline = t /\ Fresh(t).past = <<>> /\ Fresh(t).future = <<>>
      BY DEF Fresh
    <3> QED
      BY <1>1, <3>1 DEF Line
  <2>3. \A f \in Editors : Line(panel'[f], edits) /\ asked'[f].timeline <= edits
    BY <1>0, <1>i, <1>l, <2>1, <2>2
  <2> QED
    BY <1>l, <2>1, <2>3 DEF LineInv, Head_
<1>2. ASSUME NEW e \in Editors, Open(e) PROVE LineInv'
  <2> DEFINE t == IF Head_ = 0 THEN 0 ELSE revisions[Head_].timeline
  <2>1. t \in Nat /\ t <= edits
    BY <1>0, <1>t, <1>l
  <2> QED
    BY <1>1, <1>2, <2>1 DEF Open
<1>3. ASSUME NEW e \in Editors, OpenWithoutRevision(e) PROVE LineInv'
  BY <1>0, <1>1, <1>3 DEF OpenWithoutRevision
\* A panel that is edited.
<1>4. ASSUME NEW e \in Editors, NEW p, NEW more \in Nat, edits <= more, edits' = more,
             panel' = [panel EXCEPT ![e] = p], Line(p, more), UNCHANGED <<asked, revisions>>
      PROVE  LineInv'
  <2>1. ASSUME NEW f \in Editors PROVE Line(panel'[f], more)
    <3>1. CASE f = e
      BY <1>0, <1>4, <3>1
    <3>2. CASE f /= e
      <4>1. panel'[f] = panel[f]
        BY <1>0, <1>4, <3>2
      <4> QED
        BY <1>0, <1>4, <1>l, <4>1, LineStays
    <3> QED
      BY <3>1, <3>2
  <2>2. /\ \A f \in Editors : asked[f].timeline <= more
        /\ \A n \in 1..Head_ : revisions[n].timeline <= more
    BY <1>0, <1>4, <1>l, <1>t
  <2> QED
    BY <1>4, <2>1, <2>2 DEF LineInv, Head_
<1>5. ASSUME NEW e \in Editors, Edit(e) PROVE LineInv'
  <2>1. Line(WithHistory(panel[e], edits + 1), edits + 1)
    BY <1>0, <1>l, WithHistoryLine
  <2>2. panel' = [panel EXCEPT ![e] = WithHistory(panel[e], edits + 1)]
        /\ edits' = edits + 1 /\ UNCHANGED <<asked, revisions>>
    BY <1>5 DEF Edit
  <2> QED
    <3>1. PICK p : p = WithHistory(panel[e], edits + 1)
      OBVIOUS
    <3>2. edits + 1 \in Nat /\ edits <= edits + 1 /\ edits' = edits + 1
      BY <1>0, <2>2
    <3>3. panel' = [panel EXCEPT ![e] = p] /\ Line(p, edits + 1) /\ UNCHANGED <<asked, revisions>>
      BY <2>1, <2>2, <3>1
    <3> QED
      BY <1>4, <3>2, <3>3
<1>6. ASSUME NEW e \in Editors, Undo(e) PROVE LineInv'
  <2>1. Line(Undone(panel[e]), edits)
    BY <1>0, <1>6, <1>l, UndoneLine DEF Undo
  <2>2. panel' = [panel EXCEPT ![e] = Undone(panel[e])] /\ UNCHANGED <<asked, revisions, edits>>
    BY <1>6 DEF Undo
  <2> QED
    <3>1. PICK p : p = Undone(panel[e])
      OBVIOUS
    <3>2. edits \in Nat /\ edits <= edits /\ edits' = edits
      BY <1>0, <2>2
    <3>3. panel' = [panel EXCEPT ![e] = p] /\ Line(p, edits) /\ UNCHANGED <<asked, revisions>>
      BY <2>1, <2>2, <3>1
    <3> QED
      BY <1>4, <3>2, <3>3
<1>7. ASSUME NEW e \in Editors, Redo(e) PROVE LineInv'
  <2>1. Line(Redone(panel[e]), edits)
    BY <1>0, <1>7, <1>l, RedoneLine DEF Redo
  <2>2. panel' = [panel EXCEPT ![e] = Redone(panel[e])] /\ UNCHANGED <<asked, revisions, edits>>
    BY <1>7 DEF Redo
  <2> QED
    <3>1. PICK p : p = Redone(panel[e])
      OBVIOUS
    <3>2. edits \in Nat /\ edits <= edits /\ edits' = edits
      BY <1>0, <2>2
    <3>3. panel' = [panel EXCEPT ![e] = p] /\ Line(p, edits) /\ UNCHANGED <<asked, revisions>>
      BY <2>1, <2>2, <3>1
    <3> QED
      BY <1>4, <3>2, <3>3
<1>8. ASSUME NEW e \in Editors, NEW kind, Ask(e, kind, panel[e].timeline), UNCHANGED <<panel, revisions, edits>>
      PROVE  LineInv'
  <2>1. \A f \in Editors : asked'[f].timeline \in {asked[f].timeline, panel[e].timeline}
    BY <1>0, <1>8 DEF Ask, Idle
  <2>2. panel[e].timeline <= edits
    BY <1>l DEF Line
  <2>3. \A f \in Editors : asked'[f].timeline <= edits
    BY <1>l, <2>1, <2>2
  <2> QED
    BY <1>8, <1>l, <2>3 DEF LineInv, Head_
<1>9. ASSUME NEW e \in Editors, ApplyCmx(e) PROVE LineInv'
  <2>1. \A f \in Editors : asked'[f].timeline \in {asked[f].timeline, edits + 1}
    BY <1>0, <1>9 DEF ApplyCmx, Ask, Idle
  <2>2. \A f \in Editors : asked'[f].timeline <= edits + 1
    BY <1>0, <1>l, <1>t, <2>1
  <2>3. UNCHANGED <<panel, revisions>> /\ edits' = edits + 1
    BY <1>9 DEF ApplyCmx
  <2>4. \A f \in Editors : Line(panel[f], edits + 1)
    BY <1>0, <1>l, LineStays
  <2>5. \A n \in 1..Head_ : revisions[n].timeline <= edits + 1
    BY <1>0, <1>l, <1>t
  <2> QED
    BY <2>2, <2>3, <2>4, <2>5 DEF LineInv, Head_
<1>10. ASSUME NEW e \in Editors, Serve(e) PROVE LineInv'
  <2>1. UNCHANGED <<panel, edits>> /\ \A f \in Editors : asked'[f].timeline = asked[f].timeline
    <3>1. \A f \in Editors : asked'[f].timeline = asked[f].timeline
      <4>1. asked[e] \in Requests
        BY <1>0
      <4>2. asked'[e].timeline = asked[e].timeline
        <5>1. CASE Current(asked[e].expected)
          BY <1>0, <1>10, <4>1, <5>1 DEF Serve, Requests
        <5>2. CASE ~Current(asked[e].expected)
          BY <1>0, <1>10, <4>1, <5>2 DEF Serve, Requests
        <5> QED
          BY <5>1, <5>2
      <4>3. \A f \in Editors : f /= e => asked'[f] = asked[f]
        BY <1>0, <1>10 DEF Serve
      <4> QED
        BY <4>2, <4>3
    <3> QED
      BY <1>10, <3>1 DEF Serve
  <2>2. PICK r : r = [author |-> e, timeline |-> asked[e].timeline, seen |-> panel[e].seen]
    OBVIOUS
  <2>3. r.timeline <= edits /\ (revisions' = revisions \/ revisions' = Append(revisions, r))
    BY <1>10, <1>l, <2>2 DEF Serve
  <2>4. \A n \in 1..Len(revisions') : revisions'[n] = r \/ (n \in 1..Head_ /\ revisions'[n] = revisions[n])
    BY <1>0, <2>3 DEF Head_
  <2> QED
    BY <1>l, <2>1, <2>3, <2>4 DEF LineInv, Head_
<1>11. ASSUME NEW e \in Editors, Lose(e) PROVE LineInv'
  <2>1. \A f \in Editors : asked'[f].timeline \in {asked[f].timeline, 0}
    BY <1>0, <1>11, <1>i DEF Lose
  <2>2. UNCHANGED <<panel, revisions, edits>>
    BY <1>11 DEF Lose
  <2>3. \A f \in Editors : asked'[f].timeline <= edits
    BY <1>0, <1>l, <2>1
  <2> QED
    BY <1>l, <2>2, <2>3 DEF LineInv, Head_
<1>12. ASSUME NEW e \in Editors, Hear(e) PROVE LineInv'
  <2>1. \A f \in Editors : asked'[f].timeline \in {asked[f].timeline, 0}
    BY <1>0, <1>12, <1>i DEF Hear
  <2>2. UNCHANGED <<revisions, edits>>
    BY <1>12 DEF Hear
  <2>3. \A f \in Editors : asked'[f].timeline <= edits
    BY <1>0, <1>l, <2>1
  <2>4. ASSUME NEW f \in Editors PROVE Line(panel'[f], edits)
    <3>1. /\ panel'[f].timeline = panel[f].timeline /\ panel'[f].past = panel[f].past
          /\ panel'[f].future = panel[f].future
      BY <1>0, <1>12 DEF Hear, Panels
    <3> QED
      BY <1>l, <3>1 DEF Line
  <2> QED
    BY <1>l, <2>2, <2>3, <2>4 DEF LineInv, Head_
<1>13. CASE UNCHANGED sessionVars
  BY <1>l, <1>13 DEF LineInv, sessionVars, Head_
<1> QED
  BY <1>2, <1>3, <1>5, <1>6, <1>7, <1>8, <1>9, <1>10, <1>11, <1>12, <1>13 DEF SessionNext, Save

\* What undo and redo of a panel walk along is one line, in the order of the
\* edits, whatever is saved, loaded, restored and retried in between.
THEOREM HistoriesAreLines == SessionSpec => []HistoryIsALine
<1>1. SessionInit => LineInv
  <2> SUFFICES ASSUME SessionInit PROVE LineInv
    OBVIOUS
  <2>1. \A e \in Editors : panel[e] = Closed /\ asked[e] = Idle
    BY DEF SessionInit
  <2>2. edits = 0 /\ revisions = <<>> /\ Head_ = 0
    BY DEF SessionInit, Head_
  <2>3. Closed.timeline = 0 /\ Closed.past = <<>> /\ Closed.future = <<>> /\ Idle.timeline = 0
    BY DEF Closed, Idle
  <2>4. Line(Closed, 0)
    BY <2>3 DEF Line
  <2> QED
    BY <2>1, <2>2, <2>3, <2>4 DEF LineInv
<1>2. SessionTypeOK /\ LineInv => HistoryIsALine
  <2> SUFFICES ASSUME SessionTypeOK, LineInv, NEW e \in Editors
               PROVE  \A i, j \in DOMAIN History(panel[e]) :
                         i < j => History(panel[e])[i] < History(panel[e])[j]
    BY DEF HistoryIsALine
  <2>1. panel[e] \in Panels /\ edits \in Nat /\ Line(panel[e], edits)
    BY SessionAssumption DEF SessionTypeOK, LineInv
  <2> QED
    BY <2>1, LineIncreases
<1> QED
  BY <1>1, <1>2, LineStep, SessionTypes, PTL DEF SessionSpec

=============================================================================
