------------------------- MODULE UploadClientProofs -------------------------
(***************************************************************************)
(* Proofs about UploadClient, for any number of tabs, files, chunks and    *)
(* sessions: what is resumed is of one file, the loop over its chunks      *)
(* leaves none out, and an interrupted upload is found again.              *)
(***************************************************************************)
EXTENDS UploadClient, SequenceTheorems, WellFoundedInduction, TLAPS

-----------------------------------------------------------------------------
(* The inductive invariant.                                                *)

\* The keys of the resume map.
Prints == {Fingerprint(f) : f \in Files}
\* The steps at which a tab has its session.
AtWork == {"chunk", "complete", "schedule"}

\* What a tab knows of its session: which it is, and what it skips.
Informed(u) ==
    /\ u.step /= "idle" => \E f \in Files : u.file = {f}
    /\ u.id \in 0..Len(session)
    /\ u.step \in AtWork \cup {"status"} => u.id /= 0
    /\ u.step = "create" => (u.id /= 0 <=> u.answer = "ok")
    /\ u.step \in {"idle", "describe", "failed"} => u.id = 0
    /\ u.step = "create" => u.received = {}
    /\ u.step = "status" /\ u.answer /= "ok" => u.received = {}
    /\ u.id /= 0 => u.received \subseteq session[u.id].received

\* Where it is: the server has all chunks before it.
Progress(u) ==
    /\ u.step = "chunk" =>
          /\ u.index < ChunkCount
          /\ 0..(u.index - 1) \subseteq session[u.id].received
          /\ u.answer = "ok" => u.index \in session[u.id].received
    /\ u.step \in {"complete", "schedule"} => session[u.id].received = ChunkIndex

\* What it was told of the end of its session is so.
Settled(u) ==
    /\ u.step = "status" /\ u.answer = "refused" => session[u.id].status /= "pending"
    /\ u.step \in {"complete", "schedule"} /\ u.answer = "ok" => session[u.id].status /= "pending"

\* All of it.
Sound(u) == Informed(u) /\ Progress(u) /\ Settled(u)
TabsAreSound == \A t \in UploadTabs : Sound(upload[t])

\* own: the fingerprint for which a session was made.
Keyed(own) ==
    /\ \A p \in Prints : resume[p] \in 0..Len(session) /\ (resume[p] /= 0 => own[resume[p]] = p)
    /\ \A t \in UploadTabs : upload[t].id /= 0 =>
          \A f \in upload[t].file : own[upload[t].id] = Fingerprint(f)
    /\ \A id \in DOMAIN session :
          /\ \A c \in session[id].stored : Fingerprint(c[2]) = own[id]
          /\ session[id].checksum = {} => \A f \in Files : Fingerprint(f) = own[id] => ~f.hashed

KeyedByPrint == \E own \in [DOMAIN session -> Prints] : Keyed(own)

\* Until two tabs share a fingerprint, no two tabs at work have the same, and the
\* map names the session that a tab works on.
Apart ==
    ~shared => \A t, o \in UploadTabs : t /= o /\ Busy(t) /\ Busy(o) =>
        \A f \in upload[t].file, g \in upload[o].file : Fingerprint(f) /= Fingerprint(g)

Recalled ==
    ~shared => \A t \in UploadTabs : \A f \in upload[t].file :
        /\ upload[t].step \in AtWork \cup {"status"} => resume[Fingerprint(f)] = upload[t].id
        /\ upload[t].step = "create" => resume[Fingerprint(f)] = 0

\* The inductive invariant.  A session is of the fingerprint for which it was
\* made, so what is resumed is of one file; what a tab knows of it is so, because
\* a session only grows.
UploadInv ==
    /\ UploadTypeOK /\ TabsAreSound /\ KeyedByPrint /\ MadeOfOneFile
    /\ Apart /\ Recalled /\ InterruptedIsResumed



-----------------------------------------------------------------------------
(* The search for the next chunk, the files and the rows.                  *)

\* A non-empty set of numbers has a least one.
LEMMA LeastExists ==
    ASSUME NEW S \in SUBSET Nat, S /= {}
    PROVE  \E n \in S : \A m \in S : n <= m
<1> DEFINE R == {p \in Nat \X Nat : p[1] < p[2]}
<1>1. IsWellFoundedOn(R, Nat)
  BY NatLessThanWellFounded, SMT DEF OpToRel
<1>2. PICK n \in S : \A m \in S : ~(<<m, n>> \in R)
  <2> HIDE DEF R
  <2> QED
    BY <1>1, WFMin
<1>3. ASSUME NEW m \in S PROVE n <= m
  <2>1. n \in Nat /\ m \in Nat
    OBVIOUS
  <2>2. m < n => <<m, n>> \in R
    BY <2>1
  <2>3. ~(m < n)
    BY <1>2, <2>2
  <2> QED
    BY <2>1, <2>3
<1> QED
  BY <1>3

\* NextChunk finds the first chunk that the server does not have.
LEMMA NextIsNext ==
    ASSUME NEW i \in 0..ChunkCount, NEW received \in SUBSET ChunkIndex
    PROVE  /\ NextChunk(i, received) \in i..ChunkCount
           /\ i..(NextChunk(i, received) - 1) \subseteq received
<1> DEFINE left == {j \in i..(ChunkCount - 1) : j \notin received}
<1>0. ChunkCount \in Nat /\ i \in Nat /\ i <= ChunkCount
  BY UploadAssumption
<1>1. CASE left = {}
  <2>1. NextChunk(i, received) = ChunkCount
    BY <1>1 DEF NextChunk
  <2> QED
    BY <1>0, <1>1, <2>1
<1>2. CASE left /= {}
  <2>1. left \in SUBSET Nat
    BY <1>0
  <2>2. \E j \in left : \A l \in left : j <= l
    <3> HIDE DEF left
    <3> QED
      BY <1>2, <2>1, LeastExists
  <2>3. PICK n : n = CHOOSE j \in left : \A l \in left : j <= l
    OBVIOUS
  <2>4. n \in left /\ \A l \in left : n <= l
    <3> HIDE DEF left
    <3> QED
      BY <2>2, <2>3
  <2>5. NextChunk(i, received) = n
    BY <1>2, <2>3 DEF NextChunk
  <2>6. ASSUME NEW l \in i..(n - 1) PROVE l \in received
    <3>1. n \in i..(ChunkCount - 1)
      BY <2>4
    <3>2. l \in i..(ChunkCount - 1) /\ ~(n <= l)
      BY <1>0, <3>1
    <3> QED
      BY <2>4, <3>2
  <2>7. n \in i..ChunkCount
    BY <1>0, <2>4
  <2> QED
    BY <2>5, <2>6, <2>7
<1> QED
  BY <1>1, <1>2



\* One tab moves.
LEMMA TabMoves ==
    ASSUME UploadTypeOK, NEW t \in UploadTabs, NEW u \in Uploads, Put(t, u)
    PROVE  /\ upload' \in [UploadTabs -> Uploads] /\ upload'[t] = u
           /\ \A o \in UploadTabs : o /= t => upload'[o] = upload[o]
BY DEF Put, UploadTypeOK

\* One row is written.
LEMMA RowWritten ==
    ASSUME session \in Seq(SessionRows), NEW id \in DOMAIN session, NEW r \in SessionRows,
           session' = [session EXCEPT ![id] = r]
    PROVE  /\ session' \in Seq(SessionRows) /\ Len(session') = Len(session)
           /\ DOMAIN session' = DOMAIN session
           /\ session'[id] = r
           /\ \A j \in DOMAIN session : j /= id => session'[j] = session[j]
<1>1. id \in 1..Len(session) /\ DOMAIN session = 1..Len(session)
  OBVIOUS
<1>2. /\ [session EXCEPT ![id] = r] \in Seq(SessionRows)
      /\ Len([session EXCEPT ![id] = r]) = Len(session)
      /\ \A j \in 1..Len(session) : [session EXCEPT ![id] = r][j] = IF j = id THEN r ELSE session[j]
  BY <1>1, ExceptSeq
<1>3. DOMAIN session' = 1..Len(session')
  BY <1>2
<1> QED
  BY <1>1, <1>2, <1>3

\* A row is added.
LEMMA RowAdded ==
    ASSUME session \in Seq(SessionRows), NEW r \in SessionRows, session' = Append(session, r)
    PROVE  /\ session' \in Seq(SessionRows) /\ Len(session') = Len(session) + 1
           /\ DOMAIN session = 1..Len(session) /\ DOMAIN session' = 1..(Len(session) + 1)
           /\ Len(session) \in Nat
           /\ session'[Len(session) + 1] = r
           /\ \A j \in DOMAIN session : session'[j] = session[j]
<1>1. /\ Append(session, r) \in Seq(SessionRows) /\ Len(Append(session, r)) = Len(session) + 1
      /\ \A j \in 1..Len(session) : Append(session, r)[j] = session[j]
      /\ Append(session, r)[Len(session) + 1] = r
  BY AppendProperties
<1>2. DOMAIN session = 1..Len(session) /\ DOMAIN session' = 1..Len(session') /\ Len(session) \in Nat
  BY <1>1
<1> QED
  BY <1>1, <1>2

\* The types, each on its own.
LEMMA UploadTypes ==
    ASSUME UploadTypeOK
    PROVE  /\ upload \in [UploadTabs -> Uploads] /\ \A t \in UploadTabs : upload[t] \in Uploads
           /\ resume \in [Prints -> SessionIds]
           /\ session \in Seq(SessionRows) /\ Len(session) \in Nat /\ Len(session) <= MaxSessions
           /\ DOMAIN session = 1..Len(session) /\ DOMAIN session \subseteq SessionIds
           /\ \A id \in DOMAIN session :
                 /\ session[id] \in SessionRows
                 /\ session[id].received \subseteq ChunkIndex
                 /\ session[id].stored \subseteq ChunkIndex \X Files
                 /\ session[id].checksum \subseteq Files
                 /\ \A c \in session[id].stored : c[1] \in session[id].received
           /\ ChunkCount \in Nat \ {0} /\ MaxSessions \in Nat
           /\ \A f \in Files : Fingerprint(f) \in Prints
<1>1. session \in Seq(SessionRows) /\ Len(session) \in Nat /\ DOMAIN session = 1..Len(session)
  BY DEF UploadTypeOK
<1>2. \A id \in DOMAIN session : session[id] \in SessionRows
  BY <1>1
<1>3. \A id \in DOMAIN session : \A c \in session[id].stored : c[1] \in session[id].received
  BY DEF UploadTypeOK
<1>4. DOMAIN session \subseteq SessionIds
  BY <1>1, UploadAssumption DEF UploadTypeOK, SessionIds
<1>5. \A id \in DOMAIN session :
                 /\ session[id].received \subseteq ChunkIndex
                 /\ session[id].stored \subseteq ChunkIndex \X Files
                 /\ session[id].checksum \subseteq Files
  BY <1>2 DEF SessionRows
<1> QED
  BY <1>1, <1>2, <1>3, <1>4, <1>5, UploadAssumption DEF UploadTypeOK, Prints

\* The file of a tab that has one.
LEMMA FileOfTab ==
    ASSUME NEW t \in UploadTabs, NEW f, upload[t].file = {f}
    PROVE  FileOf(t) = f /\ PrintOf(t) = Fingerprint(f)
BY DEF FileOf, PrintOf

\* The sessions only grow: no chunk is taken back, and what is over stays over.
Grows ==
    /\ Len(session) <= Len(session')
    /\ \A id \in DOMAIN session :
          /\ session[id].received \subseteq session'[id].received
          /\ session[id].status /= "pending" => session'[id].status /= "pending"

\* Then what a tab knows stays so.
LEMMA SoundStays ==
    ASSUME UploadTypeOK, UploadTypeOK', Grows, NEW u \in Uploads, Sound(u)
    PROVE  Sound(u)'
<1>t. /\ Len(session) \in Nat /\ Len(session') \in Nat /\ Len(session) <= Len(session')
      /\ DOMAIN session = 1..Len(session)
  BY UploadTypes DEF Grows, UploadTypeOK
<1>1. u.id \in 0..Len(session) /\ u.id \in Nat
  BY <1>t DEF Sound, Informed
<1>2. Informed(u)'
  BY <1>t, <1>1 DEF Sound, Informed, Grows
<1>3. u.step \in AtWork \cup {"status"} => u.id \in DOMAIN session
  BY <1>t, <1>1 DEF Sound, Informed
<1>4. Progress(u)'
  <2>1. u.step \in {"complete", "schedule"} => session'[u.id].received = ChunkIndex
    <3>1. \A id \in DOMAIN session' : session'[id].received \subseteq ChunkIndex
      <4>1. session' \in Seq(SessionRows)
        BY DEF UploadTypeOK
      <4>2. \A id \in DOMAIN session' : session'[id] \in SessionRows
        BY <4>1
      <4> QED
        BY <4>2 DEF SessionRows
    <3>2. DOMAIN session \subseteq DOMAIN session'
      <4>1. DOMAIN session' = 1..Len(session')
        BY DEF UploadTypeOK
      <4> QED
        BY <1>t, <4>1
    <3> QED
      BY <1>3, <3>1, <3>2 DEF Sound, Progress, Grows, AtWork
  <2>2. u.step = "chunk" =>
          /\ u.index < ChunkCount
          /\ 0..(u.index - 1) \subseteq session'[u.id].received
          /\ u.answer = "ok" => u.index \in session'[u.id].received
    BY <1>3 DEF Sound, Progress, Grows, AtWork
  <2> QED
    BY <2>1, <2>2 DEF Progress
<1>5. Settled(u)'
  BY <1>3 DEF Sound, Settled, Grows, AtWork
<1> QED
  BY <1>2, <1>4, <1>5 DEF Sound

\* One tab moves, and what it then knows is so.
LEMMA TabsStaySound ==
    ASSUME UploadTypeOK, UploadTypeOK', TabsAreSound, Grows, NEW t \in UploadTabs, NEW u \in Uploads,
           upload'[t] = u, \A o \in UploadTabs : o /= t => upload'[o] = upload[o],
           Sound(u)'
    PROVE  TabsAreSound'
<1> SUFFICES ASSUME NEW o \in UploadTabs PROVE Sound(upload[o])'
  BY DEF TabsAreSound
<1>1. PICK w \in Uploads : w = upload'[o]
  BY DEF UploadTypeOK
<1>2. Sound(w)'
  <2>1. CASE o = t
    <3>1. w = u
      BY <1>1, <2>1
    <3> QED
      BY <3>1 DEF Sound, Informed, Progress, Settled
  <2>2. CASE o /= t
    <3>1. w = upload[o]
      BY <1>1, <2>2
    <3>2. Sound(w)
      BY <3>1 DEF TabsAreSound
    <3> QED
      BY <3>2, SoundStays
  <2> QED
    BY <2>1, <2>2
<1> QED
  BY <1>1, <1>2 DEF Sound, Informed, Progress, Settled

\* Only a tab's own fingerprint gets or loses its session.
LEMMA KeysStay ==
    ASSUME UploadTypeOK, NEW own \in [DOMAIN session -> Prints], Keyed(own),
           Len(session') = Len(session), DOMAIN session' = DOMAIN session,
           \A id \in DOMAIN session :
               /\ session'[id].checksum = session[id].checksum
               /\ \A c \in session'[id].stored : c \in session[id].stored \/ Fingerprint(c[2]) = own[id],
           \A p \in Prints : \/ resume'[p] \in {0, resume[p]}
                             \/ resume'[p] \in DOMAIN session /\ own[resume'[p]] = p,
           \A t \in UploadTabs : \/ upload'[t].id = 0
                                 \/ upload'[t].id = upload[t].id /\ upload'[t].file = upload[t].file
                                 \/ \A f \in upload'[t].file : own[upload'[t].id] = Fingerprint(f)
    PROVE  KeyedByPrint'
<1>1. PICK o \in [DOMAIN session -> Prints] : o = own
  OBVIOUS
<1>2. o \in [DOMAIN session' -> Prints]
  BY <1>1
<1>3. DOMAIN session = 1..Len(session) /\ Len(session) \in Nat
  BY UploadTypes
<1>4. \A p \in Prints : resume'[p] \in 0..Len(session') /\ (resume'[p] /= 0 => o[resume'[p]] = p)
  BY <1>1, <1>3 DEF Keyed
<1>5. \A t \in UploadTabs : upload'[t].id /= 0 =>
          \A f \in upload'[t].file : o[upload'[t].id] = Fingerprint(f)
  BY <1>1 DEF Keyed
<1>6. \A id \in DOMAIN session' :
          /\ \A c \in session'[id].stored : Fingerprint(c[2]) = o[id]
          /\ session'[id].checksum = {} => \A f \in Files : Fingerprint(f) = o[id] => ~f.hashed
  BY <1>1 DEF Keyed
<1>7. Keyed(o)'
  BY <1>4, <1>5, <1>6 DEF Keyed, Prints
<1>8. Prints' = Prints
  BY DEF Prints
<1> QED
  BY <1>2, <1>7, <1>8 DEF KeyedByPrint

\* A session that is consumed was made of one file, or of files too large to hash.
LEMMA WholeIsOne ==
    ASSUME UploadTypeOK, KeyedByPrint, NEW id \in DOMAIN session, IsWhole(session[id])
    PROVE  \A c, d \in session[id].stored :
               c[2] = d[2] \/ (c[2].name = d[2].name /\ c[2].stamp = d[2].stamp /\ ~c[2].hashed)
<1>1. PICK own \in [DOMAIN session -> Prints] : Keyed(own)
  BY DEF KeyedByPrint
<1>2. CASE session[id].checksum = {}
  <2> SUFFICES ASSUME NEW c \in session[id].stored, NEW d \in session[id].stored
               PROVE  c[2].name = d[2].name /\ c[2].stamp = d[2].stamp /\ ~c[2].hashed
    OBVIOUS
  <2>1. Fingerprint(c[2]) = own[id] /\ Fingerprint(d[2]) = own[id] /\ c[2] \in Files
    BY <1>1, UploadTypes DEF Keyed
  <2>2. <<c[2].name, c[2].stamp>> = <<d[2].name, d[2].stamp>>
    BY <2>1 DEF Fingerprint
  <2> QED
    BY <1>1, <1>2, <2>1, <2>2 DEF Keyed
<1>3. CASE session[id].checksum /= {}
  <2>1. PICK f \in session[id].checksum : session[id].stored = {<<i, f>> : i \in ChunkIndex}
    BY <1>3 DEF IsWhole
  <2> QED
    BY <2>1
<1> QED
  BY <1>2, <1>3

-----------------------------------------------------------------------------
(* Steps that leave the sessions alone, and steps that write one.          *)

\* A step that leaves the sessions alone: tab t goes on to u with the file f.
LEMMA TabStep ==
    ASSUME UploadInv, NEW t \in UploadTabs, NEW u \in Uploads, NEW f \in Files, Put(t, u),
           UNCHANGED <<session, made>>, begins' \in 0..MaxBegins, failures' \in 0..MaxFailures,
           shared => shared', forgot => forgot', Sound(u),
           u.file \subseteq {f}, resume' \in [Prints -> SessionIds],
           \A p \in Prints : p /= Fingerprint(f) => resume'[p] = resume[p],
           resume'[Fingerprint(f)] \in {0, resume[Fingerprint(f)], upload[t].id},
           resume'[Fingerprint(f)] /= resume[Fingerprint(f)] => Busy(t) /\ upload[t].file = {f},
           resume'[Fingerprint(f)] /= 0 /\ resume'[Fingerprint(f)] /= resume[Fingerprint(f)] =>
               upload[t].id /= 0,
           u.id \in {0, resume[Fingerprint(f)]} \/ (u.id = upload[t].id /\ upload[t].file = {f}),
           ~shared' /\ u.file = {f} =>
               /\ u.step \in AtWork \cup {"status"} => resume'[Fingerprint(f)] = u.id
               /\ u.step = "create" => resume'[Fingerprint(f)] = 0,
           ~shared' /\ u.step \notin {"idle", "failed"} =>
               \/ Busy(t) /\ upload[t].file = {f}
               \/ \A o \in UploadTabs \ {t} : Busy(o) =>
                     \A g \in upload[o].file : Fingerprint(g) /= Fingerprint(f),
           ~shared' /\ ~forgot' =>
               \/ resume'[Fingerprint(f)] = resume[Fingerprint(f)]
               \/ resume[Fingerprint(f)] = 0
               \/ session[resume[Fingerprint(f)]].status /= "pending"
    PROVE  UploadInv'
<1> DEFINE p == Fingerprint(f)
<1>i. /\ UploadTypeOK /\ TabsAreSound /\ KeyedByPrint /\ MadeOfOneFile
      /\ Apart /\ Recalled /\ InterruptedIsResumed
  BY DEF UploadInv
<1>u. /\ upload' \in [UploadTabs -> Uploads] /\ upload'[t] = u
      /\ \A o \in UploadTabs : o /= t => upload'[o] = upload[o]
  BY <1>i, TabMoves
<1>s. session' = session /\ made' = made
  OBVIOUS
<1>p. p \in Prints
  BY DEF Prints
<1>1. UploadTypeOK'
  BY <1>i, <1>u, <1>s DEF UploadTypeOK, Prints
<1>2. TabsAreSound'
  <2>1. Grows
    BY <1>i, <1>s, UploadTypes DEF Grows
  <2>2. Sound(u)'
    BY <1>s DEF Sound, Informed, Progress, Settled
  <2> QED
    BY <1>i, <1>1, <1>u, <2>1, <2>2, TabsStaySound
<1>3. KeyedByPrint'
  <2>1. PICK own \in [DOMAIN session -> Prints] : Keyed(own)
    BY <1>i DEF KeyedByPrint
  <2>2. /\ Len(session) \in Nat /\ DOMAIN session = 1..Len(session)
        /\ \A id \in 0..Len(session) : id /= 0 => id \in DOMAIN session
    BY <1>i, UploadTypes
  <2>3. upload[t].id \in 0..Len(session)
    BY <1>i DEF TabsAreSound, Sound, Informed
  <2>4. upload[t].id /= 0 /\ upload[t].file = {f} => own[upload[t].id] = p
    BY <2>1 DEF Keyed
  <2>5. resume[p] /= 0 => own[resume[p]] = p
    BY <1>p, <2>1 DEF Keyed
  <2> HIDE DEF p
  <2>6. \A q \in Prints : \/ resume'[q] \in {0, resume[q]}
                          \/ resume'[q] \in DOMAIN session /\ own[resume'[q]] = q
    <3> SUFFICES ASSUME NEW q \in Prints, resume'[q] \notin {0, resume[q]}
                 PROVE  resume'[q] \in DOMAIN session /\ own[resume'[q]] = q
      OBVIOUS
    <3>1. q = p /\ resume'[p] = upload[t].id /\ upload[t].file = {f} /\ upload[t].id /= 0
      BY DEF p
    <3> QED
      BY <2>2, <2>3, <2>4, <3>1
  <2>7. \A o \in UploadTabs : \/ upload'[o].id = 0
                              \/ upload'[o].id = upload[o].id /\ upload'[o].file = upload[o].file
                              \/ \A g \in upload'[o].file : own[upload'[o].id] = Fingerprint(g)
    <3> SUFFICES ASSUME u.id /= 0 PROVE \A g \in u.file : own[u.id] = Fingerprint(g)
      BY <1>u
    <3>1. own[u.id] = p
      BY <2>4, <2>5 DEF p
    <3> QED
      BY <3>1 DEF p
  <2> QED
    BY <1>i, <1>s, <2>1, <2>6, <2>7, KeysStay
<1>4. MadeOfOneFile'
  BY <1>i, <1>s DEF MadeOfOneFile
<1>5. Apart'
  <2> SUFFICES ASSUME ~shared', NEW v \in UploadTabs, NEW o \in UploadTabs, v /= o, Busy(v)', Busy(o)',
                      NEW g \in upload'[v].file, NEW h \in upload'[o].file
               PROVE  Fingerprint(g) /= Fingerprint(h)
    BY DEF Apart
  <2>0. ~shared
    OBVIOUS
  <2>1. \A w \in UploadTabs \ {t} : Busy(w)' <=> Busy(w)
    BY <1>u DEF Busy, Resting
  <2>2. ASSUME NEW w \in UploadTabs \ {t}, Busy(w), NEW k \in upload[w].file, Busy(t)'
        PROVE  Fingerprint(k) /= p
    <3>1. u.step \notin {"idle", "failed"}
      BY <1>u, <2>2 DEF Busy, Resting
    <3>2. CASE Busy(t) /\ upload[t].file = {f}
      BY <1>i, <2>0, <2>2, <3>2 DEF Apart
    <3> QED
      BY <2>2, <3>1, <3>2
  <2>3. CASE v = t
    BY <1>u, <2>1, <2>2, <2>3
  <2>4. CASE o = t
    BY <1>u, <2>1, <2>2, <2>4
  <2>5. CASE v /= t /\ o /= t
    BY <1>i, <1>u, <2>0, <2>1, <2>5 DEF Apart
  <2> QED
    BY <2>3, <2>4, <2>5
<1>6. Recalled'
  <2> SUFFICES ASSUME ~shared', NEW o \in UploadTabs, NEW g \in upload'[o].file
               PROVE  /\ upload'[o].step \in AtWork \cup {"status"} => resume'[Fingerprint(g)] = upload'[o].id
                      /\ upload'[o].step = "create" => resume'[Fingerprint(g)] = 0
    BY DEF Recalled
  <2>1. CASE o = t
    <3>1. g = f /\ u.file = {f}
      BY <1>u, <2>1
    <3> QED
      BY <1>u, <2>1, <3>1
  <2>2. CASE o /= t
    <3>1. /\ g \in upload[o].file /\ upload'[o] = upload[o] /\ ~shared
          /\ upload[o].step \in AtWork \cup {"status"} => resume[Fingerprint(g)] = upload[o].id
          /\ upload[o].step = "create" => resume[Fingerprint(g)] = 0
      BY <1>i, <1>u, <2>2 DEF Recalled
    <3>2. CASE upload[o].step \notin AtWork \cup {"status", "create"}
      BY <3>1, <3>2 
    <3>3. CASE upload[o].step \in AtWork \cup {"status", "create"}
      <4>1. Busy(o)
        BY <3>3 DEF Busy, Resting, AtWork
      <4>2. resume'[p] /= resume[p] => Fingerprint(g) /= p
        BY <1>i, <2>2, <3>1, <4>1 DEF Apart
      <4>3. Fingerprint(g) \in Prints
        <5>1. upload[o] \in Uploads
          BY <1>i, UploadTypes
        <5>2. g \in Files
          BY <3>1, <5>1 DEF Uploads
        <5> QED
          BY <5>2 DEF Prints
      <4>4. resume'[Fingerprint(g)] = resume[Fingerprint(g)]
        BY <4>2, <4>3
      <4> QED
        BY <3>1, <4>4
    <3> QED
      BY <3>2, <3>3
  <2> QED
    BY <2>1, <2>2
<1>7. InterruptedIsResumed'
  <2> SUFFICES ASSUME ~shared', ~forgot', NEW id \in DOMAIN session, session[id].status = "pending",
                      session[id].received /= {}
               PROVE  \E q \in DOMAIN resume' : resume'[q] = id
    BY <1>s DEF InterruptedIsResumed
  <2>1. PICK q \in DOMAIN resume : resume[q] = id
    BY <1>i DEF InterruptedIsResumed
  <2>2. DOMAIN resume = Prints /\ DOMAIN resume' = Prints
    BY <1>i, UploadTypes
  <2>3. id /= 0
    BY <1>i, UploadTypes
  <2>4. resume'[q] = resume[q]
    BY <2>1, <2>2, <2>3
  <2> QED
    BY <2>1, <2>2, <2>4
<1> QED
  BY <1>1, <1>2, <1>3, <1>4, <1>5, <1>6, <1>7 DEF UploadInv

\* A step that writes one row of a session, and at most answers tabs.
LEMMA RowStep ==
    ASSUME UploadInv, NEW id \in DOMAIN session, NEW r \in SessionRows,
           session' = [session EXCEPT ![id] = r],
           UNCHANGED <<resume, shared, forgot>>,
           begins' \in 0..MaxBegins, failures' \in 0..MaxFailures,
           session[id].received \subseteq r.received, r.checksum = session[id].checksum,
           session[id].status /= "pending" => r.status /= "pending",
           \A c \in r.stored :
               /\ c[1] \in r.received
               /\ \/ c \in session[id].stored
                  \/ \E o \in UploadTabs : upload[o].id = id /\ upload[o].file = {c[2]},
           \A chunks \in made' : \/ chunks \in made
                                 \/ chunks = session[id].stored /\ IsWhole(session[id]),
           upload' \in [UploadTabs -> Uploads],
           \A o \in UploadTabs : /\ upload'[o].step = upload[o].step /\ upload'[o].file = upload[o].file
                                 /\ upload'[o].id = upload[o].id
                                 /\ upload'[o] = upload[o] \/ Sound(upload[o])',
           r.status = "pending" /\ r.received /= {} =>
               \/ session[id].status = "pending" /\ session[id].received /= {}
               \/ \E o \in UploadTabs : upload[o].step \in AtWork /\ upload[o].id = id
    PROVE  UploadInv'
<1>i. /\ UploadTypeOK /\ TabsAreSound /\ KeyedByPrint /\ MadeOfOneFile
      /\ Apart /\ Recalled /\ InterruptedIsResumed
  BY DEF UploadInv
<1>t. /\ session \in Seq(SessionRows) /\ Len(session) \in Nat /\ DOMAIN session = 1..Len(session)
      /\ \A j \in DOMAIN session : session[j] \in SessionRows
      /\ \A j \in DOMAIN session : /\ session[j].stored \subseteq ChunkIndex \X Files
                                   /\ \A c \in session[j].stored : c[1] \in session[j].received
      /\ resume \in [Prints -> SessionIds]
  BY <1>i, UploadTypes
<1>s. /\ session' \in Seq(SessionRows) /\ Len(session') = Len(session)
      /\ DOMAIN session' = DOMAIN session
      /\ session'[id] = r
      /\ \A j \in DOMAIN session : j /= id => session'[j] = session[j]
  BY <1>t, RowWritten
<1>1. UploadTypeOK'
  <2>1. \A j \in DOMAIN session' : {c[1] : c \in session'[j].stored} \subseteq session'[j].received
    BY <1>t, <1>s
  <2>2. \A c \in made' : c \subseteq ChunkIndex \X Files
    BY <1>i, <1>t DEF UploadTypeOK
  <2> QED
    BY <1>i, <1>t, <1>s, <2>1, <2>2 DEF UploadTypeOK
<1>2. Grows
  BY <1>t, <1>s DEF Grows
<1>3. TabsAreSound'
  <2> SUFFICES ASSUME NEW o \in UploadTabs, upload'[o] = upload[o] PROVE Sound(upload[o])'
    BY DEF TabsAreSound
  <2>1. PICK w \in Uploads : w = upload[o]
    BY <1>i, UploadTypes
  <2>2. Sound(w)
    BY <1>i, <2>1 DEF TabsAreSound
  <2>3. Sound(w)'
    BY <1>i, <1>1, <1>2, <2>2, SoundStays
  <2> QED
    BY <2>1, <2>3 DEF Sound, Informed, Progress, Settled
<1>4. KeyedByPrint'
  <2>1. PICK own \in [DOMAIN session -> Prints] : Keyed(own)
    BY <1>i DEF KeyedByPrint
  <2>2. \A c \in r.stored : c \in session[id].stored \/ Fingerprint(c[2]) = own[id]
    <3> SUFFICES ASSUME NEW c \in r.stored,
                        NEW o \in UploadTabs, upload[o].id = id, upload[o].file = {c[2]}
                 PROVE  Fingerprint(c[2]) = own[id]
      OBVIOUS
    <3>1. id /= 0
      BY <1>t
    <3> QED
      BY <2>1, <3>1 DEF Keyed
  <2>3. \A j \in DOMAIN session :
            /\ session'[j].checksum = session[j].checksum
            /\ \A c \in session'[j].stored : c \in session[j].stored \/ Fingerprint(c[2]) = own[j]
    BY <1>s, <2>2
  <2>4. \A p \in Prints : resume'[p] \in {0, resume[p]}
    OBVIOUS
  <2> QED
    BY <1>i, <1>s, <2>1, <2>3, <2>4, KeysStay
<1>5. MadeOfOneFile'
  <2>1. IsWhole(session[id]) =>
           \A c, d \in session[id].stored :
               c[2] = d[2] \/ (c[2].name = d[2].name /\ c[2].stamp = d[2].stamp /\ ~c[2].hashed)
    BY <1>i, WholeIsOne
  <2> QED
    BY <1>i, <2>1 DEF MadeOfOneFile
<1>6. Apart'
  BY <1>i DEF Apart, Busy, Resting
<1>7. Recalled'
  BY <1>i DEF Recalled
<1>8. InterruptedIsResumed'
  <2> SUFFICES ASSUME ~shared, ~forgot, NEW j \in DOMAIN session, session'[j].status = "pending",
                      session'[j].received /= {}
               PROVE  \E p \in DOMAIN resume : resume[p] = j
    BY <1>s DEF InterruptedIsResumed
  <2>1. CASE session[j].status = "pending" /\ session[j].received /= {}
    BY <1>i, <2>1 DEF InterruptedIsResumed
  <2>2. CASE ~(session[j].status = "pending" /\ session[j].received /= {})
    <3>1. j = id
      BY <1>s, <2>2
    <3>2. PICK o \in UploadTabs : upload[o].step \in AtWork /\ upload[o].id = id
      BY <1>s, <2>2, <3>1
    <3>3. upload[o].step /= "idle"
      BY <3>2 DEF AtWork
    <3>4. PICK f \in Files : upload[o].file = {f}
      BY <1>i, <3>3 DEF TabsAreSound, Sound, Informed
    <3>5. resume[Fingerprint(f)] = id
      BY <1>i, <3>2, <3>4 DEF Recalled
    <3>6. Fingerprint(f) \in DOMAIN resume
      BY <1>t DEF Prints
    <3> QED
      BY <3>1, <3>5, <3>6
  <2> QED
    BY <2>1, <2>2
<1> QED
  BY <1>1, <1>3, <1>4, <1>5, <1>6, <1>7, <1>8 DEF UploadInv

\* A session is opened, and the tab hears of it or does not.
LEMMA CreateStep ==
    ASSUME UploadInv, NEW t \in UploadTabs, ServeCreate(t)
    PROVE  UploadInv'
<1>i. /\ UploadTypeOK /\ TabsAreSound /\ KeyedByPrint /\ MadeOfOneFile
      /\ Apart /\ Recalled /\ InterruptedIsResumed
  BY DEF UploadInv
<1>t. /\ session \in Seq(SessionRows) /\ Len(session) \in Nat /\ DOMAIN session = 1..Len(session)
      /\ resume \in [Prints -> SessionIds] /\ upload[t] \in Uploads /\ MaxSessions \in Nat
      /\ begins \in 0..MaxBegins /\ failures \in 0..MaxFailures /\ MaxFailures \in Nat
  BY <1>i, UploadTypes, UploadAssumption DEF UploadTypeOK
<1>a. /\ upload[t].step = "create" /\ upload[t].answer = "none" /\ Len(session) < MaxSessions
      /\ UNCHANGED <<resume, made, begins, shared, forgot>>
  BY DEF ServeCreate, Asked
<1>f. PICK f \in Files : upload[t].file = {f}
  BY <1>i, <1>a DEF TabsAreSound, Sound, Informed
<1>r. PICK r : r = [status |-> "pending", received |-> {}, stored |-> {},
                    checksum |-> IF f.hashed THEN {f} ELSE {}]
  OBVIOUS
<1>n. PICK n : n = Len(session) + 1
  OBVIOUS
<1>g. FileOf(t) = f /\ session' = Append(session, r)
  BY <1>f, <1>r, FileOfTab DEF ServeCreate
<1>s. /\ r \in SessionRows /\ r.status = "pending" /\ r.received = {} /\ r.stored = {}
      /\ r.checksum = IF f.hashed THEN {f} ELSE {}
  BY <1>r DEF SessionRows
<1>v. /\ session' \in Seq(SessionRows) /\ Len(session') = n
      /\ DOMAIN session = 1..Len(session) /\ DOMAIN session' = 1..n
      /\ session'[n] = r
      /\ \A j \in DOMAIN session : session'[j] = session[j]
  BY <1>t, <1>g, <1>s, <1>n, RowAdded
<1>m. n \in SessionIds /\ n /= 0 /\ n \in Nat /\ n <= MaxSessions /\ n \notin DOMAIN session
  BY <1>t, <1>a, <1>n DEF SessionIds
<1>w. PICK u \in Uploads : /\ Put(t, u)
                           /\ u.step = "create" /\ u.file = {f} /\ u.received = upload[t].received
                           /\ \/ u.answer = "ok" /\ u.id = n
                              \/ u.answer = "lost" /\ u.id = upload[t].id
                           /\ failures' \in 0..MaxFailures
  <2>1. CASE Put(t, [upload[t] EXCEPT !.answer = "ok", !.id = Len(session) + 1]) /\ UNCHANGED failures
    <3>1. PICK w : w = [upload[t] EXCEPT !.answer = "ok", !.id = n]
      OBVIOUS
    <3>2. w \in Uploads /\ w.step = "create" /\ w.file = {f} /\ w.received = upload[t].received
          /\ w.answer = "ok" /\ w.id = n
      BY <1>t, <1>a, <1>f, <1>m, <3>1 DEF Uploads
    <3> QED
      BY <1>t, <1>n, <2>1, <3>1, <3>2
  <2>2. CASE failures < MaxFailures /\ failures' = failures + 1 /\ Answer(t, "lost")
    <3>1. PICK w : w = [upload[t] EXCEPT !.answer = "lost"]
      OBVIOUS
    <3>2. w \in Uploads /\ w.step = "create" /\ w.file = {f} /\ w.received = upload[t].received
          /\ w.answer = "lost" /\ w.id = upload[t].id
      BY <1>t, <1>a, <1>f, <3>1 DEF Uploads
    <3>3. failures' \in 0..MaxFailures
      BY <1>t, <2>2
    <3> QED
      BY <2>2, <3>1, <3>2, <3>3 DEF Answer
  <2> QED
    BY <2>1, <2>2 DEF ServeCreate
<1>u. /\ upload' \in [UploadTabs -> Uploads] /\ upload'[t] = u
      /\ \A o \in UploadTabs : o /= t => upload'[o] = upload[o]
  BY <1>i, <1>w, TabMoves
<1>k. upload[t].id = 0 /\ upload[t].received = {}
  BY <1>i, <1>a DEF TabsAreSound, Sound, Informed
<1>1. UploadTypeOK'
  <2>1. \A j \in DOMAIN session' : {c[1] : c \in session'[j].stored} \subseteq session'[j].received
    <3>1. \A j \in DOMAIN session' : j \in DOMAIN session \/ j = n
      BY <1>t, <1>v, <1>n
    <3> QED
      BY <1>i, <1>s, <1>v, <3>1 DEF UploadTypeOK
  <2> QED
    BY <1>i, <1>a, <1>u, <1>v, <1>m, <1>w, <2>1 DEF UploadTypeOK
<1>2. Grows
  BY <1>t, <1>v, <1>n DEF Grows
<1>3. TabsAreSound'
  <2>1. Sound(u)'
    <3>1. Informed(u)'
      <4>1. u.id \in 0..Len(session')
        BY <1>v, <1>m, <1>w, <1>k
      <4>2. u.id /= 0 <=> u.answer = "ok"
        BY <1>w, <1>k, <1>m
      <4> QED
        BY <1>w, <1>k, <4>1, <4>2 DEF Informed, AtWork
    <3> QED
      BY <1>w, <3>1 DEF Sound, Progress, Settled
  <2> QED
    BY <1>i, <1>1, <1>2, <1>u, <2>1, TabsStaySound
<1>4. KeyedByPrint'
  <2>1. PICK own \in [DOMAIN session -> Prints] : Keyed(own)
    BY <1>i DEF KeyedByPrint
  <2>2. PICK new : new = [j \in 1..n |-> IF j = n THEN Fingerprint(f) ELSE own[j]]
    OBVIOUS
  <2>3. /\ new \in [1..n -> Prints] /\ new[n] = Fingerprint(f)
        /\ \A j \in DOMAIN session : new[j] = own[j]
    <3>1. \A j \in 1..n : j = n \/ j \in DOMAIN session
      BY <1>t, <1>n
    <3>2. n \in 1..n /\ \A j \in DOMAIN session : j \in 1..n /\ j /= n
      BY <1>t, <1>n
    <3>3. Fingerprint(f) \in Prints
      BY DEF Prints
    <3> QED
      BY <2>2, <3>1, <3>2, <3>3
  <2>4. \A p \in Prints : resume[p] \in 0..n /\ (resume[p] /= 0 => new[resume[p]] = p)
    <3> SUFFICES ASSUME NEW p \in Prints
                 PROVE  resume[p] \in 0..n /\ (resume[p] /= 0 => new[resume[p]] = p)
      OBVIOUS
    <3>1. resume[p] \in 0..Len(session) /\ (resume[p] /= 0 => own[resume[p]] = p)
      BY <2>1 DEF Keyed
    <3>2. resume[p] \in 0..n /\ (resume[p] /= 0 => resume[p] \in DOMAIN session)
      BY <1>t, <1>n, <3>1
    <3> QED
      BY <2>3, <3>1, <3>2
  <2>5. \A o \in UploadTabs : upload'[o].id /= 0 =>
            \A g \in upload'[o].file : new[upload'[o].id] = Fingerprint(g)
    <3>1. \A o \in UploadTabs : upload[o].id \in 0..Len(session)
      BY <1>i DEF TabsAreSound, Sound, Informed
    <3>2. \A o \in UploadTabs : upload[o].id /= 0 => upload[o].id \in DOMAIN session
      BY <1>t, <3>1
    <3>3. \A o \in UploadTabs : upload[o].id /= 0 =>
              \A g \in upload[o].file : new[upload[o].id] = Fingerprint(g)
      BY <2>1, <2>3, <3>2 DEF Keyed
    <3>4. u.id /= 0 => \A g \in u.file : new[u.id] = Fingerprint(g)
      BY <1>w, <1>k, <2>3
    <3> QED
      BY <1>u, <3>3, <3>4
  <2>6. \A j \in DOMAIN session' :
          /\ \A c \in session'[j].stored : Fingerprint(c[2]) = new[j]
          /\ session'[j].checksum = {} => \A g \in Files : Fingerprint(g) = new[j] => ~g.hashed
    <3> SUFFICES ASSUME NEW j \in DOMAIN session'
                 PROVE  /\ \A c \in session'[j].stored : Fingerprint(c[2]) = new[j]
                        /\ session'[j].checksum = {} =>
                               \A g \in Files : Fingerprint(g) = new[j] => ~g.hashed
      OBVIOUS
    <3>1. CASE j \in DOMAIN session
      <4>1. session'[j] = session[j] /\ new[j] = own[j]
        BY <1>v, <2>3, <3>1
      <4> QED
        BY <2>1, <3>1, <4>1 DEF Keyed
    <3>2. CASE j = n
      <4>1. session'[j] = r /\ new[j] = Fingerprint(f)
        BY <1>v, <2>3, <3>2
      <4>2. r.checksum = {} => ~f.hashed
        BY <1>s
      <4>3. ASSUME NEW g \in Files, Fingerprint(g) = Fingerprint(f) PROVE g.hashed = f.hashed
        <5>1. <<g.name, g.stamp>> = <<f.name, f.stamp>>
          BY <4>3 DEF Fingerprint
        <5> QED
          BY <5>1, UploadAssumption
      <4> QED
        BY <1>s, <4>1, <4>2, <4>3
    <3>3. j \in DOMAIN session \/ j = n
      BY <1>t, <1>v, <1>n
    <3> QED
      BY <3>1, <3>2, <3>3
  <2>7. Keyed(new)'
    BY <1>a, <1>v, <2>4, <2>5, <2>6 DEF Keyed, Prints
  <2>8. Prints' = Prints /\ DOMAIN session' = 1..n
    BY <1>v DEF Prints
  <2> QED
    BY <2>3, <2>7, <2>8 DEF KeyedByPrint
<1>5. MadeOfOneFile'
  BY <1>i, <1>a DEF MadeOfOneFile
<1>b. /\ \A o \in UploadTabs : upload'[o].file = upload[o].file /\ upload'[o].step = upload[o].step
      /\ \A o \in UploadTabs : upload[o].step /= "create" => upload'[o].id = upload[o].id
  BY <1>a, <1>f, <1>u, <1>w
<1>6. Apart'
  BY <1>i, <1>a, <1>b DEF Apart, Busy, Resting
<1>7. Recalled'
  BY <1>i, <1>a, <1>b DEF Recalled, AtWork
<1>8. InterruptedIsResumed'
  <2>1. \A j \in DOMAIN session' : j \in DOMAIN session \/ j = n
    BY <1>t, <1>v, <1>n
  <2> QED
    BY <1>i, <1>a, <1>s, <1>v, <2>1 DEF InterruptedIsResumed
<1> QED
  BY <1>1, <1>3, <1>4, <1>5, <1>6, <1>7, <1>8 DEF UploadInv

-----------------------------------------------------------------------------
(* The steps of a tab.                                                     *)

\* What an upload that starts is, and one that rests.
LEMMA NoUploadIs ==
    /\ NoUpload \in Uploads /\ NoUpload.step = "idle" /\ NoUpload.file = {} /\ NoUpload.id = 0
    /\ NoUpload.received = {} /\ NoUpload.answer = "none"
BY UploadAssumption DEF NoUpload, Uploads, Steps, SessionIds, ChunkIndex

\* A tab goes on from chunk i, when the server has all before it.
LEMMA ContinueSound ==
    ASSUME UploadTypeOK, NEW w \in Uploads, NEW i \in 0..ChunkCount, NEW f \in Files, w.file = {f},
           Informed(w), w.id /= 0, 0..(i - 1) \subseteq session[w.id].received
    PROVE  /\ Continue(w, i) \in Uploads /\ Sound(Continue(w, i))
           /\ Continue(w, i).step \in AtWork /\ Continue(w, i).id = w.id
           /\ Continue(w, i).file = {f}
<1> DEFINE step == IF IsChunk(i) THEN "chunk" ELSE IF w.scheduled THEN "schedule" ELSE "complete"
<1>1. PICK u : u = Continue(w, i)
  OBVIOUS
<1>2. /\ u \in Uploads /\ u.step = step /\ u.id = w.id /\ u.file = {f} /\ u.index = i
      /\ u.received = w.received /\ u.answer = "none"
  BY <1>1 DEF Continue, Uploads, Steps
<1>3. Informed(u)
  BY <1>2 DEF Informed, AtWork
<1>4. w.id \in DOMAIN session
  BY UploadTypes DEF Informed
<1>5. Progress(u)
  <2>1. CASE IsChunk(i)
    BY <1>2, <2>1 DEF Progress, IsChunk
  <2>2. CASE ~IsChunk(i)
    <3>1. i = ChunkCount
      BY <2>2, UploadAssumption DEF IsChunk
    <3>2. session[w.id].received = ChunkIndex
      BY <1>4, <3>1, UploadTypes DEF ChunkIndex
    <3> QED
      BY <1>2, <2>2, <3>2 DEF Progress
  <2> QED
    BY <2>1, <2>2
<1>6. Settled(u)
  BY <1>2 DEF Settled
<1> QED
  BY <1>1, <1>2, <1>3, <1>5, <1>6 DEF Sound, AtWork

\* A tab at work gives up, is closed, or describes its record.
LEMMA RestStep ==
    ASSUME UploadInv, NEW t \in UploadTabs, Busy(t), NEW u \in Uploads, Put(t, u),
           u.step \in {"idle", "failed", "describe"}, u.id = 0,
           u.file = upload[t].file \/ (u.file = {} /\ u.step = "idle"),
           UNCHANGED <<session, made, resume, shared, forgot>>,
           begins' \in 0..MaxBegins, failures' \in 0..MaxFailures
    PROVE  UploadInv'
<1>i. UploadTypeOK /\ TabsAreSound
  BY DEF UploadInv
<1>1. PICK f \in Files : upload[t].file = {f}
  BY <1>i DEF TabsAreSound, Sound, Informed, Busy, Resting
<1>2. resume \in [Prints -> SessionIds] /\ Len(session) \in Nat
  BY <1>i, UploadTypes
<1>3. Sound(u)
  BY <1>1, <1>2 DEF Sound, Informed, Progress, Settled, AtWork
<1> QED
  BY <1>1, <1>2, <1>3, TabStep DEF AtWork

\* A call of the tab is answered, or is not.
LEMMA AnswerStep ==
    ASSUME UploadInv, NEW t \in UploadTabs, Busy(t), NEW u \in Uploads, Put(t, u), Sound(u),
           u.step = upload[t].step, u.id = upload[t].id, u.file = upload[t].file,
           UNCHANGED <<session, made, resume, shared, forgot>>,
           begins' \in 0..MaxBegins, failures' \in 0..MaxFailures
    PROVE  UploadInv'
<1>i. UploadTypeOK /\ TabsAreSound /\ Recalled
  BY DEF UploadInv
<1>1. PICK f \in Files : upload[t].file = {f}
  BY <1>i DEF TabsAreSound, Sound, Informed, Busy, Resting
<1>2. resume \in [Prints -> SessionIds]
  BY <1>i, UploadTypes
<1>3. ~shared => /\ u.step \in AtWork \cup {"status"} => resume[Fingerprint(f)] = u.id
                 /\ u.step = "create" => resume[Fingerprint(f)] = 0
  BY <1>i, <1>1 DEF Recalled
<1> QED
  BY <1>1, <1>2, <1>3, TabStep

\* An upload starts from what the map says (stageUploadSession).
LEMMA StageStep ==
    ASSUME UploadInv, NEW t \in UploadTabs, NEW f \in Files, NEW scheduled \in BOOLEAN,
           Resting(t), StageUpload(t, f, scheduled),
           UNCHANGED <<resume, session, made, failures, forgot>>, begins' \in 0..MaxBegins
    PROVE  UploadInv'
<1>i. UploadTypeOK /\ TabsAreSound /\ KeyedByPrint
  BY DEF UploadInv
<1>t. resume \in [Prints -> SessionIds] /\ Fingerprint(f) \in Prints /\ failures \in 0..MaxFailures
  BY <1>i, UploadTypes DEF UploadTypeOK
<1>1. PICK u : u = [NoUpload EXCEPT !.step = IF resume[Fingerprint(f)] = 0 THEN "create" ELSE "status",
                                    !.file = {f}, !.scheduled = scheduled, !.id = resume[Fingerprint(f)]]
  OBVIOUS
<1>2. /\ u \in Uploads /\ u.file = {f} /\ u.id = resume[Fingerprint(f)]
      /\ u.step = IF resume[Fingerprint(f)] = 0 THEN "create" ELSE "status"
      /\ u.received = {} /\ u.answer = "none"
  <2> HIDE DEF NoUpload
  <2> QED
    BY <1>t, <1>1, NoUploadIs DEF Uploads, Steps
<1>3. Put(t, u)
  BY <1>1 DEF StageUpload
<1>4. Sound(u)
  <2>1. u.id \in 0..Len(session)
    BY <1>i, <1>t, <1>2 DEF KeyedByPrint, Keyed
  <2> QED
    BY <1>2, <2>1 DEF Sound, Informed, Progress, Settled, AtWork
<1>5. ~shared' => \A o \in UploadTabs \ {t} : Busy(o) =>
          \A g \in upload[o].file : Fingerprint(g) /= Fingerprint(f)
  <2> SUFFICES ASSUME ~shared', NEW o \in UploadTabs \ {t}, Busy(o), NEW g \in upload[o].file
               PROVE  Fingerprint(g) /= Fingerprint(f)
    OBVIOUS
  <2>1. upload[o].file = {g}
    BY <1>i DEF TabsAreSound, Sound, Informed, Busy, Resting
  <2>2. PrintOf(o) = Fingerprint(g)
    BY <2>1, FileOfTab
  <2> QED
    BY <2>2 DEF StageUpload
<1>6. (shared => shared') /\ UNCHANGED resume
  BY DEF StageUpload
<1> QED
  BY <1>t, <1>2, <1>3, <1>4, <1>5, <1>6, TabStep DEF AtWork

\* handleSubmit starts an upload.
LEMMA BeginStep ==
    ASSUME UploadInv, NEW t \in UploadTabs, NEW f \in Files, NEW scheduled \in BOOLEAN,
           BeginUpload(t, f, scheduled)
    PROVE  UploadInv'
<1>1. begins' \in 0..MaxBegins
  BY UploadAssumption DEF BeginUpload, UploadInv, UploadTypeOK
<1> QED
  BY <1>1, StageStep DEF BeginUpload

\* retryFailedFiles starts one again.
LEMMA RetryStep ==
    ASSUME UploadInv, NEW t \in UploadTabs, NEW scheduled \in BOOLEAN, RetryUpload(t, scheduled)
    PROVE  UploadInv'
<1>1. begins' \in 0..MaxBegins
  BY UploadAssumption DEF RetryUpload, UploadInv, UploadTypeOK
<1>2. PICK f \in Files : upload[t].file = {f}
  BY DEF RetryUpload, UploadInv, TabsAreSound, Sound, Informed
<1>3. FileOf(t) = f
  BY <1>2, FileOfTab
<1> QED
  BY <1>1, <1>3, StageStep DEF RetryUpload, Resting

\* A page that is closed leaves its upload, and the map, as they are.
LEMMA LeaveStep ==
    ASSUME UploadInv, NEW t \in UploadTabs, LeavePage(t)
    PROVE  UploadInv'
<1>1. failures' \in 0..MaxFailures /\ begins' \in 0..MaxBegins
  BY UploadAssumption DEF LeavePage, UploadInv, UploadTypeOK
<1> HIDE DEF NoUpload
<1> QED
  BY <1>1, RestStep, NoUploadIs DEF LeavePage

\* An upload fails, and keeps its file for another try.
LEMMA FailStep ==
    ASSUME UploadInv, NEW t \in UploadTabs, Busy(t), Fail(t),
           UNCHANGED <<session, made, resume, begins, failures, shared, forgot>>
    PROVE  UploadInv'
<1>t. upload[t] \in Uploads /\ begins \in 0..MaxBegins /\ failures \in 0..MaxFailures
  BY UploadTypes DEF UploadInv, UploadTypeOK
<1>1. PICK u : u = [NoUpload EXCEPT !.step = "failed", !.file = upload[t].file,
                                    !.scheduled = upload[t].scheduled]
  OBVIOUS
<1>2. u \in Uploads /\ u.step = "failed" /\ u.file = upload[t].file /\ u.id = 0
  <2> HIDE DEF NoUpload
  <2> QED
    BY <1>t, <1>1, NoUploadIs DEF Uploads, Steps
<1>3. Put(t, u)
  BY <1>1 DEF Fail
<1> QED
  BY <1>t, <1>2, <1>3, RestStep

\* The record is described, or is not.
LEMMA DescribeStep ==
    ASSUME UploadInv, NEW t \in UploadTabs, Describe(t)
    PROVE  UploadInv'
<1>1. Busy(t)
  BY DEF Describe, Busy, Resting
<1>2. begins \in 0..MaxBegins /\ failures \in 0..MaxFailures
  BY DEF UploadInv, UploadTypeOK
<1>3. CASE Put(t, NoUpload)
  <2> HIDE DEF NoUpload
  <2> QED
    BY <1>1, <1>2, <1>3, RestStep, NoUploadIs DEF Describe
<1>4. CASE Fail(t)
  BY <1>1, <1>4, FailStep DEF Describe
<1> QED
  BY <1>3, <1>4 DEF Describe

\* What holds of a tab at work.
LEMMA TabAtWork ==
    ASSUME UploadInv, NEW t \in UploadTabs, Busy(t)
    PROVE  /\ upload[t] \in Uploads /\ Sound(upload[t])
           /\ \E f \in Files : upload[t].file = {f} /\ FileOf(t) = f /\ PrintOf(t) = Fingerprint(f)
           /\ upload[t].id \in 0..Len(session)
           /\ upload[t].id /= 0 => upload[t].id \in DOMAIN session
           /\ begins \in 0..MaxBegins /\ failures \in 0..MaxFailures /\ MaxFailures \in Nat
<1>i. UploadTypeOK /\ TabsAreSound
  BY DEF UploadInv
<1>1. upload[t] \in Uploads /\ Sound(upload[t])
  BY <1>i, UploadTypes DEF TabsAreSound
<1>2. PICK f \in Files : upload[t].file = {f}
  BY <1>1 DEF Sound, Informed, Busy, Resting
<1>3. FileOf(t) = f /\ PrintOf(t) = Fingerprint(f)
  BY <1>2, FileOfTab
<1>4. upload[t].id \in 0..Len(session) /\ Len(session) \in Nat /\ DOMAIN session = 1..Len(session)
  BY <1>i, <1>1, UploadTypes DEF Sound, Informed
<1> QED
  BY <1>i, <1>1, <1>2, <1>3, <1>4, UploadAssumption DEF UploadTypeOK

\* The session that the map named goes on; one that is over is forgotten.
LEMMA HearStatusStep ==
    ASSUME UploadInv, NEW t \in UploadTabs, HearStatus(t)
    PROVE  UploadInv'
<1>i. UploadTypeOK /\ Recalled
  BY DEF UploadInv
<1>0. Busy(t) /\ upload[t].step = "status" /\ upload[t].answer /= "none"
  BY DEF HearStatus, Busy, Resting
<1>w. PICK w : w = upload[t]
  OBVIOUS
<1>t. /\ w \in Uploads /\ Sound(w) /\ begins \in 0..MaxBegins /\ failures \in 0..MaxFailures
      /\ w.id \in DOMAIN session /\ w.id /= 0 /\ w.step = "status"
  BY <1>0, <1>w, TabAtWork DEF Sound, Informed
<1>f. PICK f \in Files : w.file = {f} /\ PrintOf(t) = Fingerprint(f)
  BY <1>0, <1>w, TabAtWork
<1>r. /\ resume \in [Prints -> SessionIds] /\ Fingerprint(f) \in Prints /\ 0 \in SessionIds
      /\ w.id \in SessionIds
  BY <1>i, <1>t, UploadTypes, UploadAssumption DEF SessionIds
<1>k. ~shared => resume[Fingerprint(f)] = w.id
  BY <1>i, <1>w, <1>t, <1>f DEF Recalled
<1>1. CASE w.answer = "ok"
  <2>1. PICK n : n = FirstChunk(w.received)
    OBVIOUS
  <2>2. n \in 0..ChunkCount /\ 0..(n - 1) \subseteq w.received
    <3>1. w.received \in SUBSET ChunkIndex /\ 0 \in 0..ChunkCount
      BY <1>t, UploadAssumption DEF Uploads
    <3> QED
      BY <2>1, <3>1, NextIsNext DEF FirstChunk
  <2>3. 0..(n - 1) \subseteq session[w.id].received
    BY <1>t, <2>2 DEF Sound, Informed
  <2>4. PICK u : u = Continue(w, n)
    OBVIOUS
  <2>5. u \in Uploads /\ Sound(u) /\ u.step \in AtWork /\ u.id = w.id /\ u.file = {f}
    BY <1>i, <1>t, <1>f, <2>2, <2>3, <2>4, ContinueSound DEF Sound
  <2>6. /\ Put(t, u) /\ resume' = [resume EXCEPT ![Fingerprint(f)] = w.id]
        /\ UNCHANGED <<session, made, begins, failures, shared, forgot>>
    BY <1>w, <1>f, <1>1, <2>1, <2>4 DEF HearStatus, Remember
  <2>7. /\ resume' \in [Prints -> SessionIds] /\ resume'[Fingerprint(f)] = w.id
        /\ \A p \in Prints : p /= Fingerprint(f) => resume'[p] = resume[p]
    BY <1>r, <2>6
  <2> QED
    BY <1>0, <1>w, <1>t, <1>f, <1>k, <2>5, <2>6, <2>7, TabStep DEF AtWork
<1>2. CASE w.answer /= "ok"
  <2>1. PICK u : u = [w EXCEPT !.step = "create", !.answer = "none", !.id = 0]
    OBVIOUS
  <2>2. /\ u \in Uploads /\ u.step = "create" /\ u.answer = "none" /\ u.id = 0 /\ u.file = {f}
        /\ u.received = {}
    BY <1>t, <1>f, <1>r, <1>2, <2>1 DEF Sound, Informed, Uploads, Steps
  <2>3. Sound(u)
    <3>1. Len(session) \in Nat
      BY <1>i, UploadTypes
    <3> QED
      BY <2>2, <3>1 DEF Sound, Informed, Progress, Settled, AtWork
  <2>4. /\ Put(t, u) /\ resume' = [resume EXCEPT ![Fingerprint(f)] = 0]
        /\ UNCHANGED <<session, made, begins, failures, shared>>
        /\ forgot' = (forgot \/ w.answer = "lost")
    BY <1>w, <1>f, <1>2, <2>1 DEF HearStatus, Remember
  <2>5. /\ resume' \in [Prints -> SessionIds] /\ resume'[Fingerprint(f)] = 0
        /\ \A p \in Prints : p /= Fingerprint(f) => resume'[p] = resume[p]
    BY <1>r, <2>4
  <2>6. ~forgot' => w.answer = "refused"
    BY <1>0, <1>w, <1>t, <1>2, <2>4 DEF Uploads
  <2>7. ~forgot' => session[w.id].status /= "pending"
    BY <1>t, <2>6 DEF Sound, Settled
  <2> QED
    BY <1>0, <1>w, <1>t, <1>f, <1>k, <2>2, <2>3, <2>4, <2>5, <2>7, TabStep DEF AtWork
<1> QED
  BY <1>1, <1>2

\* A new session is remembered before its first chunk.
LEMMA HearCreateStep ==
    ASSUME UploadInv, NEW t \in UploadTabs, HearCreate(t)
    PROVE  UploadInv'
<1>i. UploadTypeOK /\ Recalled
  BY DEF UploadInv
<1>0. Busy(t) /\ upload[t].step = "create" /\ upload[t].answer /= "none"
  BY DEF HearCreate, Busy, Resting
<1>w. PICK w : w = upload[t]
  OBVIOUS
<1>t. /\ w \in Uploads /\ Sound(w) /\ begins \in 0..MaxBegins /\ failures \in 0..MaxFailures
      /\ w.step = "create" /\ w.received = {} /\ (w.id /= 0 => w.id \in DOMAIN session)
  BY <1>0, <1>w, TabAtWork DEF Sound, Informed
<1>f. PICK f \in Files : w.file = {f} /\ PrintOf(t) = Fingerprint(f)
  BY <1>0, <1>w, TabAtWork
<1>1. CASE w.answer = "ok"
  <2>0. w.id \in DOMAIN session /\ w.id /= 0
    BY <1>t, <1>1 DEF Sound, Informed
  <2>r. /\ resume \in [Prints -> SessionIds] /\ Fingerprint(f) \in Prints /\ w.id \in SessionIds
    BY <1>i, <2>0, UploadTypes
  <2>1. PICK n : n = FirstChunk(w.received)
    OBVIOUS
  <2>2. n \in 0..ChunkCount /\ 0..(n - 1) \subseteq w.received
    <3>1. w.received \in SUBSET ChunkIndex /\ 0 \in 0..ChunkCount
      BY <1>t, UploadAssumption DEF Uploads
    <3> QED
      BY <2>1, <3>1, NextIsNext DEF FirstChunk
  <2>3. 0..(n - 1) \subseteq session[w.id].received
    BY <1>t, <2>2
  <2>4. PICK u : u = Continue(w, n)
    OBVIOUS
  <2>5. u \in Uploads /\ Sound(u) /\ u.step \in AtWork /\ u.id = w.id /\ u.file = {f}
    BY <1>i, <1>t, <1>f, <2>0, <2>2, <2>3, <2>4, ContinueSound DEF Sound
  <2>6. /\ Put(t, u) /\ resume' = [resume EXCEPT ![Fingerprint(f)] = w.id]
        /\ UNCHANGED <<session, made, begins, failures, shared, forgot>>
    BY <1>w, <1>f, <1>1, <2>1, <2>4 DEF HearCreate, OpenedSaved, Remember
  <2>7. /\ resume' \in [Prints -> SessionIds] /\ resume'[Fingerprint(f)] = w.id
        /\ \A p \in Prints : p /= Fingerprint(f) => resume'[p] = resume[p]
    BY <2>r, <2>6
  <2>8. ~shared => resume[Fingerprint(f)] = 0
    BY <1>i, <1>w, <1>t, <1>f DEF Recalled
  <2> QED
    BY <1>0, <1>w, <1>t, <1>f, <2>0, <2>5, <2>6, <2>7, <2>8, TabStep DEF AtWork
<1>2. CASE w.answer /= "ok"
  BY <1>0, <1>w, <1>2, FailStep DEF HearCreate
<1> QED
  BY <1>1, <1>2

\* The loop goes on past what the server has.
LEMMA HearChunkStep ==
    ASSUME UploadInv, NEW t \in UploadTabs, HearChunk(t)
    PROVE  UploadInv'
<1>i. UploadTypeOK /\ Recalled
  BY DEF UploadInv
<1>0. Busy(t) /\ upload[t].step = "chunk" /\ upload[t].answer /= "none"
  BY DEF HearChunk, Busy, Resting
<1>w. PICK w : w = upload[t]
  OBVIOUS
<1>t. /\ w \in Uploads /\ Sound(w) /\ begins \in 0..MaxBegins /\ failures \in 0..MaxFailures
      /\ w.step = "chunk" /\ w.id /= 0
  BY <1>0, <1>w, TabAtWork DEF Sound, Informed, AtWork
<1>f. PICK f \in Files : w.file = {f}
  BY <1>0, <1>w, TabAtWork
<1>1. CASE w.answer = "ok"
  <2>0. /\ w.index \in 0..ChunkCount /\ w.index < ChunkCount /\ ChunkCount \in Nat
        /\ 0..(w.index - 1) \subseteq session[w.id].received
        /\ w.index \in session[w.id].received
        /\ w.received \subseteq session[w.id].received /\ w.received \in SUBSET ChunkIndex
    BY <1>t, <1>1, UploadAssumption DEF Sound, Informed, Progress, Uploads
  <2>1. PICK n : n = NextChunk(w.index + 1, w.received)
    OBVIOUS
  <2>2. n \in (w.index + 1)..ChunkCount /\ (w.index + 1)..(n - 1) \subseteq w.received
    <3>1. w.index + 1 \in 0..ChunkCount
      BY <2>0
    <3> QED
      BY <2>0, <2>1, <3>1, NextIsNext
  <2>3. ASSUME NEW j \in 0..(n - 1) PROVE j \in session[w.id].received
    <3>1. j \in 0..(w.index - 1) \/ j = w.index \/ j \in (w.index + 1)..(n - 1)
      BY <2>0, <2>2
    <3> QED
      BY <2>0, <2>2, <3>1
  <2>4. PICK u : u = Continue(w, n)
    OBVIOUS
  <2>5. u \in Uploads /\ Sound(u) /\ u.step \in AtWork /\ u.id = w.id /\ u.file = {f}
    <3>1. n \in 0..ChunkCount /\ 0..(n - 1) \subseteq session[w.id].received
      BY <2>0, <2>2, <2>3
    <3> QED
      BY <1>i, <1>t, <1>f, <2>4, <3>1, ContinueSound DEF Sound
  <2>6. /\ Put(t, u) /\ UNCHANGED <<session, made, resume, begins, failures, shared, forgot>>
    BY <1>w, <1>1, <2>1, <2>4 DEF HearChunk
  <2>7. resume \in [Prints -> SessionIds]
    BY <1>i, UploadTypes
  <2>8. ~shared => resume[Fingerprint(f)] = w.id
    BY <1>i, <1>w, <1>t, <1>f DEF Recalled, AtWork
  <2> QED
    BY <1>0, <1>w, <1>t, <1>f, <2>5, <2>6, <2>7, <2>8, TabStep DEF AtWork
<1>2. CASE w.answer /= "ok"
  BY <1>0, <1>w, <1>2, FailStep DEF HearChunk
<1> QED
  BY <1>1, <1>2

\* A session is forgotten once it is consumed.
LEMMA HearConsumedStep ==
    ASSUME UploadInv, NEW t \in UploadTabs, HearConsumed(t)
    PROVE  UploadInv'
<1>i. UploadTypeOK /\ Recalled
  BY DEF UploadInv
<1>0. Busy(t) /\ upload[t].step \in {"complete", "schedule"} /\ upload[t].answer /= "none"
  BY DEF HearConsumed, Busy, Resting
<1>w. PICK w : w = upload[t]
  OBVIOUS
<1>t. /\ w \in Uploads /\ Sound(w) /\ begins \in 0..MaxBegins /\ failures \in 0..MaxFailures
      /\ w.step \in {"complete", "schedule"} /\ w.id /= 0
  BY <1>0, <1>w, TabAtWork DEF Sound, Informed, AtWork
<1>f. PICK f \in Files : w.file = {f} /\ PrintOf(t) = Fingerprint(f)
  BY <1>0, <1>w, TabAtWork
<1>1. CASE w.answer = "ok"
  <2>1. PICK u \in Uploads :
            /\ Put(t, u) /\ u.id = 0 /\ u.step \in {"idle", "describe"}
            /\ u.file = {} \/ u.file = {f}
            /\ u.step = "describe" => u.file = {f}
    <3>1. CASE w.scheduled
      <4> HIDE DEF NoUpload
      <4> QED
        BY <1>w, <1>1, <3>1, NoUploadIs DEF HearConsumed
    <3>2. CASE ~w.scheduled
      <4>1. PICK u : u = [NoUpload EXCEPT !.step = "describe", !.file = w.file]
        OBVIOUS
      <4>2. u \in Uploads /\ u.step = "describe" /\ u.file = {f} /\ u.id = 0
        <5> HIDE DEF NoUpload
        <5> QED
          BY <1>f, <1>t, <4>1, NoUploadIs DEF Uploads, Steps
      <4>3. Put(t, u)
        BY <1>w, <1>1, <3>2, <4>1 DEF HearConsumed
      <4> QED
        BY <4>2, <4>3
    <3> QED
      BY <3>1, <3>2
  <2>2. /\ resume' = [resume EXCEPT ![Fingerprint(f)] = 0]
        /\ UNCHANGED <<session, made, begins, failures, shared, forgot>>
    BY <1>w, <1>f, <1>1 DEF HearConsumed, Remember
  <2>3. /\ resume \in [Prints -> SessionIds] /\ Fingerprint(f) \in Prints /\ 0 \in SessionIds
        /\ Len(session) \in Nat
    BY <1>i, UploadTypes, UploadAssumption DEF SessionIds
  <2>4. /\ resume' \in [Prints -> SessionIds] /\ resume'[Fingerprint(f)] = 0
        /\ \A p \in Prints : p /= Fingerprint(f) => resume'[p] = resume[p]
    BY <2>2, <2>3
  <2>5. ~shared => resume[Fingerprint(f)] = w.id
    BY <1>i, <1>w, <1>t, <1>f DEF Recalled, AtWork
  <2>6. session[w.id].status /= "pending"
    BY <1>t, <1>1 DEF Sound, Settled
  <2>7. Sound(u)
    BY <2>1, <2>3 DEF Sound, Informed, Progress, Settled, AtWork
  <2> QED
    BY <1>0, <1>w, <1>t, <1>f, <2>1, <2>2, <2>4, <2>5, <2>6, <2>7, TabStep DEF AtWork
<1>2. CASE w.answer /= "ok"
  BY <1>0, <1>w, <1>2, FailStep DEF HearConsumed
<1> QED
  BY <1>1, <1>2

-----------------------------------------------------------------------------
(* The server.                                                             *)

\* A call that asks for nothing more than what the tab knows is lost or refused.
LEMMA RefusedStep ==
    ASSUME UploadInv, NEW t \in UploadTabs,
           Busy(t), upload[t].answer = "none",
           NEW answer \in {"refused", "lost"}, Answer(t, answer),
           answer = "refused" /\ upload[t].step = "status" => Row(t).status /= "pending",
           UNCHANGED <<session, made, resume, begins, shared, forgot>>, failures' \in 0..MaxFailures
    PROVE  UploadInv'
<1>w. PICK w : w = upload[t]
  OBVIOUS
<1>t. w \in Uploads /\ Sound(w) /\ begins \in 0..MaxBegins /\ w.answer = "none"
  BY <1>w, TabAtWork
<1>1. PICK u : u = [w EXCEPT !.answer = answer]
  OBVIOUS
<1>2. /\ u \in Uploads /\ u.answer = answer /\ u.step = w.step /\ u.file = w.file
      /\ u.id = w.id /\ u.received = w.received /\ u.index = w.index
  BY <1>t, <1>1 DEF Uploads
<1>3. Put(t, u)
  BY <1>w, <1>1 DEF Answer
<1>4. Sound(u)
  <2>1. Informed(u)
    BY <1>t, <1>2 DEF Sound, Informed
  <2>2. Progress(u)
    BY <1>t, <1>2 DEF Sound, Progress
  <2>3. Settled(u)
    BY <1>w, <1>t, <1>2 DEF Settled, Row
  <2> QED
    BY <2>1, <2>2, <2>3 DEF Sound
<1> QED
  BY <1>w, <1>t, <1>2, <1>3, <1>4, AnswerStep

\* A call does not reach the server.
LEMMA CallFailsStep ==
    ASSUME UploadInv, NEW t \in UploadTabs, CallFails(t)
    PROVE  UploadInv'
<1>1. Busy(t)
  BY DEF CallFails, Busy, Resting
<1>2. failures' \in 0..MaxFailures
  BY <1>1, TabAtWork DEF CallFails
<1> QED
  BY <1>1, <1>2, RefusedStep DEF CallFails

\* A pending session is told with its chunks.
LEMMA ServeStatusStep ==
    ASSUME UploadInv, NEW t \in UploadTabs, ServeStatus(t)
    PROVE  UploadInv'
<1>i. UploadTypeOK
  BY DEF UploadInv
<1>0. Busy(t) /\ upload[t].step = "status" /\ upload[t].answer = "none"
  BY DEF ServeStatus, Asked, Busy, Resting
<1>w. PICK w : w = upload[t]
  OBVIOUS
<1>t. /\ w \in Uploads /\ Sound(w) /\ begins \in 0..MaxBegins /\ failures \in 0..MaxFailures
      /\ w.step = "status" /\ w.answer = "none" /\ w.id /= 0 /\ w.id \in DOMAIN session
  BY <1>0, <1>w, TabAtWork DEF Sound, Informed
<1>1. CASE Row(t).status = "pending"
  <2>1. PICK u : u = [w EXCEPT !.answer = "ok", !.received = session[w.id].received]
    OBVIOUS
  <2>2. session[w.id].received \subseteq ChunkIndex
    BY <1>i, <1>t, UploadTypes
  <2>3. /\ u \in Uploads /\ u.answer = "ok" /\ u.step = "status" /\ u.file = w.file
        /\ u.id = w.id /\ u.received = session[w.id].received
    BY <1>t, <2>1, <2>2 DEF Uploads
  <2>4. Sound(u)
    BY <1>t, <2>3 DEF Sound, Informed, Progress, Settled, AtWork
  <2>5. Put(t, u) /\ UNCHANGED <<resume, session, made, begins, failures, shared, forgot>>
    BY <1>w, <1>1, <2>1 DEF ServeStatus, Row
  <2> QED
    BY <1>0, <1>w, <1>t, <2>3, <2>4, <2>5, AnswerStep
<1>2. CASE Row(t).status /= "pending"
  BY <1>0, <1>t, <1>2, RefusedStep DEF ServeStatus
<1> QED
  BY <1>1, <1>2

\* A call that is served: the row becomes r, and the tab hears answer or nothing.
LEMMA ServedStep ==
    ASSUME UploadInv, NEW t \in UploadTabs,
           upload[t].step \in AtWork, upload[t].answer = "none",
           NEW answer \in {"ok", "refused"}, Reaches(t, answer),
           NEW r \in SessionRows, session' = [session EXCEPT ![upload[t].id] = r],
           UNCHANGED <<resume, begins, shared, forgot>>,
           Row(t).received \subseteq r.received, r.checksum = Row(t).checksum,
           Row(t).status /= "pending" => r.status /= "pending",
           \A c \in r.stored :
               /\ c[1] \in r.received
               /\ c \in Row(t).stored \/ upload[t].file = {c[2]},
           \A chunks \in made' : \/ chunks \in made
                                 \/ chunks = Row(t).stored /\ IsWhole(Row(t)),
           upload[t].step = "chunk" /\ answer = "ok" => upload[t].index \in r.received,
           upload[t].step \in {"complete", "schedule"} /\ answer = "ok" => r.status /= "pending"
    PROVE  UploadInv'
<1>i. UploadTypeOK
  BY DEF UploadInv
<1>0. Busy(t)
  BY DEF AtWork, Busy, Resting
<1>w. PICK w : w = upload[t]
  OBVIOUS
<1>t. /\ w \in Uploads /\ Sound(w) /\ begins \in 0..MaxBegins /\ failures \in 0..MaxFailures
      /\ MaxFailures \in Nat
      /\ w.step \in AtWork /\ w.answer = "none" /\ w.id /= 0 /\ w.id \in DOMAIN session
  BY <1>0, <1>w, TabAtWork DEF Sound, Informed
<1>1. PICK got \in {"ok", "refused", "lost"} :
          /\ Answer(t, got) /\ failures' \in 0..MaxFailures
          /\ got = "ok" => answer = "ok"
  <2>1. CASE Answer(t, answer) /\ UNCHANGED failures
    BY <1>t, <2>1
  <2>2. CASE failures < MaxFailures /\ failures' = failures + 1 /\ Answer(t, "lost")
    BY <1>t, <2>2
  <2> QED
    BY <2>1, <2>2 DEF Reaches
<1>2. PICK u : u = [w EXCEPT !.answer = got]
  OBVIOUS
<1>3. /\ u \in Uploads /\ u.answer = got /\ u.step = w.step /\ u.file = w.file
      /\ u.id = w.id /\ u.received = w.received /\ u.index = w.index
  BY <1>t, <1>1, <1>2 DEF Uploads
<1>4. Put(t, u)
  BY <1>w, <1>1, <1>2 DEF Answer
<1>5. /\ upload' \in [UploadTabs -> Uploads] /\ upload'[t] = u
      /\ \A o \in UploadTabs : o /= t => upload'[o] = upload[o]
  BY <1>i, <1>3, <1>4, TabMoves
<1>6. /\ session \in Seq(SessionRows) /\ Len(session) \in Nat /\ DOMAIN session = 1..Len(session)
      /\ session[w.id].received \subseteq ChunkIndex
  BY <1>i, <1>t, UploadTypes
<1>7. session' = [session EXCEPT ![w.id] = r]
  BY <1>w
<1>8. Len(session') = Len(session) /\ session'[w.id] = r
  BY <1>t, <1>6, <1>7, RowWritten
<1>9. Sound(u)'
  <2>1. session[w.id].received \subseteq r.received /\ r.received \subseteq ChunkIndex
    BY <1>w DEF Row, SessionRows
  <2>2. Informed(u)'
    BY <1>t, <1>3, <1>8, <2>1 DEF Sound, Informed, AtWork
  <2>3. Progress(u)'
    <3>1. CASE w.step = "chunk"
      <4>1. /\ w.index < ChunkCount /\ 0..(w.index - 1) \subseteq session[w.id].received
            /\ got = "ok" => w.index \in r.received
        BY <1>w, <1>t, <1>1, <3>1 DEF Sound, Progress
      <4> QED
        BY <1>3, <1>8, <2>1, <3>1, <4>1 DEF Progress
    <3>2. CASE w.step \in {"complete", "schedule"}
      <4>1. session[w.id].received = ChunkIndex
        BY <1>t, <3>2 DEF Sound, Progress
      <4>2. r.received = ChunkIndex
        BY <2>1, <4>1
      <4> QED
        BY <1>3, <1>8, <3>2, <4>2 DEF Progress
    <3> QED
      BY <1>t, <3>1, <3>2 DEF AtWork
  <2>4. Settled(u)'
    BY <1>w, <1>t, <1>1, <1>3, <1>8 DEF Settled, AtWork
  <2> QED
    BY <2>2, <2>3, <2>4 DEF Sound
<1>10. Sound(upload[t])'
  BY <1>5, <1>9 DEF Sound, Informed, Progress, Settled
<1>11. \A o \in UploadTabs : /\ upload'[o].step = upload[o].step /\ upload'[o].file = upload[o].file
                             /\ upload'[o].id = upload[o].id
                             /\ upload'[o] = upload[o] \/ Sound(upload[o])'
  BY <1>w, <1>3, <1>5, <1>10
<1>12. r.status = "pending" /\ r.received /= {} =>
               \E o \in UploadTabs : upload[o].step \in AtWork /\ upload[o].id = w.id
  BY <1>w
<1>13. \A c \in r.stored :
               /\ c[1] \in r.received
               /\ \/ c \in session[w.id].stored
                  \/ \E o \in UploadTabs : upload[o].id = w.id /\ upload[o].file = {c[2]}
  BY <1>w DEF Row
<1>14. /\ session[w.id].received \subseteq r.received /\ r.checksum = session[w.id].checksum
       /\ session[w.id].status /= "pending" => r.status /= "pending"
       /\ \A chunks \in made' : \/ chunks \in made
                                \/ chunks = session[w.id].stored /\ IsWhole(session[w.id])
  BY <1>w DEF Row
<1> QED
  BY <1>t, <1>1, <1>5, <1>7, <1>11, <1>12, <1>13, <1>14, RowStep

\* A chunk is stored over the one on disk.
LEMMA ServeChunkStep ==
    ASSUME UploadInv, NEW t \in UploadTabs, ServeChunk(t)
    PROVE  UploadInv'
<1>i. UploadTypeOK
  BY DEF UploadInv
<1>0. Busy(t) /\ upload[t].step = "chunk" /\ upload[t].answer = "none"
  BY DEF ServeChunk, Asked, Busy, Resting
<1>t. /\ upload[t] \in Uploads /\ Sound(upload[t]) /\ upload[t].id \in DOMAIN session
      /\ failures \in 0..MaxFailures
  BY <1>0, TabAtWork DEF Sound, Informed, AtWork
<1>f. PICK f \in Files : upload[t].file = {f} /\ FileOf(t) = f
  BY <1>0, TabAtWork
<1>1. CASE Row(t).status = "pending"
  <2>1. PICK r : r = [Row(t) EXCEPT
                   !.received = @ \cup {upload[t].index},
                   !.stored = {c \in @ : c[1] /= upload[t].index} \cup {<<upload[t].index, FileOf(t)>>}]
    OBVIOUS
  <2>2. /\ Row(t) \in SessionRows /\ \A c \in Row(t).stored : c[1] \in Row(t).received
    BY <1>i, <1>t, UploadTypes DEF Row
  <2>3. upload[t].index \in ChunkIndex
    BY <1>0, <1>t, UploadAssumption DEF Sound, Progress, Uploads, ChunkIndex
  <2>4. /\ r \in SessionRows /\ r.status = "pending" /\ r.checksum = Row(t).checksum
        /\ r.received = Row(t).received \cup {upload[t].index}
        /\ r.stored = {c \in Row(t).stored : c[1] /= upload[t].index} \cup {<<upload[t].index, f>>}
    <3>1. PICK stored : stored = {c \in Row(t).stored : c[1] /= upload[t].index} \cup {<<upload[t].index, f>>}
      OBVIOUS
    <3>2. PICK received : received = Row(t).received \cup {upload[t].index}
      OBVIOUS
    <3>3. r = [Row(t) EXCEPT !.received = received, !.stored = stored]
      BY <1>f, <2>1, <3>1, <3>2
    <3>4. stored \subseteq ChunkIndex \X Files /\ received \subseteq ChunkIndex
      BY <2>2, <2>3, <3>1, <3>2 DEF SessionRows
    <3>5. /\ r \in SessionRows /\ r.status = "pending" /\ r.checksum = Row(t).checksum
          /\ r.received = received /\ r.stored = stored
      BY <1>1, <2>2, <3>3, <3>4 DEF SessionRows
    <3> QED
      BY <3>1, <3>2, <3>5
  <2>5. /\ session' = [session EXCEPT ![upload[t].id] = r] /\ Reaches(t, "ok")
        /\ UNCHANGED <<resume, made, begins, shared, forgot>>
    <3>1. session' = [session EXCEPT ![upload[t].id] = r]
      BY <1>1, <2>1 DEF ServeChunk
    <3>2. Reaches(t, "ok") /\ UNCHANGED <<resume, made, begins, shared, forgot>>
      BY <1>1 DEF ServeChunk
    <3> QED
      BY <3>1, <3>2
  <2>6. \A c \in r.stored : /\ c[1] \in r.received
                            /\ c \in Row(t).stored \/ upload[t].file = {c[2]}
    BY <1>f, <2>2, <2>4
  <2> QED
    BY <1>0, <1>1, <2>4, <2>5, <2>6, ServedStep DEF AtWork
<1>2. CASE Row(t).status /= "pending"
  BY <1>0, <1>t, <1>2, RefusedStep DEF ServeChunk
<1> QED
  BY <1>1, <1>2

\* complete() makes a record of a whole session, and aborts another.
LEMMA ServeCompleteStep ==
    ASSUME UploadInv, NEW t \in UploadTabs, ServeComplete(t)
    PROVE  UploadInv'
<1>i. UploadTypeOK
  BY DEF UploadInv
<1>0. Busy(t) /\ upload[t].step = "complete" /\ upload[t].answer = "none"
  BY DEF ServeComplete, Asked, Busy, Resting
<1>t. /\ upload[t].id \in DOMAIN session /\ failures \in 0..MaxFailures
  BY <1>0, TabAtWork DEF Sound, Informed, AtWork
<1>1. CASE Consumable(t)
  <2>1. PICK r : r = [Row(t) EXCEPT !.stored = {},
                         !.status = IF IsWhole(Row(t)) THEN "completed" ELSE "aborted"]
    OBVIOUS
  <2>2. Row(t) \in SessionRows
    BY <1>i, <1>t, UploadTypes DEF Row
  <2>3. /\ r \in SessionRows /\ r.status /= "pending" /\ r.checksum = Row(t).checksum
        /\ r.received = Row(t).received /\ r.stored = {}
    BY <2>1, <2>2 DEF SessionRows
  <2>4. /\ session' = [session EXCEPT ![upload[t].id] = r]
        /\ made' = IF IsWhole(Row(t)) THEN made \cup {Row(t).stored} ELSE made
        /\ Reaches(t, IF IsWhole(Row(t)) THEN "ok" ELSE "refused")
        /\ UNCHANGED <<resume, begins, shared, forgot>>
    BY <1>1, <2>1 DEF ServeComplete, Row
  <2>5. PICK answer \in {"ok", "refused"} : Reaches(t, answer)
    BY <2>4
  <2>6. \A chunks \in made' : chunks \in made \/ (chunks = Row(t).stored /\ IsWhole(Row(t)))
    BY <2>4
  <2> QED
    BY <1>0, <2>3, <2>4, <2>5, <2>6, ServedStep DEF AtWork
<1>2. CASE ~Consumable(t)
  BY <1>0, <1>t, <1>2, RefusedStep DEF ServeComplete
<1> QED
  BY <1>1, <1>2

\* create() of ScheduledUploadsController stages a whole session.
LEMMA ServeScheduleStep ==
    ASSUME UploadInv, NEW t \in UploadTabs, ServeSchedule(t)
    PROVE  UploadInv'
<1>i. UploadTypeOK
  BY DEF UploadInv
<1>0. Busy(t) /\ upload[t].step = "schedule" /\ upload[t].answer = "none"
  BY DEF ServeSchedule, Asked, Busy, Resting
<1>t. /\ upload[t].id \in DOMAIN session /\ failures \in 0..MaxFailures
  BY <1>0, TabAtWork DEF Sound, Informed, AtWork
<1>r. /\ Row(t) \in SessionRows /\ Row(t) = session[upload[t].id]
      /\ session \in Seq(SessionRows) /\ \A c \in Row(t).stored : c[1] \in Row(t).received
  BY <1>i, <1>t, UploadTypes DEF Row
<1>1. CASE Row(t).status = "staged"
  <2>1. Reaches(t, "ok") /\ UNCHANGED <<session, made, resume, begins, shared, forgot>>
    BY <1>1 DEF ServeSchedule, Consumable
  <2>2. session' = [session EXCEPT ![upload[t].id] = Row(t)]
    BY <1>r, <2>1
  <2> QED
    BY <1>0, <1>1, <1>r, <2>1, <2>2, ServedStep DEF AtWork
<1>2. CASE Row(t).status /= "staged" /\ Consumable(t)
  <2> DEFINE whole == IsWhole(Row(t)) /\ Row(t).stored /= {}
  <2>1. PICK r : r = [Row(t) EXCEPT !.stored = {}, !.status = IF whole THEN "staged" ELSE "pending"]
    OBVIOUS
  <2>2. /\ r \in SessionRows /\ r.checksum = Row(t).checksum
        /\ r.status = IF whole THEN "staged" ELSE "pending"
        /\ r.received = Row(t).received /\ r.stored = {} /\ Row(t).status = "pending"
    BY <1>r, <1>2, <2>1 DEF SessionRows, Consumable
  <2>3. /\ session' = [session EXCEPT ![upload[t].id] = r]
        /\ made' = IF whole THEN made \cup {Row(t).stored} ELSE made
        /\ Reaches(t, IF whole THEN "ok" ELSE "refused")
        /\ UNCHANGED <<resume, begins, shared, forgot>>
    BY <1>2, <2>1 DEF ServeSchedule, Row
  <2>4. PICK answer \in {"ok", "refused"} : Reaches(t, answer) /\ (answer = "ok" => whole)
    BY <2>3
  <2>5. \A chunks \in made' : chunks \in made \/ (chunks = Row(t).stored /\ IsWhole(Row(t)))
    BY <2>3
  <2>6. answer = "ok" => r.status /= "pending"
    BY <2>2, <2>4
  <2> QED
    BY <1>0, <2>2, <2>3, <2>4, <2>5, <2>6, ServedStep DEF AtWork
<1>3. CASE Row(t).status /= "staged" /\ ~Consumable(t)
  <2>1. Answer(t, "refused") /\ UNCHANGED <<session, made, failures, resume, begins, shared, forgot>>
    BY <1>3 DEF ServeSchedule
  <2> QED
    BY <1>0, <1>t, <2>1, RefusedStep
<1> QED
  BY <1>1, <1>2, <1>3

\* A session whose time is up is no longer pending, and its fingerprint may
\* still name it.
LEMMA ExpireStep ==
    ASSUME UploadInv, ExpireSession
    PROVE  UploadInv'
<1>i. UploadTypeOK
  BY DEF UploadInv
<1>1. PICK id \in DOMAIN session :
        /\ session[id].status = "pending"
        /\ session' = [session EXCEPT ![id].status = "aborted", ![id].stored = {}]
        /\ UNCHANGED <<upload, resume, made, begins, failures, shared, forgot>>
  BY DEF ExpireSession
<1>2. session \in Seq(SessionRows) /\ session[id] \in SessionRows
  BY <1>i, UploadTypes
<1>3. PICK r : r = [session[id] EXCEPT !.status = "aborted", !.stored = {}]
  OBVIOUS
<1>4. /\ r \in SessionRows /\ r.status = "aborted" /\ r.stored = {}
      /\ r.received = session[id].received /\ r.checksum = session[id].checksum
  BY <1>2, <1>3 DEF SessionRows
<1>5. session' = [session EXCEPT ![id] = r]
  BY <1>1, <1>2, <1>3
<1>6. /\ upload' \in [UploadTabs -> Uploads] /\ begins' \in 0..MaxBegins /\ failures' \in 0..MaxFailures
  BY <1>i, <1>1 DEF UploadTypeOK
<1> QED
  BY <1>1, <1>4, <1>5, <1>6, RowStep

\* No tab has an upload, and there are no sessions.
LEMMA UploadInitInv == UploadInit => UploadInv
<1> SUFFICES ASSUME UploadInit PROVE UploadInv
  OBVIOUS
<1>1. /\ upload \in [UploadTabs -> Uploads]
      /\ \A t \in UploadTabs : /\ upload[t].step = "idle" /\ upload[t].id = 0
                               /\ upload[t].file = {} /\ upload[t].answer = "none"
  <2> HIDE DEF NoUpload
  <2> QED
    BY NoUploadIs DEF UploadInit
<1>2. session = <<>> /\ made = {} /\ Len(session) = 0 /\ DOMAIN session = {}
  BY DEF UploadInit
<1>3. resume = [p \in Prints |-> 0] /\ 0 \in SessionIds
  BY UploadAssumption DEF UploadInit, Prints, SessionIds
<1>4. UploadTypeOK
  BY <1>1, <1>2, <1>3, UploadAssumption DEF UploadInit, UploadTypeOK, Prints
<1>5. TabsAreSound
  BY <1>1, <1>2 DEF TabsAreSound, Sound, Informed, Progress, Settled, AtWork
<1>6. KeyedByPrint
  <2>1. PICK own : own = [id \in {} |-> id]
    OBVIOUS
  <2>2. own \in [DOMAIN session -> Prints]
    BY <1>2, <2>1
  <2>3. Keyed(own)
    BY <1>1, <1>2, <1>3 DEF Keyed
  <2> QED
    BY <2>2, <2>3 DEF KeyedByPrint
<1>7. MadeOfOneFile /\ InterruptedIsResumed
  BY <1>2 DEF MadeOfOneFile, InterruptedIsResumed
<1>8. Apart /\ Recalled
  BY <1>1 DEF Apart, Recalled
<1> QED
  BY <1>4, <1>5, <1>6, <1>7, <1>8 DEF UploadInv

\* Every step of the tabs and of the server keeps the invariant.
LEMMA UploadStep == UploadInv /\ [UploadNext]_uploadVars => UploadInv'
<1> SUFFICES ASSUME UploadInv, [UploadNext]_uploadVars PROVE UploadInv'
  OBVIOUS
<1>1. ASSUME NEW t \in UploadTabs, NEW scheduled \in BOOLEAN, NEW f \in Files, BeginUpload(t, f, scheduled)
      PROVE  UploadInv'
  BY <1>1, BeginStep
<1>2. ASSUME NEW t \in UploadTabs, NEW scheduled \in BOOLEAN, RetryUpload(t, scheduled)
      PROVE  UploadInv'
  BY <1>2, RetryStep
<1>3. ASSUME NEW t \in UploadTabs,
             HearStatus(t) \/ HearCreate(t) \/ HearChunk(t) \/ HearConsumed(t) \/ Describe(t)
      PROVE  UploadInv'
  BY <1>3, HearStatusStep, HearCreateStep, HearChunkStep, HearConsumedStep, DescribeStep
<1>4. ASSUME NEW t \in UploadTabs,
             ServeStatus(t) \/ ServeCreate(t) \/ ServeChunk(t) \/ ServeComplete(t) \/ ServeSchedule(t)
      PROVE  UploadInv'
  BY <1>4, ServeStatusStep, CreateStep, ServeChunkStep, ServeCompleteStep, ServeScheduleStep
<1>5. ASSUME NEW t \in UploadTabs, CallFails(t) \/ LeavePage(t)
      PROVE  UploadInv'
  BY <1>5, CallFailsStep, LeaveStep
<1>6. CASE ExpireSession
  BY <1>6, ExpireStep
<1>7. CASE UNCHANGED uploadVars
  <2>1. UNCHANGED <<upload, resume, session, made, begins, failures, shared, forgot>>
    BY <1>7 DEF uploadVars
  <2>2. UploadTypeOK' /\ MadeOfOneFile' /\ InterruptedIsResumed'
    BY <2>1 DEF UploadInv, UploadTypeOK, MadeOfOneFile, InterruptedIsResumed
  <2>3. TabsAreSound'
    BY <2>1 DEF UploadInv, TabsAreSound, Sound, Informed, Progress, Settled
  <2>4. KeyedByPrint'
    BY <2>1 DEF UploadInv, KeyedByPrint, Keyed, Prints
  <2>5. Apart' /\ Recalled'
    BY <2>1 DEF UploadInv, Apart, Busy, Resting, Recalled
  <2> QED
    BY <2>2, <2>3, <2>4, <2>5 DEF UploadInv
<1> QED
  BY <1>1, <1>2, <1>3, <1>4, <1>5, <1>6, <1>7 DEF UploadNext

\* It holds in every reachable state.
LEMMA UploadInvariant == UploadSpec => []UploadInv
BY UploadInitInv, UploadStep, PTL DEF UploadSpec

\* The uploads, the map and the sessions keep their types, and a session lists
\* every chunk that it stores (chunked-upload.ts).
THEOREM UploadTypesHold == UploadSpec => []UploadTypeOK
BY UploadInvariant, PTL DEF UploadInv

\* A record or a schedule is made of the chunks of one file, whatever tabs resume
\* a session, in any order: the fingerprint keeps files apart that differ in name,
\* size or time, and the checksum those that can be hashed.
THEOREM MadeFromOneFile == UploadSpec => []MadeOfOneFile
BY UploadInvariant, PTL DEF UploadInv

\* A loop that skips the chunks the server has leaves none out, however often the
\* upload was interrupted and resumed.
THEOREM SkipsWhatIsThere == UploadSpec => []NothingIsLeftOut
<1>1. UploadInv => NothingIsLeftOut
  BY DEF UploadInv, TabsAreSound, Sound, Progress, NothingIsLeftOut, Row
<1> QED
  BY <1>1, UploadInvariant, PTL

\* As long as no two tabs share a fingerprint and no status call fails, a pending
\* session with chunks is the one that the next upload of its file resumes.
THEOREM ResumesAfterReload == UploadSpec => []InterruptedIsResumed
BY UploadInvariant, PTL DEF UploadInv

=============================================================================
