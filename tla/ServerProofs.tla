---------------------------- MODULE ServerProofs ----------------------------
(***************************************************************************)
(* Proofs about the rows that several requests write: a version column     *)
(* that several actors compare and set; the approvals of a macro, for any  *)
(* people, policy, and calls that interleave and die; and the media jobs,  *)
(* for any requests, workers and attempts.  With what UploadSessionsProofs *)
(* proves of the chunked sessions, that is every part of MCServer.         *)
(***************************************************************************)
EXTENDS MCServer, UploadSessionsProofs

-----------------------------------------------------------------------------
(* VersionedRow: the version column implements snapshots.                  *)

\* What holds of the columns and of every snapshot in every reachable state.
RowInv == RowTypeOK /\ SnapshotsBehind

\* The versions an actor has seen never run ahead of the row, whatever the
\* interleaving of reads and conditional UPDATEs.
LEMMA RowInvariance == RowSpec => []RowInv
<1>1. RowInit => RowInv
  BY FirstAssumption DEF RowInit, RowInv, RowTypeOK, SnapshotsBehind
<1>2. RowInv /\ [RowNext]_rowVars => RowInv'
  <2> SUFFICES ASSUME RowInv, [RowNext]_rowVars PROVE RowInv'
    OBVIOUS
  <2> USE LegalAssumption, FirstAssumption DEF RowInv, RowTypeOK, SnapshotsBehind
  <2>1. ASSUME NEW a \in Actors, Read(a) PROVE RowInv'
    BY <2>1 DEF Read
  <2>2. ASSUME NEW a \in Actors, NEW to \in Status, Transition(a, to) PROVE RowInv'
    BY <2>2 DEF Transition
  <2>3. CASE UNCHANGED rowVars
    BY <2>3 DEF rowVars
  <2> QED
    BY <2>1, <2>2, <2>3 DEF RowNext
<1> QED
  BY <1>1, <1>2, PTL DEF RowSpec

\* No snapshot is ahead of its row, and one that carries the row's version
\* carries its status too: what transition() relies on when it compares both.
THEOREM SnapshotsNeverAhead == RowSpec => []SnapshotsBehind
BY RowInvariance, PTL DEF RowInv

\* The UPDATE guarded by status and version succeeds exactly when nobody wrote
\* the row since the caller read it: the abstraction ScheduledUploads is built on.
THEOREM VersionImplementsSnapshots == RowSpec => ImplementsSnapshots
<1>1. RowInit => Abstract!Init
  BY FirstAssumption DEF RowInit, Abstract!Init, Fresh
<1>2. RowInv /\ RowInv' /\ [RowNext]_rowVars => [Abstract!Next]_(Abstract!vars)
  <2> SUFFICES ASSUME RowInv, RowInv', [RowNext]_rowVars PROVE [Abstract!Next]_(Abstract!vars)
    OBVIOUS
  <2> USE LegalAssumption DEF RowInv, RowTypeOK, SnapshotsBehind
  <2>1. ASSUME NEW a \in Actors, Read(a) PROVE Abstract!Read(a)
    <3>1. Fresh' = Fresh \cup {a}
      BY <2>1 DEF Read, Fresh
    <3> QED
      BY <2>1, <3>1 DEF Read, Abstract!Read
  <2>2. ASSUME NEW a \in Actors, NEW to \in Status, Transition(a, to)
        PROVE  Abstract!Transition(a, to)
    <3>1. a \in Fresh
      BY <2>2 DEF Transition, Fresh
    <3>2. Fresh' = {a}
      BY <2>2 DEF Transition, Fresh
    <3> QED
      BY <2>2, <3>1, <3>2 DEF Transition, Abstract!Transition
  <2>3. CASE UNCHANGED rowVars
    BY <2>3 DEF rowVars, Abstract!vars, Fresh
  <2> QED
    BY <2>1, <2>2, <2>3 DEF RowNext, Abstract!Next
<1> QED
  BY <1>1, <1>2, RowInvariance, PTL DEF RowSpec, ImplementsSnapshots, Abstract!Spec

-----------------------------------------------------------------------------
(* ApprovalRequests: nothing is run before enough others have approved it, *)
(* and no quorum is missed.                                                *)

-----------------------------------------------------------------------------
(* Types                                                                   *)

\* What a call carries is told by where it is.
LEMMA CallFields ==
    ASSUME NEW s \in CallStates
    PROVE  /\ s.at \in {"deciding", "decided"} => s.by \in People /\ s.verdict \in Verdicts
           /\ s.at = "saving" => s.status \in {"approved", "rejected", "executed"}
           /\ s.at \in {"submitting", "updating", "executing"} => s.version \in Versions
           /\ s.at \in {"submitting", "updating", "running"} => s.edit \in Edits
           /\ s.at \in {"free", "dead", "deciding", "decided", "saving",
                        "submitting", "updating", "executing", "running"}
BY DEF CallStates, Free, Dead

\* A step of one call from one of its states to another.
LEMMA GoesTypes ==
    ASSUME call \in [Calls -> CallStates], NEW c \in Calls, NEW to \in CallStates, Goes(c, to)
    PROVE  /\ call' \in [Calls -> CallStates]
           /\ call'[c] = to
           /\ \A d \in Calls \ {c} : call'[d] = call[d]
BY DEF Goes

\* What one call does, whatever the others do in between.
CallStep(c) ==
    \/ OpenMacro(c, "submitting") \/ Submit(c)
    \/ OpenMacro(c, "updating") \/ UpdateMacro(c)
    \/ \E p \in People, verdict \in Verdicts : OpenDecision(c, p, verdict)
    \/ AlreadyDecided(c) \/ RecordDecision(c) \/ CountApprovals(c) \/ SaveStatus(c)
    \/ OpenExecution(c) \/ MacroGoneOrStale(c) \/ FindMacro(c) \/ Run(c)
    \/ Die(c)

\* A step of a call keeps the types.
LEMMA CallTypes ==
    ASSUME ApprovalTypeOK, NEW c \in Calls, CallStep(c)
    PROVE  ApprovalTypeOK'
<1> USE DEF ApprovalTypeOK, askedVars
<1>0. /\ call[c] \in CallStates /\ call \in [Calls -> CallStates]
      /\ Free \in CallStates /\ Dead \in CallStates
      /\ macro.version \in Versions /\ macro.edit \in Edits /\ macro.exists \in BOOLEAN
  BY DEF CallStates
<1>1. ASSUME NEW purpose \in {"submitting", "updating"}, OpenMacro(c, purpose)
      PROVE  ApprovalTypeOK'
  <2>1. [at |-> purpose, version |-> macro.version, edit |-> macro.edit] \in CallStates
    BY <1>0 DEF CallStates
  <2> QED
    BY <1>0, <1>1, <2>1, GoesTypes DEF OpenMacro
<1>2. CASE Submit(c)
  BY <1>0, <1>2, CallFields, GoesTypes DEF Submit, Statuses
<1>3. CASE UpdateMacro(c)
  <2>1. call[c].version + 1 \in Versions /\ macro.edit < MaxMacroEdits
    BY <1>0, <1>3, CallFields, ApprovalAssumption DEF UpdateMacro, Versions
  <2>2. macro.edit + 1 \in Edits
    BY <1>0, <2>1, ApprovalAssumption DEF Edits
  <2>3. macro' \in [version : Versions, edit : Edits, exists : BOOLEAN]
    BY <1>3, <2>1, <2>2 DEF UpdateMacro
  <2> QED
    BY <1>0, <1>3, <2>3, GoesTypes DEF UpdateMacro
<1>4. ASSUME NEW p \in People, NEW verdict \in Verdicts, OpenDecision(c, p, verdict)
      PROVE  ApprovalTypeOK'
  <2>1. [at |-> "deciding", by |-> p, verdict |-> verdict] \in CallStates
    BY DEF CallStates
  <2> QED
    BY <1>0, <1>4, <2>1, GoesTypes DEF OpenDecision
<1>5. CASE AlreadyDecided(c)
  BY <1>0, <1>5, GoesTypes DEF AlreadyDecided
<1>6. CASE RecordDecision(c)
  <2>1. call[c].by \in People /\ call[c].verdict \in Verdicts
    BY <1>0, <1>6, CallFields DEF RecordDecision
  <2>2. [at |-> "saving", status |-> "rejected"] \in CallStates
    BY DEF CallStates
  <2>3. [call[c] EXCEPT !.at = "decided"] \in CallStates
    BY <1>0, <1>6 DEF RecordDecision, CallStates, Free, Dead
  <2> QED
    BY <1>0, <1>6, <2>1, <2>2, <2>3, GoesTypes DEF RecordDecision
<1>7. CASE CountApprovals(c)
  <2>1. [at |-> "saving", status |-> "approved"] \in CallStates
    BY DEF CallStates
  <2> QED
    BY <1>0, <1>7, <2>1, GoesTypes DEF CountApprovals
<1>8. CASE SaveStatus(c)
  BY <1>0, <1>8, CallFields, GoesTypes DEF SaveStatus, Statuses
<1>9. CASE OpenExecution(c)
  <2>1. [at |-> "executing", version |-> approvedVersion] \in CallStates
    BY DEF CallStates
  <2> QED
    BY <1>0, <1>9, <2>1, GoesTypes DEF OpenExecution
<1>10. CASE MacroGoneOrStale(c)
  BY <1>0, <1>10, GoesTypes DEF MacroGoneOrStale
<1>11. CASE FindMacro(c)
  <2>1. [at |-> "running", edit |-> macro.edit] \in CallStates
    BY <1>0 DEF CallStates
  <2> QED
    BY <1>0, <1>11, <2>1, GoesTypes DEF FindMacro
<1>12. CASE Run(c)
  <2>1. [at |-> "saving", status |-> "executed"] \in CallStates
    BY DEF CallStates
  <2>2. call[c].edit \in Edits
    BY <1>0, <1>12, CallFields DEF Run
  <2> QED
    BY <1>0, <1>12, <2>1, <2>2, GoesTypes DEF Run
<1>13. CASE Die(c)
  BY <1>0, <1>13, GoesTypes DEF Die
<1> QED
  BY <1>1, <1>2, <1>3, <1>4, <1>5, <1>6, <1>7, <1>8, <1>9, <1>10, <1>11, <1>12, <1>13
     DEF CallStep

\* The macro is destroyed, or some call takes a step.
LEMMA NextIsCallOrDestroy ==
    ApprovalNext => (\E c \in Calls : CallStep(c)) \/ DestroyMacro
BY DEF ApprovalNext, CallStep

\* The request, the decisions, the macro and the calls keep their types.
THEOREM ApprovalTypes == ApprovalSpec => []ApprovalTypeOK
<1>1. ApprovalInit => ApprovalTypeOK
  BY ApprovalAssumption DEF ApprovalInit, ApprovalTypeOK, Statuses, Versions, Edits, CallStates
<1>2. ApprovalTypeOK /\ [ApprovalNext]_approvalVars => ApprovalTypeOK'
  <2> SUFFICES ASSUME ApprovalTypeOK, [ApprovalNext]_approvalVars PROVE ApprovalTypeOK'
    OBVIOUS
  <2>1. ASSUME NEW c \in Calls, CallStep(c) PROVE ApprovalTypeOK'
    BY <2>1, CallTypes
  <2>2. CASE DestroyMacro
    BY <2>2 DEF DestroyMacro, ApprovalTypeOK, askedVars
  <2>3. CASE UNCHANGED approvalVars
    BY <2>3 DEF ApprovalTypeOK, approvalVars, askedVars
  <2> QED
    BY <2>1, <2>2, <2>3, NextIsCallOrDestroy
<1> QED
  BY <1>1, <1>2, PTL DEF ApprovalSpec

-----------------------------------------------------------------------------
(* The quorum                                                              *)

\* Before the request exists, no call is about it and nobody has decided.
NotBefore ==
    requestStatus = "unsubmitted" =>
        /\ decisions = [p \in People |-> "none"] /\ runs = {}
        /\ \A c \in Calls : call[c].at \in {"free", "dead", "submitting", "updating"}

\* Who is at work on a decision is not the requester.
OthersDecide ==
    \A c \in Calls : call[c].at \in {"deciding", "decided"} => call[c].by /= Requester

\* Whoever approves, executes or has executed has seen the quorum, and an
\* execution goes by the version that was approved.
QuorumSeen ==
    \A c \in Calls :
        /\ call[c].at = "saving" /\ call[c].status /= "rejected" => Quorum
        /\ call[c].at \in {"executing", "running"} => Quorum
        /\ call[c].at = "executing" => call[c].version = approvedVersion

\* The requester has no say, and nothing is approved or run without a quorum.
ApprovedFirst ==
    /\ requestStatus \in {"approved", "executed"} \/ runs /= {} => Quorum
    /\ decisions[Requester] = "none"

QuorumInv == ApprovalTypeOK /\ NotBefore /\ OthersDecide /\ QuorumSeen /\ ApprovedFirst

\* Decisions are only added, so a quorum stays one.
LEMMA QuorumStays ==
    ASSUME decisions \in [People -> Verdicts \cup {"none"}],
           NEW p \in People, NEW verdict \in Verdicts, decisions[p] = "none",
           decisions' = [decisions EXCEPT ![p] = verdict],
           Quorum
    PROVE  Quorum'
<1>1. Approvers \subseteq Approvers' /\ Approvers' \subseteq People
  BY DEF Approvers, Verdicts
<1>2. IsFiniteSet(Approvers')
  BY <1>1, FS_Subset, ApprovalAssumption
<1>3. Cardinality(Approvers) <= Cardinality(Approvers')
  BY <1>1, <1>2, FS_Subset
<1>4. Cardinality(Approvers) \in Nat /\ Cardinality(Approvers') \in Nat
  BY <1>1, <1>2, FS_Subset, FS_CardinalityType
<1> QED
  BY <1>3, <1>4, ApprovalAssumption DEF Quorum

\* Without a new decision the quorum is what it was.
LEMMA QuorumSame ==
    ASSUME UNCHANGED decisions
    PROVE  Quorum' = Quorum
BY DEF Quorum, Approvers

\* A call goes on to a state that carries what QuorumSeen asks of it, with the
\* request and the runs as they were.
LEMMA CallGoesOn ==
    ASSUME QuorumInv, NEW c \in Calls, NEW to \in CallStates, Goes(c, to),
           UNCHANGED <<askedVars, decisions, runs>>,
           requestStatus = "unsubmitted" => to.at \in {"free", "dead", "submitting", "updating"},
           to.at \in {"deciding", "decided"} => to.by /= Requester,
           to.at = "saving" /\ to.status /= "rejected" => Quorum,
           to.at \in {"executing", "running"} => Quorum,
           to.at = "executing" => to.version = approvedVersion
    PROVE  (NotBefore /\ OthersDecide /\ QuorumSeen /\ ApprovedFirst)'
<1>1. /\ call'[c] = to
      /\ \A d \in Calls \ {c} : call'[d] = call[d]
  BY GoesTypes DEF QuorumInv, ApprovalTypeOK
<1>2. Quorum' = Quorum
  BY QuorumSame
<1>3. requestStatus' = requestStatus /\ approvedVersion' = approvedVersion
  BY DEF askedVars
<1>4. NotBefore'
  BY <1>1, <1>3 DEF QuorumInv, NotBefore
<1>5. OthersDecide'
  BY <1>1 DEF QuorumInv, OthersDecide
<1>6. QuorumSeen'
  BY <1>1, <1>2, <1>3 DEF QuorumInv, QuorumSeen
<1>7. ApprovedFirst'
  BY <1>2, <1>3 DEF QuorumInv, ApprovedFirst
<1> QED
  BY <1>4, <1>5, <1>6, <1>7

\* No step of a call saves, runs or decides without what it asks of the quorum.
LEMMA QuorumStep ==
    ASSUME QuorumInv, NEW c \in Calls, CallStep(c)
    PROVE  (NotBefore /\ OthersDecide /\ QuorumSeen /\ ApprovedFirst)'
<1> DEFINE Goal == NotBefore /\ OthersDecide /\ QuorumSeen /\ ApprovedFirst
<1>0. /\ call[c] \in CallStates /\ call \in [Calls -> CallStates]
      /\ Free \in CallStates /\ Dead \in CallStates
      /\ Free.at = "free" /\ Dead.at = "dead"
      /\ macro.version \in Versions /\ macro.edit \in Edits /\ approvedVersion \in Versions
  BY DEF QuorumInv, ApprovalTypeOK, CallStates, Free, Dead
<1>1. ASSUME NEW purpose \in {"submitting", "updating"}, OpenMacro(c, purpose)
      PROVE  Goal'
  <2> DEFINE to == [at |-> purpose, version |-> macro.version, edit |-> macro.edit]
  <2>1. to \in CallStates /\ to.at \in {"submitting", "updating"}
    BY <1>0 DEF CallStates
  <2> HIDE DEF to
  <2>2. Goes(c, to) /\ UNCHANGED <<askedVars, decisions, runs>>
    BY <1>1 DEF OpenMacro, to
  <2> QED
    BY <2>1, <2>2, CallGoesOn
<1>2. CASE Submit(c)
  <2>1. /\ call'[c] = Free
        /\ \A d \in Calls \ {c} : call'[d] = call[d]
    BY <1>0, <1>2, GoesTypes DEF Submit
  <2>2. /\ decisions' = decisions /\ runs' = {} /\ requestStatus' = "pending"
        /\ \A d \in Calls : call'[d].at \in {"free", "dead", "submitting", "updating"}
    BY <1>0, <1>2, <2>1 DEF Submit, QuorumInv, NotBefore
  <2> QED
    BY <2>2 DEF QuorumInv, NotBefore, OthersDecide, QuorumSeen, ApprovedFirst
<1>3. CASE UpdateMacro(c)
  BY <1>0, <1>3, CallGoesOn DEF UpdateMacro
<1>4. ASSUME NEW p \in People, NEW verdict \in Verdicts, OpenDecision(c, p, verdict)
      PROVE  Goal'
  <2> DEFINE to == [at |-> "deciding", by |-> p, verdict |-> verdict]
  <2>1. to \in CallStates /\ to.at = "deciding" /\ to.by = p
    BY DEF CallStates
  <2> HIDE DEF to
  <2>2. /\ Goes(c, to) /\ UNCHANGED <<askedVars, decisions, runs>>
        /\ requestStatus = "pending" /\ p /= Requester
    BY <1>4 DEF OpenDecision, to
  <2> QED
    BY <2>1, <2>2, CallGoesOn
<1>5. CASE AlreadyDecided(c)
  BY <1>0, <1>5, CallGoesOn DEF AlreadyDecided
<1>6. CASE RecordDecision(c)
  <2> DEFINE to == IF call[c].verdict = "reject"
                   THEN [at |-> "saving", status |-> "rejected"]
                   ELSE [call[c] EXCEPT !.at = "decided"]
  <2>1. call[c].by \in People /\ call[c].verdict \in Verdicts /\ call[c].by /= Requester
    BY <1>0, <1>6, CallFields DEF RecordDecision, QuorumInv, OthersDecide
  <2> DEFINE approves == [call[c] EXCEPT !.at = "decided"]
  <2>a. approves \in CallStates /\ approves.at = "decided" /\ approves.by = call[c].by
    BY <1>0, <1>6 DEF RecordDecision, CallStates, Free, Dead
  <2>b. [at |-> "saving", status |-> "rejected"] \in CallStates
    BY DEF CallStates
  <2>2. /\ to \in CallStates
        /\ \/ to.at = "decided" /\ to.by = call[c].by
           \/ to.at = "saving" /\ to.status = "rejected"
    <3>1. CASE call[c].verdict = "reject"
      BY <2>b, <3>1
    <3>2. CASE call[c].verdict /= "reject"
      <4>1. to = approves
        BY <3>2
      <4> QED
        BY <2>a, <4>1
    <3> QED
      BY <3>1, <3>2
  <2> HIDE DEF to
  <2>3. Goes(c, to)
    BY <1>6 DEF RecordDecision, to
  <2>4. /\ call'[c] = to
        /\ \A d \in Calls \ {c} : call'[d] = call[d]
    BY <1>0, <2>2, <2>3, GoesTypes
  <2>5. Quorum => Quorum'
    BY <1>6, <2>1, QuorumStays DEF RecordDecision, QuorumInv, ApprovalTypeOK
  <2>6. /\ requestStatus' = requestStatus /\ approvedVersion' = approvedVersion /\ runs' = runs
        /\ requestStatus /= "unsubmitted"
    BY <1>6 DEF RecordDecision, askedVars, QuorumInv, NotBefore
  <2>7. decisions'[Requester] = "none"
    BY <1>6, <2>1, ApprovalAssumption DEF RecordDecision, QuorumInv, ApprovalTypeOK, ApprovedFirst
  <2>8. NotBefore' /\ OthersDecide'
    BY <2>1, <2>2, <2>4, <2>6 DEF QuorumInv, NotBefore, OthersDecide
  <2>9. QuorumSeen'
    BY <2>2, <2>4, <2>5, <2>6 DEF QuorumInv, QuorumSeen
  <2> QED
    BY <2>5, <2>6, <2>7, <2>8, <2>9 DEF QuorumInv, ApprovedFirst
<1>7. CASE CountApprovals(c)
  <2> DEFINE to == IF Enough THEN [at |-> "saving", status |-> "approved"] ELSE Free
  <2>1. to \in CallStates /\ (to = Free \/ (to.at = "saving" /\ to.status = "approved" /\ Quorum))
    BY <1>0 DEF CallStates, Enough, Quorum
  <2> HIDE DEF to
  <2>2. Goes(c, to) /\ UNCHANGED <<askedVars, decisions, runs>>
    BY <1>7 DEF CountApprovals, to
  <2>3. requestStatus /= "unsubmitted"
    BY <1>7 DEF CountApprovals, QuorumInv, NotBefore
  <2> QED
    BY <1>0, <2>1, <2>2, <2>3, CallGoesOn
<1>8. CASE SaveStatus(c)
  <2>1. /\ call'[c] = Free
        /\ \A d \in Calls \ {c} : call'[d] = call[d]
    BY <1>0, <1>8, GoesTypes DEF SaveStatus
  <2>2. /\ requestStatus' \in {"approved", "rejected", "executed"}
        /\ requestStatus' /= "rejected" => Quorum
        /\ approvedVersion' = approvedVersion /\ decisions' = decisions /\ runs' = runs
    BY <1>0, <1>8, CallFields DEF SaveStatus, QuorumInv, QuorumSeen
  <2>3. Quorum' = Quorum
    BY <2>2, QuorumSame
  <2>4. NotBefore' /\ OthersDecide'
    BY <1>0, <2>1, <2>2 DEF QuorumInv, NotBefore, OthersDecide
  <2>5. QuorumSeen'
    BY <1>0, <2>1, <2>2, <2>3 DEF QuorumInv, QuorumSeen
  <2> QED
    BY <2>2, <2>3, <2>4, <2>5 DEF QuorumInv, ApprovedFirst
<1>9. CASE OpenExecution(c)
  <2> DEFINE to == [at |-> "executing", version |-> approvedVersion]
  <2>1. to \in CallStates /\ to.at = "executing" /\ to.version = approvedVersion
    BY <1>0 DEF CallStates
  <2> HIDE DEF to
  <2>2. /\ Goes(c, to) /\ UNCHANGED <<askedVars, decisions, runs>>
        /\ requestStatus = "approved" /\ Quorum
    BY <1>9 DEF OpenExecution, to, QuorumInv, ApprovedFirst
  <2> QED
    BY <2>1, <2>2, CallGoesOn
<1>10. CASE MacroGoneOrStale(c)
  BY <1>0, <1>10, CallGoesOn DEF MacroGoneOrStale
<1>11. CASE FindMacro(c)
  <2> DEFINE to == [at |-> "running", edit |-> macro.edit]
  <2>1. to \in CallStates /\ to.at = "running"
    BY <1>0 DEF CallStates
  <2> HIDE DEF to
  <2>2. /\ Goes(c, to) /\ UNCHANGED <<askedVars, decisions, runs>>
        /\ Quorum /\ requestStatus /= "unsubmitted"
    BY <1>11 DEF FindMacro, to, QuorumInv, QuorumSeen, NotBefore
  <2> QED
    BY <2>1, <2>2, CallGoesOn
<1>12. CASE Run(c)
  <2> DEFINE to == [at |-> "saving", status |-> "executed"]
  <2>1. to \in CallStates /\ to.at = "saving"
    BY DEF CallStates
  <2> HIDE DEF to
  <2>2. Goes(c, to)
    BY <1>12 DEF Run, to
  <2>3. /\ call'[c] = to
        /\ \A d \in Calls \ {c} : call'[d] = call[d]
    BY <1>0, <2>1, <2>2, GoesTypes
  <2>4. /\ Quorum /\ requestStatus /= "unsubmitted"
        /\ requestStatus' = requestStatus /\ approvedVersion' = approvedVersion
        /\ decisions' = decisions
    BY <1>12 DEF Run, QuorumInv, QuorumSeen, NotBefore, askedVars
  <2>5. Quorum'
    BY <2>4, QuorumSame
  <2> QED
    BY <2>1, <2>3, <2>4, <2>5 DEF QuorumInv, NotBefore, OthersDecide, QuorumSeen, ApprovedFirst
<1>13. CASE Die(c)
  BY <1>0, <1>13, CallGoesOn DEF Die
<1> QED
  BY <1>1, <1>2, <1>3, <1>4, <1>5, <1>6, <1>7, <1>8, <1>9, <1>10, <1>11, <1>12, <1>13
     DEF CallStep

\* The inductive invariant of the quorum (decide, execute).
LEMMA QuorumInvariant == ApprovalSpec => []QuorumInv
<1> DEFINE Inv == NotBefore /\ OthersDecide /\ QuorumSeen /\ ApprovedFirst
<1>1. ApprovalInit => Inv
  BY ApprovalAssumption
     DEF ApprovalInit, NotBefore, OthersDecide, QuorumSeen, ApprovedFirst, Free
<1>2. ApprovalTypeOK /\ Inv /\ [ApprovalNext]_approvalVars => Inv'
  <2> SUFFICES ASSUME QuorumInv, [ApprovalNext]_approvalVars PROVE Inv'
    BY DEF QuorumInv
  <2>1. ASSUME NEW c \in Calls, CallStep(c) PROVE Inv'
    BY <2>1, QuorumStep
  <2>2. CASE DestroyMacro \/ UNCHANGED approvalVars
    <3>1. UNCHANGED <<askedVars, decisions, call, runs>>
      BY <2>2 DEF DestroyMacro, approvalVars
    <3>2. Quorum' = Quorum
      BY <3>1, QuorumSame
    <3> QED
      BY <3>1, <3>2
         DEF askedVars, QuorumInv, NotBefore, OthersDecide, QuorumSeen, ApprovedFirst
  <2> QED
    BY <2>1, <2>2, NextIsCallOrDestroy
<1>3. ApprovalTypeOK /\ Inv => QuorumInv
  BY DEF QuorumInv
<1> HIDE DEF Inv
<1> QED
  BY <1>1, <1>2, <1>3, ApprovalTypes, PTL DEF ApprovalSpec

-----------------------------------------------------------------------------
(* What is run                                                             *)

\* An update that has found an old version cannot make every edit count again.
VersionsBehind ==
    \A c \in Calls : call[c].at = "updating" =>
        /\ call[c].version <= macro.edit + 1
        /\ call[c].version = macro.edit + 1 => EveryEditCounts

\* While every edit counts, a version stands for one edit, wherever it is kept.
EditsSeen ==
    EveryEditCounts =>
        /\ \A c \in Calls : call[c].at = "submitting" => call[c].version = call[c].edit + 1
        /\ requestStatus /= "unsubmitted" => approvedVersion = approvedEdit + 1
        /\ \A c \in Calls : call[c].at = "running" => call[c].edit = approvedEdit
        /\ runs \subseteq {approvedEdit}

EditsInv == macro.version <= macro.edit + 1 /\ VersionsBehind /\ EditsSeen

\* A call goes on, with the macro, the request and the runs as they were.
LEMMA EditsGoOn ==
    ASSUME QuorumInv, EditsInv, NEW c \in Calls, NEW to \in CallStates, Goes(c, to),
           UNCHANGED <<requestStatus, approvedVersion, approvedEdit, macro, runs>>,
           to.at = "updating" => to.version = macro.version,
           to.at = "submitting" => to.version = macro.version /\ to.edit = macro.edit,
           to.at = "running" => (EveryEditCounts => to.edit = approvedEdit)
    PROVE  EditsInv'
<1>1. /\ call'[c] = to
      /\ \A d \in Calls \ {c} : call'[d] = call[d]
  BY GoesTypes DEF QuorumInv, ApprovalTypeOK
<1>2. EveryEditCounts' = EveryEditCounts
  BY DEF EveryEditCounts
<1>3. VersionsBehind'
  BY <1>1, <1>2 DEF EditsInv, VersionsBehind, EveryEditCounts
<1>4. EditsSeen'
  <2> SUFFICES ASSUME EveryEditCounts
               PROVE  /\ \A d \in Calls : call'[d].at = "submitting" => call'[d].version = call'[d].edit + 1
                      /\ requestStatus /= "unsubmitted" => approvedVersion = approvedEdit + 1
                      /\ \A d \in Calls : call'[d].at = "running" => call'[d].edit = approvedEdit
                      /\ runs \subseteq {approvedEdit}
    BY <1>2 DEF EditsSeen
  <2>1. \A d \in Calls : call'[d].at = "submitting" => call'[d].version = call'[d].edit + 1
    BY <1>1 DEF EditsInv, EditsSeen, EveryEditCounts
  <2>2. \A d \in Calls : call'[d].at = "running" => call'[d].edit = approvedEdit
    BY <1>1 DEF EditsInv, EditsSeen
  <2> QED
    BY <2>1, <2>2 DEF EditsInv, EditsSeen
<1> QED
  BY <1>3, <1>4 DEF EditsInv

\* A step of a call keeps versions and edits together.
LEMMA EditsStep ==
    ASSUME QuorumInv, EditsInv, NEW c \in Calls, CallStep(c)
    PROVE  EditsInv'
<1>0. /\ call[c] \in CallStates /\ call \in [Calls -> CallStates]
      /\ Free \in CallStates /\ Dead \in CallStates
      /\ Free.at = "free" /\ Dead.at = "dead"
      /\ macro \in [version : Versions, edit : Edits, exists : BOOLEAN]
  BY DEF QuorumInv, ApprovalTypeOK, CallStates, Free, Dead
<1>1. ASSUME NEW purpose \in {"submitting", "updating"}, OpenMacro(c, purpose)
      PROVE  EditsInv'
  <2> DEFINE to == [at |-> purpose, version |-> macro.version, edit |-> macro.edit]
  <2>1. to \in CallStates /\ to.version = macro.version /\ to.edit = macro.edit /\ to.at /= "running"
    BY <1>0 DEF CallStates
  <2> HIDE DEF to
  <2>2. Goes(c, to) /\ UNCHANGED <<requestStatus, approvedVersion, approvedEdit, macro, runs>>
    BY <1>1 DEF OpenMacro, to, askedVars
  <2> QED
    BY <2>1, <2>2, EditsGoOn
<1>2. CASE Submit(c)
  <2>1. /\ call'[c] = Free
        /\ \A d \in Calls \ {c} : call'[d] = call[d]
    BY <1>0, <1>2, GoesTypes DEF Submit
  <2>2. /\ runs' = {} /\ macro' = macro /\ \A d \in Calls : call[d].at /= "running"
        /\ approvedVersion' = call[c].version /\ approvedEdit' = call[c].edit
        /\ call[c].at = "submitting"
    BY <1>2 DEF Submit, QuorumInv, NotBefore
  <2>3. EveryEditCounts' = EveryEditCounts
    BY <2>2 DEF EveryEditCounts
  <2>4. VersionsBehind'
    BY <1>0, <2>1, <2>2, <2>3 DEF EditsInv, VersionsBehind
  <2>5. EditsSeen'
    BY <1>0, <2>1, <2>2, <2>3 DEF EditsInv, EditsSeen
  <2> QED
    BY <2>2, <2>4, <2>5 DEF EditsInv
<1>3. CASE UpdateMacro(c)
  <2>1. /\ call'[c] = Free
        /\ \A d \in Calls \ {c} : call'[d] = call[d]
        /\ UNCHANGED <<requestStatus, approvedVersion, approvedEdit, runs>>
    BY <1>0, <1>3, GoesTypes DEF UpdateMacro, askedVars
  <2>2. \A d \in Calls : call[d].at = "updating" => call[d].version \in Nat
    BY CallFields, ApprovalAssumption DEF QuorumInv, ApprovalTypeOK, Versions
  <2>3. macro.version \in Nat /\ macro.edit \in Nat
    BY <1>0, ApprovalAssumption DEF Versions, Edits
  <2>4. CASE ~macro.exists
    <3>1. macro' = macro /\ EveryEditCounts' = EveryEditCounts
      BY <1>3, <2>4 DEF UpdateMacro, EveryEditCounts
    <3>2. VersionsBehind'
      BY <1>0, <2>1, <3>1 DEF EditsInv, VersionsBehind
    <3>3. EditsSeen'
      BY <1>0, <2>1, <3>1 DEF EditsInv, EditsSeen
    <3> QED
      BY <3>1, <3>2, <3>3 DEF EditsInv
  <2>5. CASE macro.exists
    <3>1. /\ macro'.version = call[c].version + 1 /\ macro'.edit = macro.edit + 1
          /\ call[c].at = "updating"
      BY <1>3, <2>5 DEF UpdateMacro
    <3>2. /\ call[c].version <= macro.edit + 1
          /\ call[c].version = macro.edit + 1 => EveryEditCounts
      BY <3>1 DEF EditsInv, VersionsBehind
    <3>3. macro'.version <= macro'.edit + 1 /\ (EveryEditCounts' => EveryEditCounts)
      BY <2>2, <2>3, <3>1, <3>2 DEF EveryEditCounts
    <3>4. VersionsBehind'
      <4> SUFFICES ASSUME NEW d \in Calls, call'[d].at = "updating"
                   PROVE  call'[d].version <= macro'.edit + 1 /\ call'[d].version /= macro'.edit + 1
        BY DEF VersionsBehind
      <4>1. call'[d] = call[d] /\ call[d].version \in Nat /\ call[d].version <= macro.edit + 1
        BY <1>0, <2>1, <2>2 DEF EditsInv, VersionsBehind
      <4> QED
        BY <2>3, <3>1, <4>1
    <3>5. EditsSeen'
      BY <1>0, <2>1, <3>3 DEF EditsInv, EditsSeen
    <3> QED
      BY <3>3, <3>4, <3>5 DEF EditsInv
  <2> QED
    BY <2>4, <2>5
<1>4. ASSUME NEW p \in People, NEW verdict \in Verdicts, OpenDecision(c, p, verdict)
      PROVE  EditsInv'
  <2> DEFINE to == [at |-> "deciding", by |-> p, verdict |-> verdict]
  <2>1. to \in CallStates /\ to.at = "deciding"
    BY DEF CallStates
  <2> HIDE DEF to
  <2>2. Goes(c, to) /\ UNCHANGED <<requestStatus, approvedVersion, approvedEdit, macro, runs>>
    BY <1>4 DEF OpenDecision, to, askedVars
  <2> QED
    BY <2>1, <2>2, EditsGoOn
<1>5. CASE AlreadyDecided(c) \/ MacroGoneOrStale(c)
  <2>1. Goes(c, Free) /\ UNCHANGED <<requestStatus, approvedVersion, approvedEdit, macro, runs>>
    BY <1>5 DEF AlreadyDecided, MacroGoneOrStale, askedVars
  <2> QED
    BY <1>0, <2>1, EditsGoOn
<1>6. CASE RecordDecision(c)
  <2> DEFINE rejects == [at |-> "saving", status |-> "rejected"]
             approves == [call[c] EXCEPT !.at = "decided"]
  <2>1. rejects \in CallStates /\ rejects.at = "saving"
    BY DEF CallStates
  <2>2. approves \in CallStates /\ approves.at = "decided"
    BY <1>0, <1>6 DEF RecordDecision, CallStates, Free, Dead
  <2> HIDE DEF rejects, approves
  <2>3. /\ Goes(c, rejects) \/ Goes(c, approves)
        /\ UNCHANGED <<requestStatus, approvedVersion, approvedEdit, macro, runs>>
    <3>1. UNCHANGED <<requestStatus, approvedVersion, approvedEdit, macro, runs>>
      BY <1>6 DEF RecordDecision, askedVars
    <3>2. CASE call[c].verdict = "reject"
      BY <1>6, <3>1, <3>2 DEF RecordDecision, rejects, Goes
    <3>3. CASE call[c].verdict /= "reject"
      BY <1>6, <3>1, <3>3 DEF RecordDecision, approves, Goes
    <3> QED
      BY <3>2, <3>3
  <2> QED
    BY <2>1, <2>2, <2>3, EditsGoOn
<1>7. CASE CountApprovals(c)
  <2> DEFINE to == IF Enough THEN [at |-> "saving", status |-> "approved"] ELSE Free
  <2>1. to \in CallStates /\ to.at \in {"free", "saving"}
    BY <1>0 DEF CallStates
  <2> HIDE DEF to
  <2>2. Goes(c, to) /\ UNCHANGED <<requestStatus, approvedVersion, approvedEdit, macro, runs>>
    BY <1>7 DEF CountApprovals, to, askedVars
  <2> QED
    BY <2>1, <2>2, EditsGoOn
<1>8. CASE SaveStatus(c)
  <2>1. /\ call'[c] = Free
        /\ \A d \in Calls \ {c} : call'[d] = call[d]
        /\ UNCHANGED <<approvedVersion, approvedEdit, macro, runs>>
    BY <1>0, <1>8, GoesTypes DEF SaveStatus
  <2>2. requestStatus /= "unsubmitted" /\ EveryEditCounts' = EveryEditCounts
    BY <1>8, <2>1 DEF SaveStatus, QuorumInv, NotBefore, EveryEditCounts
  <2>3. VersionsBehind'
    BY <1>0, <2>1, <2>2 DEF EditsInv, VersionsBehind
  <2>4. EditsSeen'
    BY <1>0, <2>1, <2>2 DEF EditsInv, EditsSeen
  <2> QED
    BY <2>1, <2>3, <2>4 DEF EditsInv
<1>9. CASE OpenExecution(c)
  <2> DEFINE to == [at |-> "executing", version |-> approvedVersion]
  <2>1. to \in CallStates /\ to.at = "executing"
    BY DEF CallStates, QuorumInv, ApprovalTypeOK
  <2> HIDE DEF to
  <2>2. Goes(c, to) /\ UNCHANGED <<requestStatus, approvedVersion, approvedEdit, macro, runs>>
    BY <1>9 DEF OpenExecution, to, askedVars
  <2> QED
    BY <2>1, <2>2, EditsGoOn
<1>10. CASE FindMacro(c)
  <2> DEFINE to == [at |-> "running", edit |-> macro.edit]
  <2>1. to \in CallStates /\ to.at = "running" /\ to.edit = macro.edit
    BY <1>0 DEF CallStates
  <2> HIDE DEF to
  <2>2. Goes(c, to) /\ UNCHANGED <<requestStatus, approvedVersion, approvedEdit, macro, runs>>
    BY <1>10 DEF FindMacro, to, askedVars
  <2>3. macro.version = approvedVersion /\ requestStatus /= "unsubmitted"
    BY <1>10 DEF FindMacro, QuorumInv, QuorumSeen, NotBefore
  <2>4. macro.edit \in Nat /\ approvedEdit \in Nat
    BY <1>0, ApprovalAssumption DEF QuorumInv, ApprovalTypeOK, Edits
  <2>5. EveryEditCounts => to.edit = approvedEdit
    BY <2>1, <2>3, <2>4 DEF EditsInv, EditsSeen, EveryEditCounts
  <2> QED
    BY <2>1, <2>2, <2>5, EditsGoOn
<1>11. CASE Run(c)
  <2> DEFINE to == [at |-> "saving", status |-> "executed"]
  <2>1. to \in CallStates /\ to.at = "saving"
    BY DEF CallStates
  <2> HIDE DEF to
  <2>2. /\ Goes(c, to) /\ runs' = runs \cup {call[c].edit} /\ call[c].at = "running"
        /\ UNCHANGED <<requestStatus, approvedVersion, approvedEdit, macro>>
    BY <1>11 DEF Run, to, askedVars
  <2>3. /\ call'[c] = to
        /\ \A d \in Calls \ {c} : call'[d] = call[d]
    BY <1>0, <2>1, <2>2, GoesTypes
  <2>4. EveryEditCounts' = EveryEditCounts
    BY <2>2 DEF EveryEditCounts
  <2>5. VersionsBehind'
    BY <2>1, <2>2, <2>3, <2>4 DEF EditsInv, VersionsBehind
  <2>6. EditsSeen'
    BY <2>1, <2>2, <2>3, <2>4 DEF EditsInv, EditsSeen
  <2> QED
    BY <2>2, <2>5, <2>6 DEF EditsInv
<1>12. CASE Die(c)
  <2>1. Goes(c, Dead) /\ UNCHANGED <<requestStatus, approvedVersion, approvedEdit, macro, runs>>
    BY <1>12 DEF Die, askedVars
  <2> QED
    BY <1>0, <2>1, EditsGoOn
<1> QED
  BY <1>1, <1>2, <1>3, <1>4, <1>5, <1>6, <1>7, <1>8, <1>9, <1>10, <1>11, <1>12
     DEF CallStep

\* While every edit counts, the versions that are compared stand for the edits.
LEMMA EditsInvariant == ApprovalSpec => []EditsInv
<1>1. ApprovalInit => EditsInv
  BY DEF ApprovalInit, EditsInv, VersionsBehind, EditsSeen, Free
<1>2. QuorumInv /\ EditsInv /\ [ApprovalNext]_approvalVars => EditsInv'
  <2> SUFFICES ASSUME QuorumInv, EditsInv, [ApprovalNext]_approvalVars PROVE EditsInv'
    OBVIOUS
  <2>1. ASSUME NEW c \in Calls, CallStep(c) PROVE EditsInv'
    BY <2>1, EditsStep
  <2>2. CASE DestroyMacro \/ UNCHANGED approvalVars
    <3>1. /\ UNCHANGED <<requestStatus, approvedVersion, approvedEdit, call, runs>>
          /\ macro'.version = macro.version /\ macro'.edit = macro.edit
      <4>1. macro \in [version : Versions, edit : Edits, exists : BOOLEAN]
        BY DEF QuorumInv, ApprovalTypeOK
      <4> QED
        BY <2>2, <4>1 DEF DestroyMacro, approvalVars, askedVars
    <3>2. EveryEditCounts' = EveryEditCounts
      BY <3>1 DEF EveryEditCounts
    <3> QED
      BY <3>1, <3>2 DEF EditsInv, VersionsBehind, EditsSeen
  <2> QED
    BY <2>1, <2>2, NextIsCallOrDestroy
<1> QED
  BY <1>1, <1>2, QuorumInvariant, PTL DEF ApprovalSpec

\* Whatever the order of the decisions, of the saves and of the executions: a
\* request is approved, and its macro run, only after enough others approved, and
\* what is run is what was submitted, unless two updates saved one version.
THEOREM OthersApprove == ApprovalSpec => []ApprovedByOthers
<1>1. QuorumInv /\ EditsInv => ApprovedByOthers
  <2> SUFFICES ASSUME QuorumInv, EditsInv PROVE ApprovedByOthers
    OBVIOUS
  <2>1. Approvers \ {Requester} = Approvers
    BY ApprovalAssumption DEF QuorumInv, ApprovedFirst, Approvers
  <2>2. OthersApproved = Quorum
    BY <2>1 DEF OthersApproved, Quorum
  <2> QED
    BY <2>2 DEF QuorumInv, ApprovedFirst, EditsInv, EditsSeen, ApprovedByOthers
<1> QED
  BY <1>1, QuorumInvariant, EditsInvariant, PTL

-----------------------------------------------------------------------------
(* The decisions that are counted                                          *)

Ahead(places) == \E c \in Calls : call[c].at \in places

Rejection == \E p \in People : decisions[p] = "reject"

\* A pending request that has its quorum, or a rejection, has a call that is going
\* to say so, or died on the way; only a rejection needs no counting.
NotMissed ==
    requestStatus = "pending" =>
        /\ Quorum => Ahead({"decided", "saving", "dead"})
        /\ Rejection => Ahead({"saving", "dead"})

\* A step that leaves the request and the decisions alone, by a call that had no
\* decision to report, or that dies with it.
LEMMA StillAhead ==
    ASSUME ApprovalTypeOK, NotMissed, NEW c \in Calls, NEW to \in CallStates, Goes(c, to),
           requestStatus' = requestStatus, decisions' = decisions,
           call[c].at \in {"decided", "saving", "dead"} => to.at = "dead"
    PROVE  NotMissed'
<1>1. /\ call'[c] = to
      /\ \A d \in Calls \ {c} : call'[d] = call[d]
  BY GoesTypes DEF ApprovalTypeOK
<1>2. Quorum' = Quorum /\ Rejection' = Rejection
  BY QuorumSame DEF Rejection
<1>3. Ahead({"decided", "saving", "dead"}) => Ahead({"decided", "saving", "dead"})'
  BY <1>1 DEF Ahead
<1>4. Ahead({"saving", "dead"}) => Ahead({"saving", "dead"})'
  BY <1>1 DEF Ahead
<1> QED
  BY <1>2, <1>3, <1>4 DEF NotMissed

\* A request that nobody has decided has neither a quorum nor a rejection.
LEMMA NoneIsNoQuorum ==
    ASSUME decisions = [p \in People |-> "none"]
    PROVE  ~Quorum /\ ~Rejection
<1>1. Approvers = {}
  BY DEF Approvers
<1>2. Cardinality(Approvers) = 0
  BY <1>1, FS_EmptySet
<1> QED
  BY <1>2, ApprovalAssumption DEF Quorum, Rejection

\* After a step of a call, a quorum or a rejection still has a call ahead of it.
LEMMA NotMissedStep ==
    ASSUME QuorumInv, NotMissed, NEW c \in Calls, CallStep(c)
    PROVE  NotMissed'
<1>0. /\ call[c] \in CallStates /\ call \in [Calls -> CallStates]
      /\ Free \in CallStates /\ Dead \in CallStates
      /\ Free.at = "free" /\ Dead.at = "dead"
      /\ ApprovalTypeOK
      /\ macro.version \in Versions /\ macro.edit \in Edits
  BY DEF QuorumInv, ApprovalTypeOK, CallStates, Free, Dead
<1>1. ASSUME NEW purpose \in {"submitting", "updating"}, OpenMacro(c, purpose)
      PROVE  NotMissed'
  <2> DEFINE to == [at |-> purpose, version |-> macro.version, edit |-> macro.edit]
  <2>1. to \in CallStates
    BY <1>0 DEF CallStates
  <2> HIDE DEF to
  <2> QED
    BY <1>0, <1>1, <2>1, StillAhead DEF OpenMacro, askedVars, to
<1>2. CASE Submit(c)
  <2>1. decisions' = [p \in People |-> "none"]
    BY <1>2 DEF Submit, QuorumInv, NotBefore
  <2>2. decisions = [p \in People |-> "none"] /\ decisions' = decisions
    BY <1>2, <2>1 DEF Submit
  <2>3. ~Quorum' /\ ~Rejection'
    BY <2>2, NoneIsNoQuorum, QuorumSame DEF Rejection
  <2> QED
    BY <2>3 DEF NotMissed
<1>3. CASE UpdateMacro(c)
  BY <1>0, <1>3, StillAhead DEF UpdateMacro, askedVars
<1>4. ASSUME NEW p \in People, NEW verdict \in Verdicts, OpenDecision(c, p, verdict)
      PROVE  NotMissed'
  <2> DEFINE to == [at |-> "deciding", by |-> p, verdict |-> verdict]
  <2>1. to \in CallStates
    BY DEF CallStates
  <2>2. Goes(c, to) /\ requestStatus' = requestStatus /\ decisions' = decisions /\ call[c] = Free
    BY <1>4 DEF OpenDecision, askedVars
  <2> HIDE DEF to
  <2> QED
    BY <1>0, <2>1, <2>2, StillAhead
<1>5. CASE AlreadyDecided(c)
  BY <1>0, <1>5, StillAhead DEF AlreadyDecided, askedVars
<1>6. CASE RecordDecision(c)
  <2>1. /\ call[c].by \in People /\ call[c].verdict \in Verdicts
        /\ decisions' = [decisions EXCEPT ![call[c].by] = call[c].verdict]
        /\ requestStatus' = requestStatus
    BY <1>0, <1>6, CallFields DEF RecordDecision, askedVars
  <2>2. CASE call[c].verdict = "reject"
    <3>1. [at |-> "saving", status |-> "rejected"] \in CallStates
      BY DEF CallStates
    <3>2. Goes(c, [at |-> "saving", status |-> "rejected"])
      BY <1>6, <2>2 DEF RecordDecision
    <3>3. call'[c].at = "saving"
      BY <1>0, <3>1, <3>2, GoesTypes
    <3> QED
      BY <3>3 DEF NotMissed, Ahead
  <2>3. CASE call[c].verdict /= "reject"
    <3> DEFINE to == [call[c] EXCEPT !.at = "decided"]
    <3>1. to \in CallStates /\ to.at = "decided"
      BY <1>0, <1>6 DEF RecordDecision, CallStates, Free, Dead
    <3>2. Goes(c, to)
      BY <1>6, <2>3 DEF RecordDecision
    <3> HIDE DEF to
    <3>3. /\ call'[c].at = "decided"
          /\ \A d \in Calls \ {c} : call'[d] = call[d]
      BY <1>0, <3>1, <3>2, GoesTypes
    <3>4. Ahead({"decided", "saving", "dead"})'
      BY <3>3 DEF Ahead
    <3>5. Rejection' => Rejection
      BY <1>0, <2>1, <2>3 DEF Rejection, ApprovalTypeOK
    <3>6. Ahead({"saving", "dead"}) => Ahead({"saving", "dead"})'
      BY <1>6, <3>3 DEF Ahead, RecordDecision
    <3> QED
      BY <2>1, <3>4, <3>5, <3>6 DEF NotMissed
  <2> QED
    BY <2>2, <2>3
<1>7. CASE CountApprovals(c)
  <2>1. /\ requestStatus' = requestStatus /\ decisions' = decisions /\ call[c].at = "decided"
        /\ Goes(c, IF Enough THEN [at |-> "saving", status |-> "approved"] ELSE Free)
    BY <1>7 DEF CountApprovals, askedVars
  <2>2. Quorum' = Quorum /\ Rejection' = Rejection /\ Enough = Quorum
    BY <2>1, QuorumSame DEF Rejection, Enough, Quorum
  <2>3. [at |-> "saving", status |-> "approved"] \in CallStates
    BY DEF CallStates
  <2>4. /\ \A d \in Calls \ {c} : call'[d] = call[d]
        /\ Quorum => call'[c].at = "saving"
    BY <1>0, <2>1, <2>2, <2>3, GoesTypes
  <2>5. Quorum => Ahead({"decided", "saving", "dead"})'
    BY <2>4 DEF Ahead
  <2>6. Ahead({"saving", "dead"}) => Ahead({"saving", "dead"})'
    BY <2>1, <2>4 DEF Ahead
  <2> QED
    BY <2>1, <2>2, <2>5, <2>6 DEF NotMissed
<1>8. CASE SaveStatus(c)
  BY <1>0, <1>8, CallFields DEF SaveStatus, NotMissed
<1>9. CASE OpenExecution(c)
  BY <1>9 DEF OpenExecution, NotMissed, askedVars
<1>10. CASE MacroGoneOrStale(c)
  BY <1>0, <1>10, StillAhead DEF MacroGoneOrStale, askedVars
<1>11. CASE FindMacro(c)
  <2> DEFINE to == [at |-> "running", edit |-> macro.edit]
  <2>1. to \in CallStates
    BY <1>0 DEF CallStates
  <2>2. Goes(c, to) /\ requestStatus' = requestStatus /\ decisions' = decisions
    BY <1>11 DEF FindMacro, askedVars, to
  <2>3. call[c].at = "executing"
    BY <1>11 DEF FindMacro
  <2> HIDE DEF to
  <2> QED
    BY <1>0, <2>1, <2>2, <2>3, StillAhead
<1>12. CASE Run(c)
  <2>1. [at |-> "saving", status |-> "executed"] \in CallStates
    BY DEF CallStates
  <2> QED
    BY <1>0, <1>12, <2>1, StillAhead DEF Run, askedVars
<1>13. CASE Die(c)
  BY <1>0, <1>13, StillAhead DEF Die, askedVars
<1> QED
  BY <1>1, <1>2, <1>3, <1>4, <1>5, <1>6, <1>7, <1>8, <1>9, <1>10, <1>11, <1>12, <1>13
     DEF CallStep

\* A request with a quorum, or a rejection, leaves "pending" with the last answer,
\* although approvals that come together are written and counted in any order.
THEOREM DecisionsCount == ApprovalSpec => []NoDecisionIsMissed
<1>1. ApprovalInit => NotMissed
  BY DEF ApprovalInit, NotMissed
<1>2. QuorumInv /\ NotMissed /\ [ApprovalNext]_approvalVars => NotMissed'
  <2> SUFFICES ASSUME QuorumInv, NotMissed, [ApprovalNext]_approvalVars PROVE NotMissed'
    OBVIOUS
  <2>1. ASSUME NEW c \in Calls, CallStep(c) PROVE NotMissed'
    BY <2>1, NotMissedStep
  <2>2. CASE DestroyMacro \/ UNCHANGED approvalVars
    <3>1. UNCHANGED <<askedVars, decisions, call>>
      BY <2>2 DEF DestroyMacro, approvalVars
    <3>2. Quorum' = Quorum
      BY <3>1, QuorumSame
    <3> QED
      BY <3>1, <3>2 DEF askedVars, NotMissed, Ahead, Rejection
  <2> QED
    BY <2>1, <2>2, NextIsCallOrDestroy
<1>3. NotMissed => NoDecisionIsMissed
  BY DEF NotMissed, NoDecisionIsMissed, Ahead, Rejection, Unfinished
<1> QED
  BY <1>1, <1>2, <1>3, QuorumInvariant, PTL DEF ApprovalSpec

-----------------------------------------------------------------------------
(* MediaJobs: a derivative in progress stays in somebody's hands.          *)

CallerStates ==
    [op : {"none", "derive", "retry", "ingest", "cancel"},
     at : {"rest", "insert", "attach", "dispatch", "commit", "cancel"},
     job : Jobs \cup {Nothing}, row : Derivatives \cup {Nothing}]

MediaWorkerStates ==
    [at : {"poll", "taken", "begin", "work", "ready", "drop", "finish", "failing", "mark"},
     job : Jobs \cup {Nothing}, try : 0..JobTries, owned : BOOLEAN,
     saw : {"none", "absent"} \cup Live \cup Settled]

JobStates == {"absent"} \cup Live \cup Settled
MessageCounts == [Jobs -> [0..JobTries -> Nat]]

\* A worker past "poll" has a job, and the message is its own until it works.
WorkerTyped(x) ==
    /\ x \in MediaWorkerStates
    /\ x.at /= "poll" => x.job \in Jobs
    /\ x.at \in {"taken", "begin"} => x.owned

\* A caller has the job and the derivative that its step needs.
CallerTyped(x) ==
    /\ x \in CallerStates
    /\ x.at \in {"attach", "dispatch", "commit", "cancel"} => x.job \in Jobs
    /\ x.at \in {"attach", "commit"} => x.row \in Derivatives
    /\ x.at = "insert" /\ x.op = "derive" => x.row \in Derivatives

MediaTypes ==
    /\ MediaTypeOK
    /\ caller \in [Callers -> CallerStates] /\ \A c \in Callers : CallerTyped(caller[c])
    /\ worker \in [MediaWorkers -> MediaWorkerStates]
    /\ \A w \in MediaWorkers : WorkerTyped(worker[w])

\* A worker that writes the derivative next, whatever it would read.
Marks(j) == \E w \in MediaWorkers : worker[w].job = j /\ worker[w].at \in {"ready", "drop", "mark"}

\* A message, or a process that will hand it on or decide.
Waiting(j) == \E a \in 0..JobTries : messages[j][a] > 0
Pursues(x, j) ==
    /\ x.job = j
    /\ x.at = "failing" \/ (x.owned /\ x.at \in {"taken", "begin", "work"})
Pursued(j) == Waiting(j) \/ \E w \in MediaWorkers : Pursues(worker[w], j)

\* The job still answers for its derivative, or the code has given it up.
Answers(j) ==
    \/ jobStatus[j] = "canceled" \/ j \in givenUp \/ Marks(j)
    \/ jobStatus[j] /= "completed" /\ Pursued(j)

Answered ==
    \A d \in Derivatives : derivative[d] = "processing" =>
        \/ \E j \in Jobs : makes[j] = d /\ Answers(j)
        \/ \E c \in Callers : caller[c].row = d /\ caller[c].at = "dispatch"

\* A caller between its first write and its last has a job that nobody else is at;
\* only a cancellation can come in between.
Holds(x) == x.at \in {"attach", "dispatch", "commit"}

CallersInv ==
    \A c \in Callers :
        /\ caller[c].at \in {"attach", "dispatch"} =>
              /\ makes[caller[c].job] = caller[c].row
              /\ jobStatus[caller[c].job] \in {"queued", "canceled"}
              /\ ~Carried(caller[c].job)
        /\ caller[c].at = "commit" => jobStatus[caller[c].job] = "absent" /\ Answers(caller[c].job)
        /\ caller[c].at = "cancel" => jobStatus[caller[c].job] /= "absent"
        /\ Holds(caller[c]) =>
              \A o \in Callers \ {c} : caller[o].job = caller[c].job => caller[o].at = "cancel"

WorkersInv ==
    \A w \in MediaWorkers :
        worker[w].at \in {"begin", "work", "ready", "drop", "mark"} =>
            jobStatus[worker[w].job] /= "absent"

\* A row that is not there makes nothing.
RowsInv == \A j \in Jobs : jobStatus[j] = "absent" => makes[j] = Nothing

MediaInv == MediaTypes /\ CallersInv /\ WorkersInv /\ RowsInv /\ Answered

-----------------------------------------------------------------------------
(* Steps of a worker.                                                      *)

\* A message is offered: the counts keep their type, and the job has one waiting.
LEMMA PutMessage ==
    ASSUME messages \in MessageCounts, NEW j \in Jobs, NEW a \in 0..JobTries, Put(j, a)
    PROVE  /\ messages' \in MessageCounts /\ Waiting(j)'
           /\ \A i \in Jobs \ {j} : messages'[i] = messages[i]
<1>1. messages' = [messages EXCEPT ![j] = [messages[j] EXCEPT ![a] = messages[j][a] + 1]]
  BY DEF Put
<1>2. messages[j] \in [0..JobTries -> Nat] /\ messages[j][a] \in Nat
  BY DEF MessageCounts
<1> DEFINE row == [messages[j] EXCEPT ![a] = messages[j][a] + 1]
<1>a. messages[j][a] + 1 \in Nat /\ messages[j][a] + 1 > 0
  BY <1>2
<1>3. row \in [0..JobTries -> Nat] /\ row[a] > 0
  BY <1>2, <1>a, Zenon
<1> HIDE DEF row
<1>4. messages' = [messages EXCEPT ![j] = row]
  BY <1>1 DEF row
<1>5. messages' \in MessageCounts /\ messages'[j] = row
  BY <1>3, <1>4 DEF MessageCounts
<1>6. \E b \in 0..JobTries : messages'[j][b] > 0
  BY <1>3, <1>5
<1>7. Waiting(j)'
  BY <1>6 DEF Waiting
<1> QED
  BY <1>4, <1>5, <1>7 DEF MessageCounts

\* A message is reserved.
LEMMA TakeOne ==
    ASSUME messages \in MessageCounts, NEW j \in Jobs, NEW a \in 0..JobTries, messages[j][a] > 0,
           messages' = [messages EXCEPT ![j][a] = @ - 1]
    PROVE  /\ messages' \in MessageCounts
           /\ \A i \in Jobs \ {j} : messages'[i] = messages[i]
<1>1. messages' = [messages EXCEPT ![j] = [messages[j] EXCEPT ![a] = messages[j][a] - 1]]
  OBVIOUS
<1>a. messages[j] \in [0..JobTries -> Nat] /\ messages[j][a] \in Nat
  BY DEF MessageCounts
<1>2. messages[j] \in [0..JobTries -> Nat] /\ messages[j][a] - 1 \in Nat
  BY <1>a
<1> DEFINE row == [messages[j] EXCEPT ![a] = messages[j][a] - 1]
<1>3. row \in [0..JobTries -> Nat]
  BY <1>2
<1> HIDE DEF row
<1>4. messages' = [messages EXCEPT ![j] = row]
  BY <1>1 DEF row
<1> QED
  BY <1>3, <1>4 DEF MessageCounts

\* What a job has while nothing of it changes but a worker that is not at it.
LEMMA OtherJob ==
    ASSUME NEW i \in Jobs, NEW w \in MediaWorkers,
           worker \in [MediaWorkers -> MediaWorkerStates],
           NEW y, worker' = [worker EXCEPT ![w] = y],
           worker[w].at = "poll" \/ worker[w].job /= i, y.job /= i,
           messages'[i] = messages[i], jobStatus'[i] = jobStatus[i], givenUp \subseteq givenUp'
    PROVE  /\ Carried(i)' => Carried(i)
           /\ Answers(i) => Answers(i)'
<1>1. worker'[w] = y /\ \A v \in MediaWorkers \ {w} : worker'[v] = worker[v]
  OBVIOUS
<1>2. Carried(i)' => Carried(i)
  BY <1>1 DEF Carried
<1>3. Marks(i) => Marks(i)'
  BY <1>1 DEF Marks
<1>4. Waiting(i) => Waiting(i)'
  BY DEF Waiting
<1>5. Pursued(i) => Pursued(i)'
  <2>1. ASSUME NEW v \in MediaWorkers, Pursues(worker[v], i) PROVE Pursues(worker'[v], i)
    <3>1. v /= w
      BY <2>1 DEF Pursues
    <3> QED
      BY <1>1, <2>1, <3>1
  <2>2. (\E v \in MediaWorkers : Pursues(worker[v], i)) => \E v \in MediaWorkers : Pursues(worker'[v], i)
    BY <2>1
  <2>3. (\E v \in MediaWorkers : Pursues(worker[v], i)) => (\E v \in MediaWorkers : Pursues(worker[v], i))'
    BY <2>2 DEF Pursues
  <2> QED
    BY <1>4, <2>3 DEF Pursued
<1> QED
  BY <1>2, <1>3, <1>5 DEF Answers

\* A step of one worker about one job keeps the invariant, if the job goes on
\* answering for its derivative or the derivative is no longer in progress.
LEMMA WorkerMoves ==
    ASSUME MediaInv, NEW w \in MediaWorkers, NEW j \in Jobs, NEW y,
           worker' = [worker EXCEPT ![w] = y], WorkerTyped(y), y.job \in {j, Nothing},
           \/ worker[w].at = "poll" /\ Waiting(j)
           \/ worker[w].at /= "poll" /\ worker[w].job = j,
           UNCHANGED <<record, makes, caller>>,
           messages' \in MessageCounts, \A i \in Jobs \ {j} : messages'[i] = messages[i],
           jobStatus' \in [Jobs -> JobStates],
           \A i \in Jobs \ {j} : jobStatus'[i] = jobStatus[i],
           jobStatus'[j] = "absent" <=> jobStatus[j] = "absent",
           y.at \in {"begin", "work", "ready", "drop", "mark"} => jobStatus[j] /= "absent",
           derivative' \in [Derivatives -> {"absent", "processing", "ready", "failed"}],
           \A d \in Derivatives : derivative'[d] = "processing" => derivative[d] = "processing",
           holder' \in [Jobs -> MediaWorkers \cup {"free", "leaked"}],
           givenUp \subseteq givenUp', givenUp' \subseteq Jobs,
           \/ Answers(j) => Answers(j)'
           \/ /\ jobStatus[j] /= "absent"
              /\ makes[j] \in Derivatives => derivative'[makes[j]] /= "processing"
    PROVE  MediaInv'
<1>1. /\ worker \in [MediaWorkers -> MediaWorkerStates]
      /\ y \in MediaWorkerStates
  BY DEF MediaInv, MediaTypes, WorkerTyped
<1>2. worker'[w] = y /\ \A v \in MediaWorkers \ {w} : worker'[v] = worker[v]
  BY <1>1
<1>3. MediaTypes'
  <2>1. worker' \in [MediaWorkers -> MediaWorkerStates]
    BY <1>1
  <2>2. \A v \in MediaWorkers : WorkerTyped(worker'[v])
    BY <1>2 DEF MediaInv, MediaTypes
  <2>3. (\A v \in MediaWorkers : WorkerTyped(worker[v]))'
    BY <2>2 DEF WorkerTyped, MediaWorkerStates, Live, Settled
  <2>4. MediaTypeOK'
    BY DEF MediaInv, MediaTypes, MediaTypeOK, MessageCounts, JobStates
  <2>5. caller \in [Callers -> CallerStates] /\ \A c \in Callers : CallerTyped(caller[c])
    BY DEF MediaInv, MediaTypes
  <2>6. (caller \in [Callers -> CallerStates] /\ \A c \in Callers : CallerTyped(caller[c]))'
    BY <2>5 DEF CallerTyped, CallerStates
  <2> QED
    BY <2>1, <2>3, <2>4, <2>6 DEF MediaTypes
<1>4. Nothing \notin Jobs /\ Nothing \notin Derivatives
  BY NothingAssumption
<1>5. ASSUME NEW i \in Jobs \ {j}
      PROVE  (Carried(i)' => Carried(i)) /\ (Answers(i) => Answers(i)')
  <2>1. i \in Jobs /\ i /= j /\ y.job /= i
    BY <1>4, <1>5
  <2>2. worker[w].at = "poll" \/ worker[w].job /= i
    BY <2>1
  <2>3. messages'[i] = messages[i] /\ jobStatus'[i] = jobStatus[i]
    BY <2>1
  <2> QED
    BY <1>1, <2>1, <2>2, <2>3, OtherJob
<1>6. Carried(j)
  BY DEF Carried, Waiting
<1>7. CallersInv'
  <2> SUFFICES ASSUME NEW c \in Callers
               PROVE  /\ caller[c].at \in {"attach", "dispatch"} =>
                            /\ makes[caller[c].job] = caller[c].row
                            /\ jobStatus'[caller[c].job] \in {"queued", "canceled"}
                            /\ ~Carried(caller[c].job)'
                      /\ caller[c].at = "commit" =>
                            jobStatus'[caller[c].job] = "absent" /\ Answers(caller[c].job)'
                      /\ caller[c].at = "cancel" => jobStatus'[caller[c].job] /= "absent"
                      /\ Holds(caller[c]) =>
                            \A o \in Callers \ {c} :
                               caller[o].job = caller[c].job => caller[o].at = "cancel"
    BY DEF CallersInv, Holds, Carried, Answers, Marks, Pursued, Waiting, Pursues
  <2>1. /\ caller[c].at \in {"attach", "dispatch", "commit", "cancel"} => caller[c].job \in Jobs
    BY DEF MediaInv, MediaTypes, CallerTyped
  <2>2. CASE caller[c].at \in {"attach", "dispatch"}
    <3>1. caller[c].job \in Jobs \ {j}
      BY <1>6, <2>1, <2>2 DEF MediaInv, CallersInv
    <3> QED
      BY <1>5, <2>2, <3>1 DEF MediaInv, CallersInv
  <2>3. CASE caller[c].at = "commit"
    <3>1. jobStatus[caller[c].job] = "absent" /\ Answers(caller[c].job) /\ caller[c].job \in Jobs
      BY <2>1, <2>3 DEF MediaInv, CallersInv
    <3>2. jobStatus'[caller[c].job] = "absent" /\ Answers(caller[c].job)'
      BY <1>5, <3>1
    <3> QED
      BY <2>3, <3>2 DEF MediaInv, CallersInv
  <2>4. CASE caller[c].at = "cancel"
    BY <2>1, <2>4 DEF MediaInv, CallersInv, Holds
  <2> QED
    BY <2>2, <2>3, <2>4 DEF Holds
<1>8. WorkersInv'
  <2>1. \A v \in MediaWorkers : worker[v].at /= "poll" => worker[v].job \in Jobs
    BY DEF MediaInv, MediaTypes, WorkerTyped
  <2>2. ASSUME NEW v \in MediaWorkers,
               worker'[v].at \in {"begin", "work", "ready", "drop", "mark"}
        PROVE  jobStatus'[worker'[v].job] /= "absent"
    <3>1. CASE v = w
      <4>1. y.job = j
        BY <1>2, <1>4, <2>2, <3>1 DEF WorkerTyped
      <4> QED
        BY <1>2, <2>2, <3>1, <4>1
    <3>2. CASE v /= w
      BY <1>2, <2>1, <2>2, <3>2 DEF MediaInv, WorkersInv
    <3> QED
      BY <3>1, <3>2
  <2> QED
    BY <2>2 DEF WorkersInv
<1>9. RowsInv'
  BY DEF MediaInv, RowsInv
<1>10. Answered'
  <2>1. ASSUME NEW d \in Derivatives, derivative'[d] = "processing"
        PROVE  \/ \E i \in Jobs : makes[i] = d /\ Answers(i)'
               \/ \E c \in Callers : caller[c].row = d /\ caller[c].at = "dispatch"
    <3>1. CASE \E c \in Callers : caller[c].row = d /\ caller[c].at = "dispatch"
      BY <3>1
    <3>2. CASE ~\E c \in Callers : caller[c].row = d /\ caller[c].at = "dispatch"
      <4>1. PICK i \in Jobs : makes[i] = d /\ Answers(i)
        BY <2>1, <3>2 DEF MediaInv, Answered
      <4>2. Answers(i)'
        BY <1>5, <2>1, <4>1
      <4> QED
        BY <4>1, <4>2
    <3> QED
      BY <3>1, <3>2
  <2>2. makes' = makes /\ caller' = caller
    OBVIOUS
  <2> QED
    BY <2>1, <2>2 DEF Answered, Answers, Marks, Pursued, Waiting, Pursues
<1> QED
  BY <1>3, <1>7, <1>8, <1>9, <1>10 DEF MediaInv

\* What makes a job answer in the next state: a worker about to mark, or a message
\* or a worker that pursues a job that is not completed.
LEMMA AnswersNow ==
    ASSUME NEW j \in Jobs, NEW w \in MediaWorkers, NEW y,
           worker \in [MediaWorkers -> MediaWorkerStates], worker' = [worker EXCEPT ![w] = y],
           \/ y.job = j /\ y.at \in {"ready", "drop", "mark"}
           \/ jobStatus'[j] /= "completed" /\ (Pursues(y, j) \/ Waiting(j)')
    PROVE  Answers(j)'
<1>1. worker'[w] = y
  OBVIOUS
<1>2. CASE y.job = j /\ y.at \in {"ready", "drop", "mark"}
  <2>1. Marks(j)'
    BY <1>1, <1>2 DEF Marks
  <2> QED
    BY <2>1 DEF Answers
<1>3. CASE jobStatus'[j] /= "completed" /\ (Pursues(y, j) \/ Waiting(j)')
  <2>1. Pursues(y, j) => \E v \in MediaWorkers : Pursues(worker'[v], j)
    BY <1>1
  <2>2. (\E v \in MediaWorkers : Pursues(worker'[v], j)) => (\E v \in MediaWorkers : Pursues(worker[v], j))'
    BY DEF Pursues
  <2>3. Pursued(j)'
    BY <1>3, <2>1, <2>2 DEF Pursued
  <2> QED
    BY <1>3, <2>3 DEF Answers
<1> QED
  BY <1>2, <1>3

\* A job whose row stays goes on answering, if it does when it was only this
\* worker, or only a message, that did.
LEMMA AnswersStill ==
    ASSUME NEW j \in Jobs, NEW w \in MediaWorkers, NEW y,
           worker \in [MediaWorkers -> MediaWorkerStates], worker' = [worker EXCEPT ![w] = y],
           jobStatus'[j] = jobStatus[j], givenUp \subseteq givenUp',
           worker[w].job = j /\ worker[w].at \in {"ready", "drop", "mark"} => Answers(j)',
           jobStatus[j] \notin {"completed", "canceled"} /\ (Pursues(worker[w], j) \/ Waiting(j))
              => Answers(j)'
    PROVE  Answers(j) => Answers(j)'
<1>1. worker'[w] = y /\ \A v \in MediaWorkers \ {w} : worker'[v] = worker[v]
  OBVIOUS
<1>2. CASE jobStatus[j] = "canceled" \/ j \in givenUp
  BY <1>2 DEF Answers
<1>3. CASE Marks(j)
  <2>1. PICK v \in MediaWorkers : worker[v].job = j /\ worker[v].at \in {"ready", "drop", "mark"}
    BY <1>3 DEF Marks
  <2>2. CASE v = w
    BY <2>1, <2>2
  <2>3. CASE v /= w
    <3>1. Marks(j)'
      BY <1>1, <2>1, <2>3 DEF Marks
    <3> QED
      BY <3>1 DEF Answers
  <2> QED
    BY <2>2, <2>3
<1>4. CASE jobStatus[j] \notin {"completed", "canceled"} /\ Pursued(j)
  <2>1. CASE Waiting(j)
    BY <1>4, <2>1
  <2>2. ASSUME NEW v \in MediaWorkers, Pursues(worker[v], j) PROVE Answers(j)'
    <3>1. CASE v = w
      BY <1>4, <2>2, <3>1
    <3>2. CASE v /= w
      <4>1. Pursues(worker'[v], j)
        BY <1>1, <2>2, <3>2
      <4>2. (\E u \in MediaWorkers : Pursues(worker[u], j))'
        BY <4>1 DEF Pursues
      <4> QED
        BY <1>4, <4>2 DEF Answers, Pursued
    <3> QED
      BY <3>1, <3>2
  <2> QED
    BY <1>4, <2>1, <2>2 DEF Pursued
<1> QED
  BY <1>2, <1>3, <1>4 DEF Answers

\* What the types say of one worker and its job.
LEMMA WorkerFields ==
    ASSUME MediaInv, NEW w \in MediaWorkers
    PROVE  /\ worker \in [MediaWorkers -> MediaWorkerStates]
           /\ worker[w] \in MediaWorkerStates /\ WorkerTyped(worker[w])
           /\ worker[w].try \in 0..JobTries /\ worker[w].owned \in BOOLEAN
           /\ worker[w].at /= "poll" => worker[w].job \in Jobs
           /\ Polling \in MediaWorkerStates /\ WorkerTyped(Polling)
           /\ Polling.at = "poll" /\ Polling.job = Nothing
           /\ messages \in MessageCounts
           /\ jobStatus \in [Jobs -> JobStates]
           /\ makes \in [Jobs -> Derivatives \cup {Nothing}]
           /\ derivative \in [Derivatives -> {"absent", "processing", "ready", "failed"}]
           /\ holder \in [Jobs -> MediaWorkers \cup {"free", "leaked"}]
           /\ givenUp \subseteq Jobs
<1>1. /\ worker \in [MediaWorkers -> MediaWorkerStates] /\ WorkerTyped(worker[w])
      /\ messages \in MessageCounts
      /\ jobStatus \in [Jobs -> JobStates]
      /\ makes \in [Jobs -> Derivatives \cup {Nothing}]
      /\ derivative \in [Derivatives -> {"absent", "processing", "ready", "failed"}]
      /\ holder \in [Jobs -> MediaWorkers \cup {"free", "leaked"}]
      /\ givenUp \subseteq Jobs
  BY DEF MediaInv, MediaTypes, MediaTypeOK, MessageCounts, JobStates
<1>2. worker[w] \in MediaWorkerStates
  BY <1>1
<1>3. 0 \in 0..JobTries
  BY JobTriesAssumption
<1>4. Polling \in MediaWorkerStates
  BY <1>3 DEF Polling, MediaWorkerStates
<1> QED
  BY <1>1, <1>2, <1>4 DEF Polling, WorkerTyped, MediaWorkerStates

\* The worker reserves a message: it pursues the job itself (TakeMessage).
LEMMA TakeMessageKeeps ==
    ASSUME MediaInv, NEW w \in MediaWorkers, NEW j \in Jobs, NEW a \in 0..JobTries,
           TakeMessage(w, j, a)
    PROVE  MediaInv'
<1>1. PICK y : y = [at |-> "taken", job |-> j, try |-> a + 1, owned |-> TRUE, saw |-> "none"]
  OBVIOUS
<1>2. /\ worker' = [worker EXCEPT ![w] = y] /\ worker[w].at = "poll"
      /\ a < JobTries /\ messages[j][a] > 0
      /\ messages' = [messages EXCEPT ![j][a] = @ - 1]
      /\ UNCHANGED <<record, makes, caller, jobStatus, derivative, holder, givenUp>>
  BY <1>1 DEF TakeMessage, callerVars
<1>3. a + 1 \in 0..JobTries
  BY <1>2, JobTriesAssumption
<1>4. /\ y \in MediaWorkerStates /\ y.job = j /\ y.at = "taken" /\ y.owned
      /\ WorkerTyped(y)
  BY <1>1, <1>3 DEF MediaWorkerStates, WorkerTyped
<1>5. Pursues(y, j)
  BY <1>4 DEF Pursues
<1>6. messages' \in MessageCounts /\ \A i \in Jobs \ {j} : messages'[i] = messages[i]
  BY <1>2, TakeOne, WorkerFields
<1>7. Waiting(j)
  BY <1>2 DEF Waiting
<1>8. jobStatus[j] /= "completed" => Answers(j)'
  BY <1>2, <1>5, AnswersNow, WorkerFields
<1>9. Answers(j) => Answers(j)'
  BY <1>2, <1>8, AnswersStill, WorkerFields
<1> QED
  BY <1>2, <1>4, <1>6, <1>7, <1>9, WorkerMoves, WorkerFields

\* A message beyond $tries: failed() is called for its job (TakeExhausted).
LEMMA TakeExhaustedKeeps ==
    ASSUME MediaInv, NEW w \in MediaWorkers, NEW j \in Jobs, TakeExhausted(w, j)
    PROVE  MediaInv'
<1>1. PICK y : y = Failing(j)
  OBVIOUS
<1>2. /\ worker' = [worker EXCEPT ![w] = y] /\ worker[w].at = "poll"
      /\ messages[j][JobTries] > 0
      /\ messages' = [messages EXCEPT ![j][JobTries] = @ - 1]
      /\ UNCHANGED <<record, makes, caller, jobStatus, derivative, holder, givenUp>>
  BY <1>1 DEF TakeExhausted, callerVars
<1>3. JobTries \in 0..JobTries
  BY JobTriesAssumption
<1>4. y \in MediaWorkerStates /\ y.job = j /\ y.at = "failing"
  BY <1>1, WorkerFields DEF Failing, Polling, MediaWorkerStates
<1>5. Pursues(y, j) /\ WorkerTyped(y)
  BY <1>4 DEF Pursues, WorkerTyped
<1>6. messages' \in MessageCounts /\ \A i \in Jobs \ {j} : messages'[i] = messages[i]
  BY <1>2, <1>3, TakeOne, WorkerFields
<1>7. Waiting(j)
  BY <1>2, <1>3 DEF Waiting
<1>8. jobStatus[j] /= "completed" => Answers(j)'
  BY <1>2, <1>5, AnswersNow, WorkerFields
<1>9. Answers(j) => Answers(j)'
  BY <1>2, <1>8, AnswersStill, WorkerFields
<1> QED
  BY <1>2, <1>4, <1>5, <1>6, <1>7, <1>9, WorkerMoves, WorkerFields

\* Another worker has the lock: the message goes back (JobOverlapped).
LEMMA JobOverlappedKeeps ==
    ASSUME MediaInv, NEW w \in MediaWorkers, JobOverlapped(w)
    PROVE  MediaInv'
<1>1. PICK j \in Jobs : j = worker[w].job
  BY WorkerFields DEF JobOverlapped
<1>2. /\ worker' = [worker EXCEPT ![w] = Polling] /\ worker[w].at = "taken"
      /\ worker[w].job = j /\ Put(j, worker[w].try)
      /\ UNCHANGED <<record, makes, caller, jobStatus, derivative, holder, givenUp>>
  BY <1>1 DEF JobOverlapped, Polls, callerVars
<1>3. /\ messages' \in MessageCounts /\ \A i \in Jobs \ {j} : messages'[i] = messages[i]
      /\ Waiting(j)'
  BY <1>2, PutMessage, WorkerFields
<1>4. jobStatus[j] /= "completed" => Answers(j)'
  BY <1>2, <1>3, AnswersNow, WorkerFields
<1>5. Answers(j) => Answers(j)'
  BY <1>2, <1>4, AnswersStill, WorkerFields
<1> QED
  BY <1>2, <1>3, <1>5, WorkerMoves, WorkerFields

\* The worker keeps its job and message and goes on to another step.
Turned(w, step, saw) == worker' = [worker EXCEPT ![w].at = step, ![w].saw = saw]

\* Its next state, and what it has of the last one.
LEMMA GoesOn ==
    ASSUME MediaInv, NEW w \in MediaWorkers, NEW step, NEW saw, Turned(w, step, saw),
           step \in {"begin", "work", "ready", "drop", "finish", "failing", "mark"},
           saw \in {"none", "absent"} \cup Live \cup Settled,
           step = "begin" => worker[w].owned,
           worker[w].at /= "poll"
    PROVE  \E y \in MediaWorkerStates :
              /\ worker' = [worker EXCEPT ![w] = y]
              /\ WorkerTyped(y) /\ y.job = worker[w].job /\ y.at = step /\ y.saw = saw
              /\ y.owned = worker[w].owned /\ y.try = worker[w].try
<1> DEFINE y == [worker[w] EXCEPT !.at = step, !.saw = saw]
<1>1. /\ y \in MediaWorkerStates /\ y.job = worker[w].job /\ y.at = step /\ y.saw = saw
      /\ y.owned = worker[w].owned /\ y.try = worker[w].try
  BY WorkerFields DEF MediaWorkerStates
<1>2. WorkerTyped(y)
  BY <1>1, WorkerFields DEF WorkerTyped
<1>3. worker' = [worker EXCEPT ![w] = y]
  BY WorkerFields DEF MediaWorkerStates, Turned
<1> QED
  BY <1>1, <1>2, <1>3

\* A step that only changes what the worker is at.
LEMMA TurnIs ==
    ASSUME MediaInv, NEW w \in MediaWorkers, NEW step
    PROVE  Turns(w, step) => Turned(w, step, worker[w].saw)
BY WorkerFields DEF MediaWorkerStates, Turns, Turned

\* handle() has the lock: a job whose row is not there is given up (FindJob).
LEMMA FindJobKeeps ==
    ASSUME MediaInv, NEW w \in MediaWorkers, FindJob(w)
    PROVE  MediaInv'
<1>1. PICK j \in Jobs : j = worker[w].job
  BY WorkerFields DEF FindJob
<1>2. /\ worker[w].at = "taken" /\ worker[w].job = j
      /\ holder' = [holder EXCEPT ![j] = w] /\ Looks(j)
      /\ UNCHANGED <<record, makes, caller, jobStatus, derivative, messages>>
  BY <1>1 DEF FindJob, callerVars
<1>3. /\ holder' \in [Jobs -> MediaWorkers \cup {"free", "leaked"}]
      /\ givenUp \subseteq givenUp' /\ givenUp' \subseteq Jobs
      /\ jobStatus[j] = "absent" => j \in givenUp'
  BY <1>2, WorkerFields DEF Looks
<1>4. jobStatus[j] \in JobStates /\ worker[w].owned
  BY <1>2, WorkerFields DEF WorkerTyped
<1>5. CASE jobStatus[j] \in {"absent", "canceled"}
  <2>1. Turned(w, "finish", "none")
    BY <1>1, <1>5 DEF FindJob, Turned
  <2>2. PICK y \in MediaWorkerStates :
              /\ WorkerTyped(y) /\ y.job = j /\ y.at = "finish"
              /\ worker' = [worker EXCEPT ![w] = y]
    BY <1>2, <2>1, GoesOn
  <2>3. Answers(j)'
    BY <1>2, <1>3, <1>5 DEF Answers
  <2> QED
    BY <1>2, <1>3, <2>2, <2>3, WorkerMoves, WorkerFields
<1>6. CASE jobStatus[j] \notin {"absent", "canceled"}
  <2>1. Turned(w, "begin", jobStatus[j])
    BY <1>1, <1>6 DEF FindJob, Turned
  <2>2. PICK y \in MediaWorkerStates :
              /\ WorkerTyped(y) /\ y.job = j /\ y.at = "begin" /\ y.owned
              /\ worker' = [worker EXCEPT ![w] = y]
    BY <1>2, <1>4, <2>1, GoesOn DEF JobStates
  <2>3. Pursues(y, j)
    BY <2>2 DEF Pursues
  <2>4. jobStatus[j] /= "completed" => Answers(j)'
    BY <1>2, <2>2, <2>3, AnswersNow, WorkerFields
  <2>5. Answers(j) => Answers(j)'
    BY <1>2, <1>3, <2>2, <2>4, AnswersStill, WorkerFields
  <2> QED
    BY <1>2, <1>3, <1>6, <2>2, <2>5, WorkerMoves, WorkerFields
<1> QED
  BY <1>5, <1>6

\* The row becomes "processing", unless it was read as that (BeginJob).
LEMMA BeginJobKeeps ==
    ASSUME MediaInv, NEW w \in MediaWorkers, BeginJob(w)
    PROVE  MediaInv'
<1>1. PICK j \in Jobs : j = worker[w].job
  BY WorkerFields DEF BeginJob
<1>2. PICK step : step = IF jobStatus'[j] = "canceled" THEN "drop" ELSE "work"
  OBVIOUS
<1>3. /\ worker[w].at = "begin" /\ worker[w].job = j
      /\ jobStatus' = jobStatus \/ jobStatus' = [jobStatus EXCEPT ![j] = "processing"]
      /\ Turned(w, step, "none")
      /\ UNCHANGED <<record, makes, caller, derivative, messages, holder, givenUp>>
  BY <1>1, <1>2 DEF BeginJob, Writes, Forgets, Turned, callerVars
<1>4. jobStatus[j] /= "absent"
  BY <1>3 DEF MediaInv, WorkersInv
<1>5. /\ jobStatus' \in [Jobs -> JobStates] /\ jobStatus'[j] /= "absent"
      /\ \A i \in Jobs \ {j} : jobStatus'[i] = jobStatus[i]
      /\ jobStatus'[j] = jobStatus[j] \/ jobStatus'[j] = "processing"
  BY <1>3, <1>4, WorkerFields DEF JobStates, Live
<1>6. PICK y \in MediaWorkerStates :
              /\ WorkerTyped(y) /\ y.job = j /\ y.at = step /\ y.owned = worker[w].owned
              /\ worker' = [worker EXCEPT ![w] = y]
  BY <1>2, <1>3, GoesOn
<1>7. y.owned
  BY <1>3, <1>6, WorkerFields DEF WorkerTyped
<1>8. jobStatus'[j] /= "completed" => Answers(j)'
  <2>1. CASE step = "drop"
    BY <1>6, <2>1, AnswersNow, WorkerFields
  <2>2. CASE step = "work"
    <3>1. Pursues(y, j)
      BY <1>6, <1>7, <2>2 DEF Pursues
    <3> QED
      BY <1>6, <3>1, AnswersNow, WorkerFields
  <2> QED
    BY <1>2, <2>1, <2>2
<1>9. Answers(j) => Answers(j)'
  <2>1. CASE jobStatus'[j] = "completed"
    <3>1. jobStatus'[j] = jobStatus[j] /\ jobStatus[j] = "completed"
      BY <1>5, <2>1
    <3>2. givenUp' = givenUp /\ worker[w].at = "begin"
      BY <1>3
    <3> QED
      BY <1>6, <3>1, <3>2, AnswersStill, WorkerFields
  <2> QED
    BY <1>8, <2>1
<1> QED
  BY <1>3, <1>4, <1>5, <1>6, <1>9, WorkerMoves, WorkerFields

\* A cancellation is noticed: the derivative is marked next (StopCanceled).
LEMMA StopCanceledKeeps ==
    ASSUME MediaInv, NEW w \in MediaWorkers, StopCanceled(w)
    PROVE  MediaInv'
<1>1. PICK j \in Jobs : j = worker[w].job
  BY WorkerFields DEF StopCanceled
<1>2. /\ worker[w].at = "work" /\ worker[w].job = j /\ jobStatus[j] = "canceled"
      /\ Turned(w, "drop", worker[w].saw)
      /\ UNCHANGED <<record, makes, caller, jobStatus, derivative, messages, holder, givenUp>>
  BY <1>1, TurnIs DEF StopCanceled, callerVars
<1>3. worker[w].saw \in {"none", "absent"} \cup Live \cup Settled
  BY WorkerFields DEF MediaWorkerStates
<1>4. PICK y \in MediaWorkerStates :
              /\ WorkerTyped(y) /\ y.job = j /\ y.at = "drop"
              /\ worker' = [worker EXCEPT ![w] = y]
  BY <1>2, <1>3, GoesOn
<1>5. Answers(j)'
  BY <1>2 DEF Answers
<1> QED
  BY <1>2, <1>4, <1>5, WorkerMoves, WorkerFields

\* "completed" is written, and the derivative marked next (CompleteJob).
LEMMA CompleteJobKeeps ==
    ASSUME MediaInv, NEW w \in MediaWorkers, CompleteJob(w)
    PROVE  MediaInv'
<1>1. PICK j \in Jobs : j = worker[w].job
  BY WorkerFields DEF CompleteJob
<1>2. /\ worker[w].at = "work" /\ worker[w].job = j
      /\ jobStatus' = [jobStatus EXCEPT ![j] = "completed"]
      /\ Turned(w, "ready", worker[w].saw)
      /\ UNCHANGED <<record, makes, caller, derivative, messages, holder, givenUp>>
  BY <1>1, TurnIs DEF CompleteJob, Writes, callerVars
<1>3. worker[w].saw \in {"none", "absent"} \cup Live \cup Settled
  BY WorkerFields DEF MediaWorkerStates
<1>4. PICK y \in MediaWorkerStates :
              /\ WorkerTyped(y) /\ y.job = j /\ y.at = "ready"
              /\ worker' = [worker EXCEPT ![w] = y]
  BY <1>2, <1>3, GoesOn
<1>5. jobStatus[j] /= "absent"
  BY <1>2 DEF MediaInv, WorkersInv
<1>6. /\ jobStatus' \in [Jobs -> JobStates] /\ jobStatus'[j] /= "absent"
      /\ \A i \in Jobs \ {j} : jobStatus'[i] = jobStatus[i]
  BY <1>2, WorkerFields DEF JobStates, Settled
<1>7. Answers(j)'
  BY <1>4, AnswersNow, WorkerFields
<1> QED
  BY <1>2, <1>4, <1>5, <1>6, <1>7, WorkerMoves, WorkerFields

\* markReady() and markFailed(): the derivative is no longer in progress.
LEMMA SyncDerivativeKeeps ==
    ASSUME MediaInv, NEW w \in MediaWorkers, NEW step \in {"ready", "drop"},
           NEW s \in {"ready", "failed"}, SyncDerivative(w, step, s)
    PROVE  MediaInv'
<1>1. PICK j \in Jobs : j = worker[w].job
  BY WorkerFields DEF SyncDerivative
<1>2. /\ worker[w].at = step /\ worker[w].job = j
      /\ derivative' = IF makes[j] /= Nothing /\ derivative[makes[j]] /= "absent"
                       THEN [derivative EXCEPT ![makes[j]] = s] ELSE derivative
      /\ Turned(w, "finish", worker[w].saw)
      /\ UNCHANGED <<record, makes, caller, jobStatus, messages, holder, givenUp>>
  BY <1>1, TurnIs DEF SyncDerivative, callerVars
<1>3. worker[w].saw \in {"none", "absent"} \cup Live \cup Settled
  BY WorkerFields DEF MediaWorkerStates
<1>4. PICK y \in MediaWorkerStates :
              /\ WorkerTyped(y) /\ y.job = j /\ y.at = "finish"
              /\ worker' = [worker EXCEPT ![w] = y]
  BY <1>2, <1>3, GoesOn
<1>5. jobStatus[j] /= "absent"
  BY <1>2 DEF MediaInv, WorkersInv
<1>6. /\ derivative' \in [Derivatives -> {"absent", "processing", "ready", "failed"}]
      /\ \A d \in Derivatives : derivative'[d] = "processing" => derivative[d] = "processing"
      /\ makes[j] \in Derivatives => derivative'[makes[j]] /= "processing"
  BY <1>2, NothingAssumption, WorkerFields
<1> QED
  BY <1>2, <1>4, <1>5, <1>6, WorkerMoves, WorkerFields

\* The locks of a worker that lets go, or dies, keep their type.
LEMMA LocksTyped ==
    ASSUME MediaInv, NEW w \in MediaWorkers, LetGo(w) \/ Leak(w)
    PROVE  holder' \in [Jobs -> MediaWorkers \cup {"free", "leaked"}]
BY WorkerFields DEF LetGo, Leak

\* The tool fails: the message goes back, or failed() is called (WorkThrows).
LEMMA WorkThrowsKeeps ==
    ASSUME MediaInv, NEW w \in MediaWorkers, WorkThrows(w)
    PROVE  MediaInv'
<1>1. PICK j \in Jobs : j = worker[w].job
  BY WorkerFields DEF WorkThrows
<1>2. /\ worker[w].at = "work" /\ worker[w].job = j /\ LetGo(w)
      /\ UNCHANGED <<record, makes, caller, jobStatus, derivative, givenUp>>
  BY <1>1 DEF WorkThrows, callerVars
<1>3. holder' \in [Jobs -> MediaWorkers \cup {"free", "leaked"}]
  BY <1>2, LocksTyped
<1>4. CASE worker[w].try < JobTries
  <2>1. Put(j, worker[w].try) /\ worker' = [worker EXCEPT ![w] = Polling]
    BY <1>1, <1>4 DEF WorkThrows, Polls
  <2>2. /\ messages' \in MessageCounts /\ \A i \in Jobs \ {j} : messages'[i] = messages[i]
        /\ Waiting(j)'
    BY <2>1, PutMessage, WorkerFields
  <2>3. jobStatus[j] /= "completed" => Answers(j)'
    BY <1>2, <2>1, <2>2, AnswersNow, WorkerFields
  <2>4. Answers(j) => Answers(j)'
    BY <1>2, <2>1, <2>3, AnswersStill, WorkerFields
  <2> QED
    BY <1>2, <1>3, <2>1, <2>2, <2>4, WorkerMoves, WorkerFields
<1>5. CASE ~(worker[w].try < JobTries)
  <2>1. PICK y : y = Failing(j)
    OBVIOUS
  <2>2. worker' = [worker EXCEPT ![w] = y] /\ messages' = messages
    BY <1>1, <1>5, <2>1 DEF WorkThrows
  <2>3. y \in MediaWorkerStates /\ y.job = j /\ y.at = "failing"
    BY <2>1, WorkerFields DEF Failing, Polling, MediaWorkerStates
  <2>4. Pursues(y, j) /\ WorkerTyped(y)
    BY <2>3 DEF Pursues, WorkerTyped
  <2>5. jobStatus[j] /= "completed" => Answers(j)'
    BY <1>2, <2>2, <2>4, AnswersNow, WorkerFields
  <2>6. Answers(j) => Answers(j)'
    BY <1>2, <2>2, <2>5, AnswersStill, WorkerFields
  <2> QED
    BY <1>2, <1>3, <2>2, <2>3, <2>4, <2>6, WorkerMoves, WorkerFields
<1> QED
  BY <1>4, <1>5

\* The message is done with: the worker was not what answered (FinishJob).
LEMMA FinishJobKeeps ==
    ASSUME MediaInv, NEW w \in MediaWorkers, FinishJob(w)
    PROVE  MediaInv'
<1>1. PICK j \in Jobs : j = worker[w].job
  BY WorkerFields DEF FinishJob
<1>2. /\ worker[w].at = "finish" /\ worker[w].job = j /\ LetGo(w)
      /\ worker' = [worker EXCEPT ![w] = Polling]
      /\ UNCHANGED <<record, makes, caller, jobStatus, derivative, messages, givenUp>>
  BY <1>1 DEF FinishJob, Polls, callerVars
<1>3. holder' \in [Jobs -> MediaWorkers \cup {"free", "leaked"}]
  BY <1>2, LocksTyped
<1>4. ~Pursues(worker[w], j)
  BY <1>2 DEF Pursues
<1>5. Waiting(j) => Waiting(j)'
  BY <1>2 DEF Waiting
<1>6. jobStatus[j] /= "completed" /\ Waiting(j) => Answers(j)'
  BY <1>2, <1>5, AnswersNow, WorkerFields
<1>7. Answers(j) => Answers(j)'
  BY <1>2, <1>4, <1>6, AnswersStill, WorkerFields
<1> QED
  BY <1>2, <1>3, <1>7, WorkerMoves, WorkerFields

\* failed() reads the row: it marks it, or leaves it to whoever answers (FailedFinds).
LEMMA FailedFindsKeeps ==
    ASSUME MediaInv, NEW w \in MediaWorkers, FailedFinds(w)
    PROVE  MediaInv'
<1>1. PICK j \in Jobs : j = worker[w].job
  BY WorkerFields DEF FailedFinds
<1>2. /\ worker[w].at = "failing" /\ worker[w].job = j /\ Looks(j)
      /\ UNCHANGED <<record, makes, caller, jobStatus, derivative, messages, holder>>
  BY <1>1 DEF FailedFinds, callerVars
<1>3. /\ givenUp \subseteq givenUp' /\ givenUp' \subseteq Jobs
      /\ jobStatus[j] = "absent" => j \in givenUp'
  BY <1>2, WorkerFields DEF Looks
<1>4. jobStatus[j] \in JobStates /\ worker[w].saw \in {"none", "absent"} \cup Live \cup Settled
  BY WorkerFields DEF MediaWorkerStates
<1>5. CASE jobStatus[j] \in {"absent", "canceled", "completed"}
  <2>1. Turned(w, "finish", worker[w].saw)
    BY <1>1, <1>5, TurnIs DEF FailedFinds
  <2>2. PICK y \in MediaWorkerStates :
              /\ worker' = [worker EXCEPT ![w] = y]
              /\ WorkerTyped(y) /\ y.job = j /\ y.at = "finish"
    BY <1>2, <1>4, <2>1, GoesOn
  <2>3. jobStatus[j] /= "completed" => Answers(j)'
    BY <1>2, <1>3, <1>5 DEF Answers
  <2>4. Answers(j) => Answers(j)'
    BY <1>2, <1>3, <2>2, <2>3, AnswersStill, WorkerFields
  <2> QED
    BY <1>2, <1>3, <2>2, <2>4, WorkerMoves, WorkerFields
<1>6. CASE jobStatus[j] \notin {"absent", "canceled", "completed"}
  <2>1. Turned(w, "mark", jobStatus[j])
    BY <1>1, <1>6 DEF FailedFinds, Turned
  <2>2. PICK y \in MediaWorkerStates :
              /\ worker' = [worker EXCEPT ![w] = y]
              /\ WorkerTyped(y) /\ y.job = j /\ y.at = "mark"
    BY <1>2, <1>4, <2>1, GoesOn DEF JobStates
  <2>3. Answers(j)'
    BY <2>2, AnswersNow, WorkerFields
  <2> QED
    BY <1>2, <1>3, <1>6, <2>2, <2>3, WorkerMoves, WorkerFields
<1> QED
  BY <1>5, <1>6

\* "failed" is written, and the derivative marked next (MarkJobFailed).
LEMMA MarkJobFailedKeeps ==
    ASSUME MediaInv, NEW w \in MediaWorkers, MarkJobFailed(w)
    PROVE  MediaInv'
<1>1. PICK j \in Jobs : j = worker[w].job
  BY WorkerFields DEF MarkJobFailed
<1>2. /\ worker[w].at = "mark" /\ worker[w].job = j
      /\ jobStatus' = jobStatus \/ jobStatus' = [jobStatus EXCEPT ![j] = "failed"]
      /\ Turned(w, "drop", "none")
      /\ UNCHANGED <<record, makes, caller, derivative, messages, holder, givenUp>>
  BY <1>1 DEF MarkJobFailed, Writes, Forgets, Turned, callerVars
<1>3. PICK y \in MediaWorkerStates :
              /\ worker' = [worker EXCEPT ![w] = y]
              /\ WorkerTyped(y) /\ y.job = j /\ y.at = "drop"
  BY <1>2, GoesOn
<1>4. jobStatus[j] /= "absent"
  BY <1>2 DEF MediaInv, WorkersInv
<1>5. /\ jobStatus' \in [Jobs -> JobStates] /\ jobStatus'[j] /= "absent"
      /\ \A i \in Jobs \ {j} : jobStatus'[i] = jobStatus[i]
  BY <1>2, <1>4, WorkerFields DEF JobStates, Settled
<1>6. Answers(j)'
  BY <1>3, AnswersNow, WorkerFields
<1> QED
  BY <1>2, <1>3, <1>4, <1>5, <1>6, WorkerMoves, WorkerFields

\* The message of a long job is offered again: it pursues it now (OfferAgain).
LEMMA OfferAgainKeeps ==
    ASSUME MediaInv, NEW w \in MediaWorkers, OfferAgain(w)
    PROVE  MediaInv'
<1>1. PICK j \in Jobs : j = worker[w].job
  BY WorkerFields DEF OfferAgain
<1>2. PICK y : y = [worker[w] EXCEPT !.owned = FALSE]
  OBVIOUS
<1>3. /\ worker[w].at = "work" /\ worker[w].job = j /\ Put(j, worker[w].try)
      /\ worker' = [worker EXCEPT ![w].owned = FALSE]
      /\ UNCHANGED <<record, makes, caller, jobStatus, derivative, holder, givenUp>>
  BY <1>1 DEF OfferAgain, callerVars
<1>4. /\ y \in MediaWorkerStates /\ y.job = j /\ y.at = "work"
      /\ worker' = [worker EXCEPT ![w] = y]
  BY <1>2, <1>3, WorkerFields DEF MediaWorkerStates
<1>5. WorkerTyped(y)
  BY <1>4 DEF WorkerTyped
<1>6. /\ messages' \in MessageCounts /\ \A i \in Jobs \ {j} : messages'[i] = messages[i]
      /\ Waiting(j)'
  BY <1>3, PutMessage, WorkerFields
<1>7. jobStatus[j] /= "completed" => Answers(j)'
  BY <1>3, <1>4, <1>6, AnswersNow, WorkerFields
<1>8. Answers(j) => Answers(j)'
  BY <1>3, <1>4, <1>7, AnswersStill, WorkerFields
<1>9. jobStatus[j] /= "absent"
  BY <1>3 DEF MediaInv, WorkersInv
<1> QED
  BY <1>3, <1>4, <1>5, <1>6, <1>8, <1>9, WorkerMoves, WorkerFields

\* A worker dies: its message lapses, or the job is given up (WorkerDies).
LEMMA WorkerDiesKeeps ==
    ASSUME MediaInv, NEW w \in MediaWorkers, WorkerDies(w)
    PROVE  MediaInv'
<1>1. PICK j \in Jobs : j = worker[w].job
  BY WorkerFields DEF WorkerDies
<1>2. /\ worker[w].at /= "poll" /\ worker[w].job = j /\ Leak(w)
      /\ worker' = [worker EXCEPT ![w] = Polling]
      /\ UNCHANGED <<record, makes, caller, jobStatus, derivative>>
      /\ IF worker[w].owned THEN Put(j, worker[w].try) ELSE UNCHANGED messages
  BY <1>1 DEF WorkerDies, Polls, callerVars
<1>3. holder' \in [Jobs -> MediaWorkers \cup {"free", "leaked"}]
  BY <1>2, LocksTyped
<1>4. /\ givenUp \subseteq givenUp' /\ givenUp' \subseteq Jobs
      /\ worker[w].at \in {"failing", "mark", "ready", "drop"} => j \in givenUp'
  BY <1>1, WorkerFields DEF WorkerDies
<1>5. worker[w].at \in {"failing", "mark", "ready", "drop"} => Answers(j)'
  BY <1>4 DEF Answers
<1>6. /\ messages' \in MessageCounts /\ \A i \in Jobs \ {j} : messages'[i] = messages[i]
      /\ (worker[w].owned \/ Waiting(j)) => Waiting(j)'
  <2>1. CASE worker[w].owned
    BY <1>2, <2>1, PutMessage, WorkerFields
  <2>2. CASE ~worker[w].owned
    <3>1. messages' = messages
      BY <1>2, <2>2
    <3> QED
      BY <2>2, <3>1, WorkerFields DEF Waiting
  <2> QED
    BY <2>1, <2>2
<1>7. jobStatus[j] /= "completed" /\ Waiting(j)' => Answers(j)'
  BY <1>2, AnswersNow, WorkerFields
<1>8. jobStatus[j] /= "completed" /\ (Pursues(worker[w], j) \/ Waiting(j)) => Answers(j)'
  BY <1>5, <1>6, <1>7 DEF Pursues
<1>9. Answers(j) => Answers(j)'
  BY <1>2, <1>4, <1>5, <1>8, AnswersStill, WorkerFields
<1> QED
  BY <1>2, <1>3, <1>4, <1>6, <1>9, WorkerMoves, WorkerFields

\* Whatever a worker does, or is done to it.
LEMMA WorkersKeep ==
    ASSUME MediaInv, NEW w \in MediaWorkers,
           MediaWorkerStep(w) \/ OfferAgain(w) \/ WorkerDies(w)
    PROVE  MediaInv'
BY TakeExhaustedKeeps, TakeMessageKeeps, JobOverlappedKeeps, FindJobKeeps, BeginJobKeeps,
   StopCanceledKeeps, CompleteJobKeeps, WorkThrowsKeeps, SyncDerivativeKeeps, FinishJobKeeps,
   FailedFindsKeeps, MarkJobFailedKeeps, OfferAgainKeeps, WorkerDiesKeeps
   DEF MediaWorkerStep, MarkReady, MarkDerivativeFailed

-----------------------------------------------------------------------------
(* Steps of a caller.                                                      *)

\* What the types say of one caller.
LEMMA CallerFields ==
    ASSUME MediaInv, NEW c \in Callers
    PROVE  /\ caller \in [Callers -> CallerStates] /\ caller[c] \in CallerStates
           /\ CallerTyped(caller[c])
           /\ caller[c].at \in {"attach", "dispatch", "commit", "cancel"} => caller[c].job \in Jobs
           /\ Resting \in CallerStates /\ CallerTyped(Resting)
           /\ Resting.at = "rest" /\ Resting.job = Nothing /\ Resting.row = Nothing
           /\ record \in {"absent", "ingesting", "present", "attached"}
           /\ messages \in MessageCounts
           /\ jobStatus \in [Jobs -> JobStates]
           /\ makes \in [Jobs -> Derivatives \cup {Nothing}]
           /\ derivative \in [Derivatives -> {"absent", "processing", "ready", "failed"}]
           /\ givenUp \subseteq Jobs
           /\ Nothing \notin Jobs /\ Nothing \notin Derivatives
<1>1. /\ caller \in [Callers -> CallerStates] /\ CallerTyped(caller[c])
      /\ record \in {"absent", "ingesting", "present", "attached"}
      /\ messages \in MessageCounts
      /\ jobStatus \in [Jobs -> JobStates]
      /\ makes \in [Jobs -> Derivatives \cup {Nothing}]
      /\ derivative \in [Derivatives -> {"absent", "processing", "ready", "failed"}]
      /\ givenUp \subseteq Jobs
  BY DEF MediaInv, MediaTypes, MediaTypeOK, MessageCounts, JobStates
<1>2. Resting \in CallerStates
  BY DEF Resting, CallerStates
<1> QED
  BY <1>1, <1>2, NothingAssumption DEF Resting, CallerTyped

\* While the workers rest, a job that a caller's step is not about is the same.
LEMMA CallersOtherJob ==
    ASSUME NEW i \in Jobs, worker' = worker, messages'[i] = messages[i],
           jobStatus'[i] = jobStatus[i], givenUp \subseteq givenUp'
    PROVE  /\ Carried(i)' = Carried(i)
           /\ Answers(i) => Answers(i)'
<1>1. Carried(i)' = Carried(i)
  BY DEF Carried
<1>2. Marks(i)' = Marks(i)
  BY DEF Marks
<1>3. Pursued(i)' = Pursued(i)
  BY DEF Pursued, Waiting, Pursues
<1> QED
  BY <1>1, <1>2, <1>3 DEF Answers

\* What a caller that is at a step has to have of its job, and of the others.
Fits(x) ==
    /\ x.at \in {"attach", "dispatch"} =>
          /\ makes[x.job] = x.row
          /\ jobStatus[x.job] \in {"queued", "canceled"}
          /\ ~Carried(x.job)
    /\ x.at = "commit" => jobStatus[x.job] = "absent" /\ Answers(x.job)
    /\ x.at = "cancel" => jobStatus[x.job] /= "absent"

HoldsAlone(c) ==
    Holds(caller[c]) =>
        \A o \in Callers \ {c} : caller[o].job = caller[c].job => caller[o].at = "cancel"

\* CallersInv, caller by caller.
LEMMA CallersInvIs == CallersInv <=> \A c \in Callers : Fits(caller[c]) /\ HoldsAlone(c)
BY DEF CallersInv, Fits, HoldsAlone

\* A step of a caller is about one job at most, which no other caller holds, or
\* which it cancels.
OnlyAbout(j) ==
    \A i \in Jobs \ {j} :
        messages'[i] = messages[i] /\ jobStatus'[i] = jobStatus[i] /\ makes'[i] = makes[i]

OthersAllow(c, j) ==
    /\ \/ \A o \in Callers \ {c} : caller[o].job = j => caller[o].at = "cancel"
       \/ /\ jobStatus[j] /= "absent" /\ jobStatus'[j] = "canceled"
          /\ messages'[j] = messages[j] /\ makes'[j] = makes[j]
    /\ jobStatus[j] /= "absent" => jobStatus'[j] /= "absent"
    /\ jobStatus'[j] = "absent" => makes'[j] = Nothing

\* A step of one caller about one job, which no other caller holds.
LEMMA CallerMoves ==
    ASSUME MediaInv, NEW c \in Callers, NEW j \in Jobs \cup {Nothing}, NEW y,
           caller' = [caller EXCEPT ![c] = y], CallerTyped(y),
           UNCHANGED <<holder, worker>>,
           record' \in {"absent", "ingesting", "present", "attached"},
           messages' \in MessageCounts, jobStatus' \in [Jobs -> JobStates],
           makes' \in [Jobs -> Derivatives \cup {Nothing}],
           derivative' \in [Derivatives -> {"absent", "processing", "ready", "failed"}],
           givenUp \subseteq givenUp', givenUp' \subseteq Jobs,
           OnlyAbout(j),
           j \in Jobs => OthersAllow(c, j),
           Fits(y)',
           Holds(y) => \A o \in Callers \ {c} : caller[o].job = y.job => caller[o].at = "cancel",
           \A o \in Callers \ {c} : Holds(caller[o]) /\ y.job = caller[o].job => y.at = "cancel",
           Answered'
    PROVE  MediaInv'
<1>1. /\ caller \in [Callers -> CallerStates] /\ y \in CallerStates
      /\ Nothing \notin Jobs
  BY CallerFields DEF CallerTyped
<1>2. caller'[c] = y /\ \A o \in Callers \ {c} : caller'[o] = caller[o]
  BY <1>1
<1>3. MediaTypes'
  <2>1. caller' \in [Callers -> CallerStates]
    BY <1>1
  <2>2. \A o \in Callers : CallerTyped(caller'[o])
    BY <1>2 DEF MediaInv, MediaTypes
  <2>3. (\A o \in Callers : CallerTyped(caller[o]))'
    BY <2>2 DEF CallerTyped, CallerStates
  <2>4. MediaTypeOK'
    BY DEF MediaInv, MediaTypes, MediaTypeOK, MessageCounts, JobStates
  <2>5. worker \in [MediaWorkers -> MediaWorkerStates] /\ \A w \in MediaWorkers : WorkerTyped(worker[w])
    BY DEF MediaInv, MediaTypes
  <2>6. (worker \in [MediaWorkers -> MediaWorkerStates] /\ \A w \in MediaWorkers : WorkerTyped(worker[w]))'
    BY <2>5 DEF WorkerTyped, MediaWorkerStates, Live, Settled
  <2> QED
    BY <2>1, <2>3, <2>4, <2>6 DEF MediaTypes
<1>4. ASSUME NEW i \in Jobs \ {j}
      PROVE  Carried(i)' = Carried(i) /\ (Answers(i) => Answers(i)')
  BY <1>4, CallersOtherJob DEF OnlyAbout
<1>5. ASSUME NEW o \in Callers \ {c} PROVE Fits(caller[o])' /\ HoldsAlone(o)'
  <2>1. PICK x : x = caller[o]
    OBVIOUS
  <2>2. x = caller'[o] /\ CallerTyped(x) /\ Fits(x) /\ HoldsAlone(o)
    BY <1>2, <1>5, <2>1, CallersInvIs, CallerFields DEF MediaInv
  <2>3. x.at \in {"attach", "dispatch", "commit", "cancel"} => x.job \in Jobs
    BY <2>2 DEF CallerTyped
  <2>4. Fits(x)'
    <3>1. CASE Holds(x)
      <4>1. CASE x.job \in Jobs \ {j}
        BY <1>4, <2>2, <3>1, <4>1 DEF Fits, Holds, OnlyAbout
      <4>2. CASE x.job = j
        <5>1. j \in Jobs /\ x.at /= "cancel"
          BY <2>3, <3>1, <4>2 DEF Holds
        <5>2. /\ jobStatus[j] /= "absent" /\ jobStatus'[j] = "canceled"
              /\ messages'[j] = messages[j] /\ makes'[j] = makes[j]
          BY <1>5, <2>1, <4>2, <5>1 DEF OthersAllow
        <5>3. Carried(j)' = Carried(j)
          BY <5>2 DEF Carried
        <5> QED
          BY <2>2, <3>1, <4>2, <5>2, <5>3 DEF Fits, Holds
      <4> QED
        BY <2>3, <3>1, <4>1, <4>2 DEF Holds
    <3>2. CASE x.at = "cancel"
      BY <2>2, <2>3, <3>2 DEF Fits, OnlyAbout, OthersAllow
    <3> QED
      BY <3>1, <3>2 DEF Fits, Holds
  <2>5. Fits(caller[o])'
    BY <2>2, <2>4 DEF Fits
  <2>6. HoldsAlone(o)'
    BY <1>2, <1>5, <2>1, <2>2 DEF HoldsAlone, Holds
  <2> QED
    BY <2>5, <2>6
<1>6. Fits(caller[c])'
  BY <1>2 DEF Fits
<1>7. HoldsAlone(c)'
  BY <1>2 DEF HoldsAlone, Holds
<1>8. CallersInv'
  <2>1. \A o \in Callers : Fits(caller[o])' /\ HoldsAlone(o)'
    BY <1>5, <1>6, <1>7
  <2> QED
    BY <2>1 DEF CallersInv, Fits, HoldsAlone
<1>9. WorkersInv'
  <2>1. \A v \in MediaWorkers : worker[v].at /= "poll" => worker[v].job \in Jobs
    BY DEF MediaInv, MediaTypes, WorkerTyped
  <2> QED
    BY <2>1 DEF MediaInv, WorkersInv, OnlyAbout, OthersAllow
<1>10. RowsInv'
  BY DEF MediaInv, RowsInv, OnlyAbout, OthersAllow
<1> QED
  BY <1>3, <1>8, <1>9, <1>10 DEF MediaInv

\* A derivative in progress is answered for after a step of one caller about one
\* job, if the job goes on answering and the caller leaves no row behind.
LEMMA AnsweredMoves ==
    ASSUME MediaInv, NEW c \in Callers, NEW j \in Jobs \cup {Nothing}, NEW y,
           caller' = [caller EXCEPT ![c] = y], worker' = worker, givenUp \subseteq givenUp',
           OnlyAbout(j),
           j \in Jobs => \/ makes[j] = Nothing
                         \/ makes'[j] = makes[j] /\ (Answers(j) => Answers(j)'),
           caller[c].at = "dispatch" => \E i \in Jobs : makes'[i] = caller[c].row /\ Answers(i)',
           \A d \in Derivatives : derivative'[d] = "processing" =>
               \/ derivative[d] = "processing"
               \/ \E i \in Jobs : makes'[i] = d /\ Answers(i)'
               \/ y.row = d /\ y.at = "dispatch"
    PROVE  Answered'
<1>1. caller \in [Callers -> CallerStates] /\ Nothing \notin Derivatives
  BY CallerFields
<1>2. caller'[c] = y /\ \A o \in Callers \ {c} : caller'[o] = caller[o]
  BY <1>1
<1>3. ASSUME NEW d \in Derivatives, derivative'[d] = "processing"
      PROVE  \/ \E i \in Jobs : makes'[i] = d /\ Answers(i)'
             \/ \E o \in Callers : caller'[o].row = d /\ caller'[o].at = "dispatch"
  <2>1. CASE derivative[d] = "processing"
    <3>1. ASSUME NEW i \in Jobs, makes[i] = d, Answers(i)
          PROVE  makes'[i] = d /\ Answers(i)'
      <4>1. CASE i = j
        BY <1>1, <3>1, <4>1
      <4>2. CASE i /= j
        BY <3>1, <4>2, CallersOtherJob DEF OnlyAbout
      <4> QED
        BY <4>1, <4>2
    <3>2. ASSUME NEW o \in Callers, caller[o].row = d, caller[o].at = "dispatch"
          PROVE  \/ \E i \in Jobs : makes'[i] = d /\ Answers(i)'
                 \/ \E q \in Callers : caller'[q].row = d /\ caller'[q].at = "dispatch"
      <4>1. CASE o = c
        BY <3>2, <4>1
      <4>2. CASE o /= c
        BY <1>2, <3>2, <4>2
      <4> QED
        BY <4>1, <4>2
    <3> QED
      BY <1>3, <2>1, <3>1, <3>2 DEF MediaInv, Answered
  <2>2. CASE \E i \in Jobs : makes'[i] = d /\ Answers(i)'
    BY <2>2
  <2>3. CASE y.row = d /\ y.at = "dispatch"
    BY <1>2, <2>3
  <2> QED
    BY <1>3, <2>1, <2>2, <2>3
<1> QED
  BY <1>3 DEF Answered, Answers, Marks, Pursued, Waiting, Pursues

\* Who holds has a job.
LEMMA HoldersHave ==
    ASSUME MediaInv, NEW o \in Callers, Holds(caller[o])
    PROVE  caller[o].job \in Jobs
BY CallerFields DEF Holds

\* The caller goes where it has no job, and leaves every row as it was.
LEMMA QuietMove ==
    ASSUME MediaInv, NEW c \in Callers, NEW y, caller' = [caller EXCEPT ![c] = y],
           y \in CallerStates, y.job = Nothing, y.at \in {"rest", "insert"},
           y.at = "insert" /\ y.op = "derive" => y.row \in Derivatives,
           caller[c].at /= "dispatch",
           UNCHANGED <<record, jobStatus, makes, derivative, messages, holder, worker, givenUp>>
    PROVE  MediaInv'
<1>1. CallerTyped(y) /\ Fits(y)' /\ ~Holds(y)
  BY DEF CallerTyped, Fits, Holds
<1>2. \A o \in Callers \ {c} : Holds(caller[o]) /\ y.job = caller[o].job => y.at = "cancel"
  BY HoldersHave, CallerFields
<1>a. OnlyAbout(Nothing)
  BY DEF OnlyAbout
<1>3. Answered'
  BY <1>a, AnsweredMoves, CallerFields
<1> QED
  BY <1>1, <1>a, <1>2, <1>3, CallerMoves, CallerFields

\* findOrBuildPending() finds a failed row, or builds one (FindOrBuild).
LEMMA FindOrBuildKeeps ==
    ASSUME MediaInv, NEW c \in Callers, NEW d \in Derivatives, FindOrBuild(c, d)
    PROVE  MediaInv'
<1>1. PICK y : y = [op |-> "derive", at |-> "insert", job |-> Nothing, row |-> d]
  OBVIOUS
<1>2. y \in CallerStates /\ y.job = Nothing /\ y.at = "insert" /\ y.row = d
  BY <1>1 DEF CallerStates
<1>3. /\ caller' = [caller EXCEPT ![c] = y] /\ caller[c].at = "rest"
      /\ UNCHANGED <<record, jobStatus, makes, derivative, messages, holder, worker, givenUp>>
  BY <1>1 DEF FindOrBuild, Starts, jobRunVars
<1> QED
  BY <1>2, <1>3, QuietMove

\* retry() reads a failed job (OpenRetry).
LEMMA OpenRetryKeeps ==
    ASSUME MediaInv, NEW c \in Callers, NEW j \in Jobs, OpenRetry(c, j)
    PROVE  MediaInv'
<1>1. PICK y : y = [op |-> "retry", at |-> "insert", job |-> Nothing, row |-> makes[j]]
  OBVIOUS
<1>2. y \in CallerStates /\ y.job = Nothing /\ y.at = "insert" /\ y.op = "retry"
  BY <1>1, CallerFields DEF CallerStates
<1>3. /\ caller' = [caller EXCEPT ![c] = y] /\ caller[c].at = "rest"
      /\ UNCHANGED <<record, jobStatus, makes, derivative, messages, holder, worker, givenUp>>
  BY <1>1 DEF OpenRetry, Starts, jobRunVars
<1> QED
  BY <1>2, <1>3, QuietMove

\* The queue is at capacity: nothing was written (AtCapacity).
LEMMA AtCapacityKeeps ==
    ASSUME MediaInv, NEW c \in Callers, AtCapacity(c)
    PROVE  MediaInv'
<1>1. /\ caller' = [caller EXCEPT ![c] = Resting] /\ caller[c].at = "insert"
      /\ UNCHANGED <<record, jobStatus, makes, derivative, messages, holder, worker, givenUp>>
  BY DEF AtCapacity, Rests, jobRunVars
<1> QED
  BY <1>1, QuietMove, CallerFields

\* cancel() reads a job whose row is there, so that it still is when it writes (OpenCancel).
LEMMA OpenCancelKeeps ==
    ASSUME MediaInv, NEW c \in Callers, NEW j \in Jobs, OpenCancel(c, j)
    PROVE  MediaInv'
<1>1. PICK y : y = [op |-> "cancel", at |-> "cancel", job |-> j, row |-> Nothing]
  OBVIOUS
<1>2. y \in CallerStates /\ y.job = j /\ y.at = "cancel"
  BY <1>1 DEF CallerStates
<1>3. /\ caller' = [caller EXCEPT ![c] = y] /\ caller[c].at = "rest" /\ jobStatus[j] \in Live
      /\ UNCHANGED <<record, jobStatus, makes, derivative, messages, holder, worker, givenUp>>
  BY <1>1 DEF OpenCancel, Starts, jobRunVars
<1>4. CallerTyped(y) /\ Fits(y)' /\ ~Holds(y)
  BY <1>2, <1>3 DEF CallerTyped, Fits, Holds, Live
<1>a. OnlyAbout(Nothing)
  BY <1>3 DEF OnlyAbout
<1>5. Answered'
  BY <1>2, <1>3, <1>a, AnsweredMoves, CallerFields
<1> QED
  BY <1>2, <1>a, <1>3, <1>4, <1>5, CallerMoves, CallerFields

\* The row of a new job is inserted: nobody is at it, and nothing was (InsertJob).
LEMMA InsertJobKeeps ==
    ASSUME MediaInv, NEW c \in Callers, NEW j \in Jobs, InsertJob(c, j)
    PROVE  MediaInv'
<1>1. PICK step : step = IF caller[c].op = "derive" THEN "attach" ELSE "dispatch"
  OBVIOUS
<1>2. PICK y : y = [caller[c] EXCEPT !.job = j, !.at = step]
  OBVIOUS
<1>3. /\ caller[c].at = "insert"
      /\ jobStatus' = [jobStatus EXCEPT ![j] = "queued"]
      /\ makes' = [makes EXCEPT ![j] = caller[c].row]
      /\ caller' = [caller EXCEPT ![c].job = j, ![c].at = step]
      /\ UNCHANGED <<record, derivative, messages, holder, worker, givenUp>>
      /\ jobStatus[j] = "absent" /\ ~Carried(j) /\ \A o \in Callers : caller[o].job /= j
  BY <1>1 DEF InsertJob, NewJob, IsNewJob, jobRunVars
<1>4. /\ y \in CallerStates /\ y.job = j /\ y.at = step /\ y.row = caller[c].row
      /\ caller' = [caller EXCEPT ![c] = y]
  BY <1>1, <1>2, <1>3, CallerFields DEF CallerStates
<1>5. CallerTyped(y)
  BY <1>1, <1>3, <1>4, CallerFields DEF CallerTyped
<1>6. caller[c].row \in Derivatives \cup {Nothing}
  BY CallerFields DEF CallerStates
<1>7. /\ jobStatus' \in [Jobs -> JobStates] /\ makes' \in [Jobs -> Derivatives \cup {Nothing}]
      /\ jobStatus'[j] = "queued" /\ makes'[j] = y.row
      /\ \A i \in Jobs \ {j} : jobStatus'[i] = jobStatus[i] /\ makes'[i] = makes[i]
  BY <1>3, <1>4, <1>6, CallerFields DEF JobStates, Live
<1>8. ~Carried(j)'
  BY <1>3 DEF Carried
<1>9. Fits(y)'
  BY <1>1, <1>4, <1>7, <1>8 DEF Fits
<1>10. makes[j] = Nothing
  BY <1>3 DEF MediaInv, RowsInv
<1>a. OnlyAbout(j)
  BY <1>3, <1>7 DEF OnlyAbout
<1>b. worker' = worker /\ givenUp' = givenUp /\ derivative' = derivative /\ caller[c].at /= "dispatch"
  BY <1>3
<1>11. Answered'
  BY <1>4, <1>10, <1>a, <1>b, AnsweredMoves
<1>c. OthersAllow(c, j)
  BY <1>3, <1>7 DEF OthersAllow
<1> QED
  BY <1>a, <1>c, <1>3, <1>4, <1>5, <1>7, <1>9, <1>11, CallerMoves, CallerFields

\* attachJob() writes the row: the caller answers for it until it dispatches (AttachJob).
LEMMA AttachJobKeeps ==
    ASSUME MediaInv, NEW c \in Callers, AttachJob(c)
    PROVE  MediaInv'
<1>1. /\ caller[c].at = "attach"
      /\ UNCHANGED <<record, jobStatus, makes, messages, holder, worker, givenUp>>
  BY DEF AttachJob, jobRunVars
<1>2. CASE Collides(caller[c].row)
  <2>1. caller' = [caller EXCEPT ![c] = Resting] /\ derivative' = derivative
    BY <1>2 DEF AttachJob, Rests
  <2> QED
    BY <1>1, <2>1, QuietMove, CallerFields
<1>3. CASE ~Collides(caller[c].row)
  <2>1. /\ caller' = [caller EXCEPT ![c].at = "dispatch"]
        /\ derivative' = [derivative EXCEPT ![caller[c].row] = "processing"]
    BY <1>3 DEF AttachJob, Does
  <2>2. PICK y : y = [caller[c] EXCEPT !.at = "dispatch"]
    OBVIOUS
  <2>3. /\ y \in CallerStates /\ y.job = caller[c].job /\ y.at = "dispatch"
        /\ y.row = caller[c].row /\ caller' = [caller EXCEPT ![c] = y]
    BY <2>1, <2>2, CallerFields DEF CallerStates
  <2>4. caller[c].row \in Derivatives /\ caller[c].job \in Jobs
    BY <1>1, CallerFields DEF CallerTyped
  <2>5. CallerTyped(y) /\ Holds(y) /\ Holds(caller[c])
    BY <1>1, <2>3, <2>4 DEF CallerTyped, Holds
  <2>6. Fits(caller[c]) /\ HoldsAlone(c)
    BY CallersInvIs DEF MediaInv
  <2>7. Carried(y.job)' = Carried(y.job)
    BY <1>1 DEF Carried
  <2>8. Fits(y)'
    BY <1>1, <2>3, <2>6, <2>7 DEF Fits
  <2>9. /\ derivative' \in [Derivatives -> {"absent", "processing", "ready", "failed"}]
        /\ \A d \in Derivatives : derivative'[d] = "processing" =>
               derivative[d] = "processing" \/ y.row = d
    BY <2>1, <2>3, <2>4, CallerFields
  <2>a. OnlyAbout(Nothing)
    BY <1>1 DEF OnlyAbout
  <2>b. /\ worker' = worker /\ givenUp' = givenUp /\ caller[c].at /= "dispatch"
        /\ Nothing \notin Jobs
    BY <1>1, CallerFields
  <2>10. Answered'
    BY <2>3, <2>9, <2>a, <2>b, AnsweredMoves
  <2>11. \A o \in Callers \ {c} : caller[o].job = y.job => caller[o].at = "cancel"
    BY <2>3, <2>5, <2>6 DEF HoldsAlone
  <2>12. \A o \in Callers \ {c} : Holds(caller[o]) /\ y.job = caller[o].job => y.at = "cancel"
    BY <2>11 DEF Holds
  <2> QED
    BY <2>a, <1>1, <2>3, <2>5, <2>8, <2>9, <2>10, <2>11, <2>12, CallerMoves, CallerFields
<1> QED
  BY <1>2, <1>3

\* The message is sent: from now on it pursues the job (Dispatch).
LEMMA DispatchKeeps ==
    ASSUME MediaInv, NEW c \in Callers, Dispatch(c)
    PROVE  MediaInv'
<1>1. PICK j \in Jobs : j = caller[c].job
  BY CallerFields DEF Dispatch
<1>2. /\ caller[c].at = "dispatch" /\ caller[c].job = j /\ Put(j, 0)
      /\ caller' = [caller EXCEPT ![c] = Resting]
      /\ UNCHANGED <<record, jobStatus, makes, derivative, holder, worker, givenUp>>
  BY <1>1 DEF Dispatch, Rests, jobRunVars
<1>3. 0 \in 0..JobTries
  BY JobTriesAssumption
<1>4. /\ messages' \in MessageCounts /\ Waiting(j)'
      /\ \A i \in Jobs \ {j} : messages'[i] = messages[i]
  BY <1>2, <1>3, PutMessage, CallerFields
<1>5. Fits(caller[c]) /\ HoldsAlone(c) /\ Holds(caller[c])
  BY <1>2, CallersInvIs DEF MediaInv, Holds
<1>6. makes[j] = caller[c].row /\ jobStatus[j] \in {"queued", "canceled"}
  BY <1>2, <1>5 DEF Fits
<1>7. Answers(j)'
  BY <1>2, <1>4, <1>6 DEF Answers, Pursued
<1>8. makes'[j] = caller[c].row /\ Answers(j)'
  BY <1>2, <1>6, <1>7
<1>a. OnlyAbout(j)
  BY <1>2, <1>4 DEF OnlyAbout
<1>9. Answered'
  BY <1>2, <1>8, <1>a, AnsweredMoves
<1>10. \A o \in Callers \ {c} : caller[o].job = j => caller[o].at = "cancel"
  BY <1>2, <1>5 DEF HoldsAlone
<1>11. Fits(Resting)' /\ ~Holds(Resting)
  BY CallerFields DEF Fits, Holds
<1>12. \A o \in Callers \ {c} :
          Holds(caller[o]) /\ Resting.job = caller[o].job => Resting.at = "cancel"
  BY HoldersHave, CallerFields
<1>b. j \in Jobs \cup {Nothing} /\ jobStatus'[j] /= "absent" /\ givenUp' = givenUp
  BY <1>2, <1>6
<1>c. OthersAllow(c, j)
  BY <1>10, <1>b DEF OthersAllow
<1>d. /\ UNCHANGED <<holder, worker>> /\ givenUp \subseteq givenUp' /\ givenUp' \subseteq Jobs
      /\ record' \in {"absent", "ingesting", "present", "attached"}
      /\ jobStatus' \in [Jobs -> JobStates] /\ makes' \in [Jobs -> Derivatives \cup {Nothing}]
      /\ derivative' \in [Derivatives -> {"absent", "processing", "ready", "failed"}]
      /\ messages' \in MessageCounts
  BY <1>2, <1>4, CallerFields
<1> QED
  BY <1>2, <1>9, <1>11, <1>12, <1>a, <1>b, <1>c, <1>d, CallerMoves, CallerFields

\* The ingest queues a job that nobody else is at, before its row is seen (QueueBaseline).
LEMMA QueueBaselineKeeps ==
    ASSUME MediaInv, NEW c \in Callers, NEW j \in Jobs, NEW d \in Derivatives,
           QueueBaseline(c, j, d)
    PROVE  MediaInv'
<1>1. PICK y : y = [op |-> "ingest", at |-> "commit", job |-> j, row |-> d]
  OBVIOUS
<1>2. /\ y \in CallerStates /\ y.job = j /\ y.at = "commit" /\ y.row = d
      /\ CallerTyped(y)
  BY <1>1 DEF CallerStates, CallerTyped
<1>3. /\ caller' = [caller EXCEPT ![c] = y] /\ caller[c].at = "rest" /\ Put(j, 0)
      /\ record' = "ingesting"
      /\ jobStatus[j] = "absent" /\ \A o \in Callers : caller[o].job /= j
      /\ UNCHANGED <<jobStatus, makes, derivative, holder, worker, givenUp>>
  BY <1>1 DEF QueueBaseline, NewJob, IsNewJob, Starts, jobRunVars
<1>4. 0 \in 0..JobTries
  BY JobTriesAssumption
<1>5. /\ messages' \in MessageCounts /\ Waiting(j)'
      /\ \A i \in Jobs \ {j} : messages'[i] = messages[i]
  BY <1>3, <1>4, PutMessage, CallerFields
<1>6. Answers(j)'
  BY <1>3, <1>5 DEF Answers, Pursued
<1>7. Fits(y)'
  BY <1>2, <1>3, <1>6 DEF Fits
<1>8. makes[j] = Nothing
  BY <1>3 DEF MediaInv, RowsInv
<1>a. OnlyAbout(j)
  BY <1>3, <1>5 DEF OnlyAbout
<1>9. Answered'
  BY <1>3, <1>8, <1>a, AnsweredMoves
<1>b. /\ j \in Jobs \cup {Nothing} /\ givenUp' = givenUp /\ makes'[j] = Nothing
      /\ \A o \in Callers \ {c} : caller[o].job /= j
  BY <1>3, <1>8
<1>c. OthersAllow(c, j)
  BY <1>3, <1>b DEF OthersAllow
<1>d. /\ UNCHANGED <<holder, worker>> /\ givenUp \subseteq givenUp' /\ givenUp' \subseteq Jobs
      /\ record' \in {"absent", "ingesting", "present", "attached"}
      /\ jobStatus' \in [Jobs -> JobStates] /\ makes' \in [Jobs -> Derivatives \cup {Nothing}]
      /\ derivative' \in [Derivatives -> {"absent", "processing", "ready", "failed"}]
      /\ messages' \in MessageCounts
  BY <1>3, <1>5, CallerFields
<1>e. /\ \A o \in Callers \ {c} : caller[o].job = y.job => caller[o].at = "cancel"
      /\ \A o \in Callers \ {c} : Holds(caller[o]) /\ y.job = caller[o].job => y.at = "cancel"
      /\ caller' = [caller EXCEPT ![c] = y]
  BY <1>2, <1>3
<1> QED
  BY <1>2, <1>7, <1>9, <1>a, <1>b, <1>c, <1>d, <1>e, CallerMoves, CallerFields

\* The ingest commits: the job it queued answers for the row it made (CommitBaseline).
LEMMA CommitBaselineKeeps ==
    ASSUME MediaInv, NEW c \in Callers, CommitBaseline(c)
    PROVE  MediaInv'
<1>1. PICK j \in Jobs : j = caller[c].job
  BY CallerFields DEF CommitBaseline
<1>2. PICK d \in Derivatives : d = caller[c].row
  BY CallerFields DEF CommitBaseline, CallerTyped
<1>3. /\ caller[c].at = "commit" /\ caller[c].job = j /\ record' = "present"
      /\ jobStatus' = [jobStatus EXCEPT ![j] = "queued"]
      /\ makes' = [makes EXCEPT ![j] = d]
      /\ derivative' = [derivative EXCEPT ![d] = "processing"]
      /\ caller' = [caller EXCEPT ![c] = Resting]
      /\ UNCHANGED <<messages, holder, worker, givenUp>>
  BY <1>1, <1>2 DEF CommitBaseline, Rests, jobRunVars
<1>4. /\ jobStatus' \in [Jobs -> JobStates] /\ makes' \in [Jobs -> Derivatives \cup {Nothing}]
      /\ jobStatus'[j] = "queued" /\ makes'[j] = d
      /\ \A i \in Jobs \ {j} : jobStatus'[i] = jobStatus[i] /\ makes'[i] = makes[i]
  BY <1>3, CallerFields DEF JobStates, Live
<1>5. /\ derivative' \in [Derivatives -> {"absent", "processing", "ready", "failed"}]
      /\ \A e \in Derivatives : derivative'[e] = "processing" => derivative[e] = "processing" \/ e = d
  BY <1>3, CallerFields
<1>6. Fits(caller[c]) /\ HoldsAlone(c) /\ Holds(caller[c])
  BY <1>3, CallersInvIs DEF MediaInv, Holds
<1>7. jobStatus[j] = "absent" /\ Answers(j)
  BY <1>3, <1>6 DEF Fits
<1>8. Answers(j)'
  <2>1. j \in givenUp \/ Marks(j) \/ Pursued(j)
    BY <1>7 DEF Answers
  <2>2. Marks(j)' = Marks(j) /\ Pursued(j)' = Pursued(j) /\ givenUp' = givenUp
    BY <1>3 DEF Marks, Pursued, Waiting, Pursues
  <2> QED
    BY <1>4, <2>1, <2>2 DEF Answers
<1>9. makes[j] = Nothing
  BY <1>7 DEF MediaInv, RowsInv
<1>a. OnlyAbout(j)
  BY <1>3, <1>4 DEF OnlyAbout
<1>10. Answered'
  BY <1>3, <1>4, <1>5, <1>8, <1>9, <1>a, AnsweredMoves
<1>11. \A o \in Callers \ {c} : caller[o].job = j => caller[o].at = "cancel"
  BY <1>3, <1>6 DEF HoldsAlone
<1>12. Fits(Resting)' /\ ~Holds(Resting)
  BY CallerFields DEF Fits, Holds
<1>13. \A o \in Callers \ {c} :
          Holds(caller[o]) /\ Resting.job = caller[o].job => Resting.at = "cancel"
  BY HoldersHave, CallerFields
<1>b. /\ j \in Jobs \cup {Nothing} /\ givenUp' = givenUp /\ jobStatus'[j] /= "absent"
      /\ messages' = messages
  BY <1>3, <1>4
<1>c. OthersAllow(c, j)
  BY <1>11, <1>b DEF OthersAllow
<1>d. /\ UNCHANGED <<holder, worker>> /\ givenUp \subseteq givenUp' /\ givenUp' \subseteq Jobs
      /\ record' \in {"absent", "ingesting", "present", "attached"}
      /\ jobStatus' \in [Jobs -> JobStates] /\ makes' \in [Jobs -> Derivatives \cup {Nothing}]
      /\ derivative' \in [Derivatives -> {"absent", "processing", "ready", "failed"}]
      /\ messages' \in MessageCounts
  BY <1>3, <1>4, <1>5, CallerFields
<1> QED
  BY <1>3, <1>10, <1>12, <1>13, <1>a, <1>b, <1>c, <1>d, CallerMoves, CallerFields

\* A cancellation is written over whatever the row has become (SaveCancel).
LEMMA SaveCancelKeeps ==
    ASSUME MediaInv, NEW c \in Callers, SaveCancel(c)
    PROVE  MediaInv'
<1>1. PICK j \in Jobs : j = caller[c].job
  BY CallerFields DEF SaveCancel
<1>2. /\ caller[c].at = "cancel" /\ caller[c].job = j
      /\ jobStatus' = [jobStatus EXCEPT ![j] = "canceled"]
      /\ caller' = [caller EXCEPT ![c] = Resting]
      /\ UNCHANGED <<record, makes, derivative, messages, holder, worker, givenUp>>
  BY <1>1 DEF SaveCancel, Rests, jobRunVars
<1>3. /\ jobStatus' \in [Jobs -> JobStates] /\ jobStatus'[j] = "canceled"
      /\ \A i \in Jobs \ {j} : jobStatus'[i] = jobStatus[i]
  BY <1>2, CallerFields DEF JobStates, Settled
<1>4. jobStatus[j] /= "absent"
  BY <1>2, CallersInvIs DEF MediaInv, Fits
<1>5. Answers(j)'
  BY <1>3 DEF Answers
<1>a. OnlyAbout(j) /\ OthersAllow(c, j)
  BY <1>2, <1>3, <1>4 DEF OnlyAbout, OthersAllow
<1>6. Answered'
  BY <1>2, <1>3, <1>5, <1>a, AnsweredMoves
<1>7. Fits(Resting)' /\ ~Holds(Resting)
  BY CallerFields DEF Fits, Holds
<1>8. \A o \in Callers \ {c} :
          Holds(caller[o]) /\ Resting.job = caller[o].job => Resting.at = "cancel"
  BY HoldersHave, CallerFields
<1> QED
  BY <1>a, <1>2, <1>3, <1>4, <1>6, <1>7, <1>8, CallerMoves, CallerFields

\* A caller dies: a job that it has not dispatched is given up (CallerDies).
LEMMA CallerDiesKeeps ==
    ASSUME MediaInv, NEW c \in Callers, CallerDies(c)
    PROVE  MediaInv'
<1>1. /\ caller' = [caller EXCEPT ![c] = Resting]
      /\ record' \in {record, "absent"}
      /\ givenUp' = IF caller[c].at = "dispatch" THEN givenUp \cup {caller[c].job} ELSE givenUp
      /\ UNCHANGED <<jobStatus, makes, derivative, messages, holder, worker>>
  BY DEF CallerDies, Rests
<1>2. givenUp \subseteq givenUp' /\ givenUp' \subseteq Jobs
  BY <1>1, CallerFields
<1>3. caller[c].at = "dispatch" => \E i \in Jobs : makes'[i] = caller[c].row /\ Answers(i)'
  <2> SUFFICES ASSUME caller[c].at = "dispatch"
               PROVE  \E i \in Jobs : makes'[i] = caller[c].row /\ Answers(i)'
    OBVIOUS
  <2>1. PICK j \in Jobs : j = caller[c].job
    BY CallerFields
  <2>2. makes[j] = caller[c].row
    BY <2>1, CallersInvIs DEF MediaInv, Fits
  <2>3. Answers(j)'
    BY <1>1, <2>1 DEF Answers
  <2> QED
    BY <1>1, <2>2, <2>3
<1>a. OnlyAbout(Nothing)
  BY <1>1 DEF OnlyAbout
<1>b. worker' = worker /\ derivative' = derivative /\ caller' = [caller EXCEPT ![c] = Resting]
  BY <1>1
<1>4. Answered'
  BY <1>2, <1>3, <1>a, <1>b, AnsweredMoves, CallerFields
<1>5. Fits(Resting)' /\ ~Holds(Resting)
  BY CallerFields DEF Fits, Holds
<1>6. \A o \in Callers \ {c} :
          Holds(caller[o]) /\ Resting.job = caller[o].job => Resting.at = "cancel"
  BY HoldersHave, CallerFields
<1> QED
  BY <1>a, <1>1, <1>2, <1>4, <1>5, <1>6, CallerMoves, CallerFields

\* Whatever a caller does, or is done to it.
LEMMA CallersKeep ==
    ASSUME MediaInv, CallerNext
    PROVE  MediaInv'
BY FindOrBuildKeeps, OpenRetryKeeps, AtCapacityKeeps, InsertJobKeeps, AttachJobKeeps,
   DispatchKeeps, QueueBaselineKeeps, CommitBaselineKeeps, OpenCancelKeeps, SaveCancelKeeps,
   CallerDiesKeeps
   DEF CallerNext

\* The inductive invariant of the jobs, the messages and the derivatives.
LEMMA MediaInvariance == MediaSpec => []MediaInv
<1>1. MediaInit => MediaInv
  <2> SUFFICES ASSUME MediaInit PROVE MediaInv
    OBVIOUS
  <2>1. 0 \in 0..JobTries
    BY JobTriesAssumption
  <2>2. Polling \in MediaWorkerStates /\ Polling.at = "poll" /\ Resting \in CallerStates
        /\ Resting.at = "rest" /\ Resting.op = "none"
    BY <2>1 DEF Polling, MediaWorkerStates, Resting, CallerStates
  <2>3. MediaTypes
    BY <2>2 DEF MediaInit, MediaTypes, MediaTypeOK, WorkerTyped, CallerTyped, Live, Settled
  <2>4. CallersInv /\ WorkersInv /\ RowsInv /\ Answered
    BY <2>2 DEF MediaInit, CallersInv, WorkersInv, RowsInv, Answered, Holds
  <2> QED
    BY <2>3, <2>4 DEF MediaInv
<1>2. MediaInv /\ [MediaNext]_mediaVars => MediaInv'
  <2> SUFFICES ASSUME MediaInv, [MediaNext]_mediaVars PROVE MediaInv'
    OBVIOUS
  <2>1. CASE CallerNext
    BY <2>1, CallersKeep
  <2>2. ASSUME NEW w \in MediaWorkers, MediaWorkerStep(w) \/ OfferAgain(w) \/ WorkerDies(w)
        PROVE  MediaInv'
    BY <2>2, WorkersKeep
  <2>3. CASE UNCHANGED mediaVars
    <3>1. UNCHANGED <<record, jobStatus, makes, derivative, caller, messages, holder, worker, givenUp>>
      BY <2>3 DEF mediaVars
    <3>2. MediaTypes'
      BY <3>1 DEF MediaInv, MediaTypes, MediaTypeOK, WorkerTyped, CallerTyped,
                  CallerStates, MediaWorkerStates, Live, Settled
    <3>3. CallersInv' /\ Answered'
      BY <3>1 DEF MediaInv, CallersInv, Holds, Answered, Answers, Carried, Marks, Pursued, Waiting,
                  Pursues
    <3>4. WorkersInv' /\ RowsInv'
      BY <3>1 DEF MediaInv, WorkersInv, RowsInv
    <3> QED
      BY <3>2, <3>3, <3>4 DEF MediaInv
  <2> QED
    BY <2>1, <2>2, <2>3 DEF MediaNext
<1> QED
  BY <1>1, <1>2, PTL DEF MediaSpec

\* Rows, messages, locks and processes keep their types.
THEOREM MediaTypesHold == MediaSpec => []MediaTypeOK
<1>1. MediaInv => MediaTypeOK
  BY DEF MediaInv, MediaTypes
<1> QED
  BY <1>1, MediaInvariance, PTL

\* A derivative in progress is in somebody's hands, for any number of requests,
\* jobs, workers and attempts, and however many of them die.
THEOREM DerivativesInHands == MediaSpec => []InHands
<1>1. MediaInv => InHands
  <2>1. ASSUME NEW j \in Jobs, Answers(j)
        PROVE  Carried(j) \/ jobStatus[j] = "canceled" \/ j \in givenUp
    BY <2>1 DEF Answers, Marks, Pursued, Pursues, Waiting, Carried
  <2>2. MediaInv => Answered
    BY DEF MediaInv
  <2> SUFFICES ASSUME MediaInv, NEW d \in Derivatives, derivative[d] = "processing"
               PROVE  \E j \in Jobs :
                         \/ makes[j] = d /\ (Carried(j) \/ jobStatus[j] = "canceled" \/ j \in givenUp)
                         \/ \E c \in Callers : caller[c].row = d /\ caller[c].at = "dispatch"
    BY DEF InHands
  <2>3. CASE \E j \in Jobs : makes[j] = d /\ Answers(j)
    BY <2>1, <2>3
  <2>4. ASSUME NEW c \in Callers, caller[c].row = d, caller[c].at = "dispatch"
        PROVE  \E j \in Jobs : \E o \in Callers : caller[o].row = d /\ caller[o].at = "dispatch"
    <3>1. caller[c].job \in Jobs
      BY <2>4, CallerFields
    <3> QED
      BY <2>4, <3>1
  <2> QED
    BY <2>2, <2>3, <2>4 DEF Answered
<1> QED
  BY <1>1, MediaInvariance, PTL

-----------------------------------------------------------------------------
(* MCServer: the parts taken together.                                     *)

\* A behaviour of the whole is one of every part.
LEMMA ServerPartsAreRun == ServerSpec => Spec /\ RowSpec /\ ApprovalSpec /\ MediaSpec
<1>1. ServerInit => Init /\ RowInit /\ ApprovalInit /\ MediaInit
  BY DEF ServerInit
<1>2. [ServerNext]_serverVars => [Next]_vars
  BY DEF ServerNext, serverVars
<1>3. [ServerNext]_serverVars => [RowNext]_rowVars
  BY DEF ServerNext, serverVars
<1>4. [ServerNext]_serverVars => [ApprovalNext]_approvalVars
  BY DEF ServerNext, serverVars
<1>5. [ServerNext]_serverVars => [MediaNext]_mediaVars
  BY DEF ServerNext, serverVars
<1> QED
  BY <1>1, <1>2, <1>3, <1>4, <1>5, PTL DEF ServerSpec, Spec, RowSpec, ApprovalSpec, MediaSpec

\* What the server's run checks holds of it for every value of the constants: no
\* chunk is lost, no schedule or record is of half an upload, no request is approved
\* without its quorum, and no derivative is out of everybody's hands.
THEOREM ServerIsSound ==
    ServerSpec => /\ [](AckedKept /\ OneStaging /\ ScheduleIsWhole /\ RecordIsWhole)
                  /\ [](ResumeIsSound /\ SerialConsumersAreSound)
                  /\ [](ApprovedByOthers /\ NoDecisionIsMissed /\ InHands)
                  /\ ImplementsSnapshots
BY ServerPartsAreRun, ChunksAreKept, StagedOnce, SchedulesAreWhole, RecordsAreWhole,
   ResumesSoundly, ConsumedOnce, OthersApprove, DecisionsCount, DerivativesInHands,
   VersionImplementsSnapshots, PTL

=============================================================================
