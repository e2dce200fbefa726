-------------------------- MODULE ApprovalRequests --------------------------
(***************************************************************************)
(* A request to run a sensitive bulk macro that several people have to     *)
(* approve (ApprovalRequestService).  decide() and execute() check the     *)
(* request as it was when they read it and save it later without a lock,   *)
(* a transaction or a version.                                             *)
(***************************************************************************)
EXTENDS FiniteSets, Naturals

CONSTANTS
    People,             \* editors
    Requester,          \* the one who submits
    RequiredApprovals,  \* of the strictest policy, two at least
    Calls,              \* HTTP requests that the server works on
    MaxMacroEdits       \* bound: updates of the macro in a behaviour

ASSUME ApprovalAssumption ==
    /\ IsFiniteSet(People) /\ Requester \in People
    /\ RequiredApprovals \in Nat \ {0, 1}
    /\ MaxMacroEdits \in Nat

Verdicts == {"approve", "reject"}
Statuses == {"unsubmitted", "pending", "approved", "rejected", "executed"}
Versions == 1..(MaxMacroEdits + 1)

\* What the macro does: the number of the update that saved it.
Edits == 0..MaxMacroEdits

VARIABLES
    requestStatus, approvedVersion, \* approval_requests: status, payload.macroVersion
    approvedEdit,                   \* what the macro did when the request was submitted
    decisions,                      \* approval_decisions: each person's, at most one
    macro,                          \* bulk_macros: version, steps, whether it exists
    call,                           \* what each call has done so far
    runs                            \* what the bulk_macro_runs of the request did

askedVars    == <<requestStatus, approvedVersion, approvedEdit>>
approvalVars == <<askedVars, decisions, macro, call, runs>>

\* A call that is not under way, or that died with the request unsaved.
Free == [at |-> "free"]
Dead == [at |-> "dead"]

CallStates ==
    {Free, Dead}
    \cup [at : {"deciding", "decided"}, by : People, verdict : Verdicts]
    \cup [at : {"saving"}, status : {"approved", "rejected", "executed"}]
    \cup [at : {"submitting", "updating"}, version : Versions, edit : Edits]
    \cup [at : {"executing"}, version : Versions]
    \cup [at : {"running"}, edit : Edits]

Approvers == {p \in People : decisions[p] = "approve"}

ApprovalInit ==
    /\ requestStatus = "unsubmitted" /\ approvedVersion = 1 /\ approvedEdit = 0
    /\ decisions = [p \in People |-> "none"]
    /\ macro = [version |-> 1, edit |-> 0, exists |-> TRUE]
    /\ call = [c \in Calls |-> Free]
    /\ runs = {}

Goes(c, to) == call' = [call EXCEPT ![c] = to]

-----------------------------------------------------------------------------
(* submit(), and the macro's own requests.  Each finds the macro first and *)
(* goes by the version that it found.                                      *)

OpenMacro(c, purpose) ==
    /\ call[c] = Free
    /\ macro.exists
    /\ Goes(c, [at |-> purpose, version |-> macro.version, edit |-> macro.edit])
    /\ UNCHANGED <<askedVars, decisions, macro, runs>>

Submit(c) ==
    /\ call[c].at = "submitting"
    /\ requestStatus = "unsubmitted"
    /\ requestStatus' = "pending"
    /\ approvedVersion' = call[c].version /\ approvedEdit' = call[c].edit
    /\ Goes(c, Free)
    /\ UNCHANGED <<decisions, macro, runs>>

\* Two updates that found the same version save the same one.
UpdateMacro(c) ==
    /\ call[c].at = "updating" /\ call[c].version <= MaxMacroEdits /\ macro.edit < MaxMacroEdits
    /\ macro' = IF macro.exists
                THEN [version |-> call[c].version + 1, edit |-> macro.edit + 1, exists |-> TRUE]
                ELSE macro
    /\ Goes(c, Free)
    /\ UNCHANGED <<askedVars, decisions, runs>>

DestroyMacro ==
    /\ macro.exists
    /\ macro' = [macro EXCEPT !.exists = FALSE]
    /\ UNCHANGED <<askedVars, decisions, call, runs>>

-----------------------------------------------------------------------------
(* decide()                                                                *)

OpenDecision(c, p, verdict) ==
    /\ call[c] = Free
    /\ requestStatus = "pending"
    /\ p /= Requester
    /\ Goes(c, [at |-> "deciding", by |-> p, verdict |-> verdict])
    /\ UNCHANGED <<askedVars, decisions, macro, runs>>

\* One decision for each person: the check, and the unique index behind it.
AlreadyDecided(c) ==
    /\ call[c].at = "deciding"
    /\ decisions[call[c].by] /= "none"
    /\ Goes(c, Free)
    /\ UNCHANGED <<askedVars, decisions, macro, runs>>

\* A rejection is saved next, an approval is counted first.
RecordDecision(c) ==
    /\ call[c].at = "deciding"
    /\ decisions[call[c].by] = "none"
    /\ decisions' = [decisions EXCEPT ![call[c].by] = call[c].verdict]
    /\ Goes(c, IF call[c].verdict = "reject"
               THEN [at |-> "saving", status |-> "rejected"]
               ELSE [call[c] EXCEPT !.at = "decided"])
    /\ UNCHANGED <<askedVars, macro, runs>>

\* Mutants: every decision counts; one approval more is asked for.
Enough_AnyDecision == Cardinality({p \in People : decisions[p] /= "none"}) >= RequiredApprovals
Enough_Strict == Cardinality(Approvers) > RequiredApprovals

Enough == Cardinality(Approvers) >= RequiredApprovals

CountApprovals(c) ==
    /\ call[c].at = "decided"
    /\ Goes(c, IF Enough THEN [at |-> "saving", status |-> "approved"] ELSE Free)
    /\ UNCHANGED <<askedVars, decisions, macro, runs>>

\* The status alone is written, over whatever it has become.
SaveStatus(c) ==
    /\ call[c].at = "saving"
    /\ requestStatus' = call[c].status
    /\ Goes(c, Free)
    /\ UNCHANGED <<approvedVersion, approvedEdit, decisions, macro, runs>>

-----------------------------------------------------------------------------
(* execute(), and a worker that dies.                                      *)

OpenExecution(c) ==
    /\ call[c] = Free
    /\ requestStatus = "approved"
    /\ Goes(c, [at |-> "executing", version |-> approvedVersion])
    /\ UNCHANGED <<askedVars, decisions, macro, runs>>

MacroGoneOrStale(c) ==
    /\ call[c].at = "executing"
    /\ ~macro.exists \/ macro.version /= call[c].version
    /\ Goes(c, Free)
    /\ UNCHANGED <<askedVars, decisions, macro, runs>>

FindMacro(c) ==
    /\ call[c].at = "executing"
    /\ macro.exists /\ macro.version = call[c].version
    /\ Goes(c, [at |-> "running", edit |-> macro.edit])
    /\ UNCHANGED <<askedVars, decisions, macro, runs>>

\* BulkMacroService::execute, of the macro as it was found: it may have been
\* updated since.
Run(c) ==
    /\ call[c].at = "running"
    /\ runs' = runs \cup {call[c].edit}
    /\ Goes(c, [at |-> "saving", status |-> "executed"])
    /\ UNCHANGED <<askedVars, decisions, macro>>

Die(c) ==
    /\ call[c] \notin {Free, Dead}
    /\ Goes(c, Dead)
    /\ UNCHANGED <<askedVars, decisions, macro, runs>>

ApprovalNext ==
    \/ \E c \in Calls :
        \/ OpenMacro(c, "submitting") \/ Submit(c)
        \/ OpenMacro(c, "updating") \/ UpdateMacro(c)
        \/ \E p \in People, verdict \in Verdicts : OpenDecision(c, p, verdict)
        \/ AlreadyDecided(c) \/ RecordDecision(c) \/ CountApprovals(c) \/ SaveStatus(c)
        \/ OpenExecution(c) \/ MacroGoneOrStale(c) \/ FindMacro(c) \/ Run(c)
        \/ Die(c)
    \/ DestroyMacro

ApprovalSpec == ApprovalInit /\ [][ApprovalNext]_approvalVars

-----------------------------------------------------------------------------
(* Properties                                                              *)

ApprovalTypeOK ==
    /\ requestStatus \in Statuses /\ approvedVersion \in Versions /\ approvedEdit \in Edits
    /\ decisions \in [People -> Verdicts \cup {"none"}]
    /\ macro \in [version : Versions, edit : Edits, exists : BOOLEAN]
    /\ call \in [Calls -> CallStates]
    /\ runs \subseteq Edits

Quorum == Cardinality(Approvers) >= RequiredApprovals

OthersApproved == Cardinality(Approvers \ {Requester}) >= RequiredApprovals

\* Every update has moved the version on: none has saved one that was there before.
EveryEditCounts == macro.version = macro.edit + 1

\* Nothing runs, and nothing counts as approved, before as many people as the
\* policy asks for have approved, without the requester: however the decisions
\* interleave, and however often the request is executed.  What runs is what was
\* submitted to them, whoever updates the macro meanwhile, unless two updates
\* saved one version (decide, execute, SelfApprovalGuard).
ApprovedByOthers ==
    /\ requestStatus \in {"approved", "executed"} \/ runs /= {} => OthersApproved
    /\ EveryEditCounts => runs \subseteq {approvedEdit}

\* Calls that have written a decision and have not said so in the request yet;
\* one that died never will.
Unfinished == {c \in Calls : call[c].at \in {"decided", "saving", "dead"}}

\* No quorum is missed: two approvals that come together are both counted by
\* the later of the two, so a request that has enough of them, or a rejection,
\* is no longer pending once the calls are answered (decide).
NoDecisionIsMissed ==
    requestStatus = "pending" /\ Unfinished = {} =>
        ~Quorum /\ \A p \in People : decisions[p] /= "reject"

=============================================================================
