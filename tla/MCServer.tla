------------------------------ MODULE MCServer ------------------------------
(***************************************************************************)
(* Four parts of the server on small instances, for TLC: chunked upload    *)
(* sessions, a schedule's row with its version guard and the states of an  *)
(* upload, an approval request, and media jobs.  They share no state: a    *)
(* behaviour is one of the part that it is about, with the others at rest. *)
(* A file whose content is refused has a checksum.                         *)
(* Of an approval there are two kinds: "approval", where the macro is      *)
(* edited once and one process killed, and "edits", where the macro may be *)
(* edited twice, but nothing is killed and no more people decide than      *)
(* there must, who agree.                                                  *)
(* Of media jobs there are two kinds: "media", where one process is killed *)
(* or one message offered again but requests make a single derivative row, *)
(* and "races", where they may make two and nothing goes wrong.            *)
(***************************************************************************)
EXTENDS UploadSessions, VersionedRow, ApprovalRequests, MediaJobs, TLC

VARIABLE about

MCLegal == [scheduled  |-> {"scheduled", "claimed", "cancelled"},
            claimed    |-> {"processing", "cancelled", "scheduled"},
            processing |-> {"completed", "failed"},
            completed  |-> {},
            cancelled  |-> {},
            failed     |-> {"scheduled"}]
MCStatus == DOMAIN MCLegal

MCSymmetry ==
    Permutations(Requests) \cup Permutations(Keys)

Indifferent == CHOOSE p \in People \ {Requester} : TRUE
Dissent ==
    [at : {"deciding"}, by : People, verdict : {"reject"}]
    \cup [at : {"deciding"}, by : {Indifferent}, verdict : {"approve"}]

FirstDerivative == CHOOSE d \in Derivatives : TRUE

serverVars == <<about, vars, rowVars, approvalVars, mediaVars>>

ServerInit ==
    /\ about \in {"sessions", "row", "approval", "edits", "media", "races"}
    /\ Init /\ RowInit /\ ApprovalInit /\ MediaInit
    /\ checked \/ safe
    /\ about /= "sessions" => checked /\ safe /\ \A r, q \in Requests : key[r] = key[q]
    /\ about = "media" => record /= "attached"
    /\ about \notin {"media", "races"} => record = "absent"

ServerNext ==
    /\ UNCHANGED about
    /\ IF about = "sessions" THEN Next ELSE UNCHANGED vars
    /\ IF about = "row" THEN RowNext ELSE UNCHANGED rowVars
    /\ IF about \in {"approval", "edits"} THEN ApprovalNext ELSE UNCHANGED approvalVars
    /\ IF about \in {"media", "races"} THEN MediaNext ELSE UNCHANGED mediaVars
    /\ about = "approval" =>
          macro'.edit <= 1 /\ \A c, d \in Calls : call'[c] = Dead /\ call'[d] = Dead => c = d
    /\ about = "edits" => \A c \in Calls : call'[c] \notin Dissent \cup {Dead}
    /\ about = "races" => UNCHANGED <<kills, offers>>
    /\ about = "media" => \A c \in Callers : caller'[c].row \in {FirstDerivative, Nothing}

ServerSpec == ServerInit /\ [][ServerNext]_serverVars
=============================================================================
