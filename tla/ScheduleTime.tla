---------------------------- MODULE ScheduleTime ----------------------------
(***************************************************************************)
(* When a scheduled upload is due: the wizard and the reschedule dialog    *)
(* take a wall-clock reading in the schedule's time zone, resolve it to an *)
(* instant (scheduled-upload.ts) and ask the server for that instant.      *)
(*                                                                         *)
(* Instants and readings are whole minutes, readings counted as if their   *)
(* zone were UTC, which is how Date.parse reads one.  A zone changes its   *)
(* offset once in the time considered: real changes are months apart.      *)
(***************************************************************************)
EXTENDS Integers

CONSTANTS
    Zones,          \* records: the offsets before and after a change, and when
    MaxTime         \* bound: instants and readings run up to it

ASSUME ScheduleAssumption ==
    /\ Zones \subseteq [before : Int, after : Int, change : Int]
    /\ MaxTime \in Nat

VARIABLES
    now,
    zone,       \* the schedule's zone
    scheduled,  \* the instant that the server holds, if it holds one
    form,       \* the wizard or the reschedule dialog
    sent        \* the instant under way to the server, if any

scheduleVars == <<now, zone, scheduled, form, sent>>

Instants == 0..MaxTime
Verdicts == {"none", "valid", "dst-gap", "past"}

\* value: the reading it shows; verdict and since: what was said of it, and when.
ClosedForm == [open |-> FALSE, value |-> 0, verdict |-> "none", since |-> 0]

-----------------------------------------------------------------------------
(* scheduled-upload.ts                                                     *)

\* getZoneOffsetMinutes, which the browser's Intl answers, ...
Offset(z, u) == IF u < z.change THEN z.before ELSE z.after

\* ... and what the clocks of the zone show at an instant (formatWallClock).
Wall(z, u) == u + Offset(z, u)

\* Mutant: the guess is not corrected.
Resolved_FirstGuess(z, reading) == reading - Offset(z, reading)

\* resolveZonedInstant: the offset at the reading taken for UTC, then, when it
\* differs, the offset at the instant that this gives.
Resolved(z, reading) ==
    LET guess == reading - Offset(z, reading)
    IN  IF Offset(z, guess) /= Offset(z, reading) THEN reading - Offset(z, guess) ELSE guess

Shows(z, reading) == Wall(z, Resolved(z, reading)) = reading

\* validateScheduleTime
Verdict(z, reading, time) ==
    IF ~Shows(z, reading) THEN "dst-gap"
    ELSE IF Resolved(z, reading) <= time THEN "past"
    ELSE "valid"

-----------------------------------------------------------------------------
(* The wizard and the dialog.                                              *)

ScheduleInit ==
    /\ now = 0 /\ zone \in Zones
    /\ scheduled = {} /\ sent = {}
    /\ form = ClosedForm

Tick ==
    /\ now < MaxTime
    /\ now' = now + 1
    /\ UNCHANGED <<zone, scheduled, form, sent>>

\* The wizard offers no time of its own.
OpenWizard ==
    /\ ~form.open /\ scheduled = {} /\ sent = {}
    /\ form' = [ClosedForm EXCEPT !.open = TRUE]
    /\ UNCHANGED <<now, zone, scheduled, sent>>

\* openReschedule: the first 16 characters of scheduledAt, which is in UTC.
\* Bound: the time is one of the Instants.
OpenDialog ==
    /\ ~form.open /\ sent = {}
    /\ \E u \in scheduled \cap Instants : form' = [ClosedForm EXCEPT !.open = TRUE, !.value = u]
    /\ UNCHANGED <<now, zone, scheduled, sent>>

TypeReading(reading) ==
    /\ form.open /\ sent = {}
    /\ form' = [form EXCEPT !.value = reading, !.verdict = "none", !.since = 0]
    /\ UNCHANGED <<now, zone, scheduled, sent>>

\* handleSubmit, handleRescheduleSubmit: only a valid time is sent.
SubmitTime ==
    /\ form.open /\ sent = {}
    /\ LET verdict == Verdict(zone, form.value, now)
       IN  /\ form' = [form EXCEPT !.verdict = verdict, !.since = now]
           /\ sent' = IF verdict = "valid" THEN {Resolved(zone, form.value)} ELSE {}
    /\ UNCHANGED <<now, zone, scheduled>>

\* The request reaches the server once the file is staged, which may take
\* longer than there was time.
TimeAccepted ==
    /\ \E u \in sent : u >= now
    /\ scheduled' = sent
    /\ sent' = {} /\ form' = ClosedForm
    /\ UNCHANGED <<now, zone>>

\* The time has passed by then, another tab has changed the schedule, or the
\* call fails: the form stays as it is.
TimeRefused ==
    /\ sent /= {}
    /\ sent' = {}
    /\ form' = [form EXCEPT !.verdict = "none", !.since = 0]
    /\ UNCHANGED <<now, zone, scheduled>>

CloseForm ==
    /\ form.open /\ sent = {}
    /\ form' = ClosedForm
    /\ UNCHANGED <<now, zone, scheduled, sent>>

ScheduleNext ==
    \/ Tick
    \/ OpenWizard \/ OpenDialog \/ CloseForm
    \/ \E reading \in Instants : TypeReading(reading)
    \/ SubmitTime \/ TimeAccepted \/ TimeRefused

ScheduleSpec == ScheduleInit /\ [][ScheduleNext]_scheduleVars

-----------------------------------------------------------------------------
(* Properties                                                              *)

\* The types; and only a form that was found valid has sent its time.
ScheduleTypeOK ==
    /\ now \in Nat /\ zone \in Zones
    /\ scheduled \subseteq Int /\ sent \subseteq Int
    /\ form \in [open : BOOLEAN, value : Int, verdict : Verdicts, since : Nat]
    /\ sent /= {} => form.open /\ form.verdict = "valid"

\* Whatever the zone and however near the change of its clocks: a time that is
\* sent is one at which they show what the form shows and that was still to
\* come, and a reading refused as non-existent is one that they never show.
VerdictIsRight ==
    /\ form.verdict = "valid" => \A u \in sent : Wall(zone, u) = form.value /\ u > form.since
    /\ form.verdict = "dst-gap" => \A u \in -MaxTime..(2 * MaxTime) : Wall(zone, u) /= form.value

=============================================================================
