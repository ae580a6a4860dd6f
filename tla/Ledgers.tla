------------------------------- MODULE Ledgers -------------------------------
(***************************************************************************)
(* What the small ledgers of the workspace hold and how a call changes it: *)
(* directives, tool trust, curriculum memory, continuity and the profiles  *)
(* of models.  Each is one JSON file, read whole and written whole.        *)
(* Texts, times and notes are left out.                                    *)
(***************************************************************************)
EXTENDS Integers, FiniteSets, Sequences

-----------------------------------------------------------------------------
(* Directives: a set of rows [id, status, supersedes], 0 for no other one. *)

RegisterDirective(rows, id, supersedes) ==
    {IF r.id = supersedes /\ r.status = "active" THEN [r EXCEPT !.status = "superseded"] ELSE r :
        r \in rows}
    \cup {[id |-> id, status |-> "active", supersedes |-> supersedes]}

\* Whatever the status was.
CompleteDirective(rows, id, status) ==
    {IF r.id = id THEN [r EXCEPT !.status = status] ELSE r : r \in rows}

-----------------------------------------------------------------------------
(* Tool trust: outcomes counted, and the level they give.                  *)

NewTrust == [level |-> "unknown", ok |-> 0, bad |-> 0]

TrustLevel(ok, bad) ==
    LET total == ok + bad IN
    IF 10 * ok >= 9 * total /\ total >= 5 THEN "high"
    ELSE IF 10 * ok >= 6 * total /\ total >= 3 THEN "medium"
    ELSE IF bad >= 3 /\ 10 * ok < 4 * total THEN "degraded"
    ELSE "experimental"

\* Mutant: counts that start again.
RecordOutcomeAnew(profile, succeeded) ==
    LET ok == IF succeeded THEN 1 ELSE 0
        bad == IF succeeded THEN 0 ELSE 1
    IN  [level |-> TrustLevel(ok, bad), ok |-> ok, bad |-> bad]

RecordOutcome(profile, succeeded) ==
    LET ok == profile.ok + (IF succeeded THEN 1 ELSE 0)
        bad == profile.bad + (IF succeeded THEN 0 ELSE 1)
    IN  [level |-> TrustLevel(ok, bad), ok |-> ok, bad |-> bad]

\* upsert gives notes and evidence; the counts and the level are carried over.
UpsertTrust(profile) == profile

-----------------------------------------------------------------------------
(* Curriculum memory: one theme with its last outcome, and the count of    *)
(* each failure cluster ("none": the call names no cluster).               *)

NewCurriculum(Clusters) == [seen |-> 0, last |-> "unknown", count |-> [c \in Clusters |-> 0]]

RecordCurriculum(memory, cluster, outcome) ==
    [seen |-> memory.seen + 1, last |-> outcome,
     count |-> [c \in DOMAIN memory.count |->
                   memory.count[c] + (IF c = cluster THEN 1 ELSE 0)]]

-----------------------------------------------------------------------------
(* Continuity: the boot count and the mode of the state file.  The list of *)
(* boot receipts, their indexes, is a file of its own.                     *)

NewState == [boots |-> 0, mode |-> "uninitialized"]

BootMode(primary, fallback) ==
    IF primary THEN "primary" ELSE IF fallback THEN "fallback" ELSE "degraded"

BootState(state, mode) == [boots |-> state.boots + 1, mode |-> mode]

Heartbeat(state, mode) == [state EXCEPT !.mode = mode]

-----------------------------------------------------------------------------
(* Model profiles: their names and the active one, 0 for none.             *)

NewProfiles == [active |-> 0, names |-> {}]

RegisterProfile(profiles, name, activate) ==
    [active |-> IF activate \/ profiles.active = 0 THEN name ELSE profiles.active,
     names |-> profiles.names \cup {name}]
=============================================================================
