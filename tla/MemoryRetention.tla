--------------------------- MODULE MemoryRetention ---------------------------
(***************************************************************************)
(* Memory tiers.  Every event of the log is a memory record; a periodic    *)
(* job consolidates: it syncs the mirrors, seals what is old into a pack   *)
(* and logs its retirement.  Beside it the operator mirrors records into   *)
(* the archive early, or syncs them.  Job and operator are two processes:  *)
(* each loads the log once and decides from that, may be overtaken by the  *)
(* other, and may die between a pack and the update that names it.         *)
(*                                                                         *)
(* The log of memory updates is kept as what _status_by_event_id makes of  *)
(* it.  A mirror or sync pack has the record and the second in its name    *)
(* and is never written again, so only the records that have one are kept. *)
(* The warm index and the archive_created update are read by nothing here. *)
(***************************************************************************)
EXTENDS Naturals

CONSTANTS
    Records,                        \* event ids
    Items,                          \* what each event may say of its retention
    HotDays, WarmDays, GraceDays,   \* RetentionConfig
    Day,                            \* ticks of a day
    Never,                          \* no date
    MaxTime, LastEvent, MaxCrashes  \* bounds; no event is logged after LastEvent

Time == 0..MaxTime
Dates == Time \cup {Never}
Modes == {"standard", "mirror_then_retire"}

ASSUME MemoryConstants ==
    /\ HotDays \in Nat /\ WarmDays \in Nat /\ GraceDays \in Nat
    /\ Day \in Nat \ {0} /\ MaxTime \in Nat /\ LastEvent \in Nat /\ MaxCrashes \in Nat
    /\ Never \notin Nat
    /\ \A r \in Records :
          Items[r] \subseteq [pinned : BOOLEAN, accessed : Dates, due : Dates, mode : Modes]

VARIABLES
    now,     \* the time
    created, \* created_at of each record, Never while it is not in the log
    item,    \* the payload of each record
    status,  \* what the memory updates say of each record
    packs,   \* the records in each retirement pack
    copied,  \* records with a mirror or sync pack
    call,    \* the command each process runs
    hist     \* history, for the properties and the bounds

vars == <<now, created, item, status, packs, copied, call, hist>>

Payloads == {f \in [Records -> UNION {Items[r] : r \in Records}] :
                \A r \in Records : f[r] \in Items[r]}
Procs == {"job", "operator"}
Days == 0..(MaxTime \div Day)
PackNames == Days \X Days        \* first and last day, archive_<first>_<last>
NoPack == <<"none">>
Copy == <<"copy">>               \* a mirror or sync pack of the record
PackIds == PackNames \cup {NoPack, Copy}
Status ==
    [mirrored : BOOLEAN, synced : BOOLEAN, \* synced: archive_sync_last_at is now
     present : BOOLEAN, retired : BOOLEAN, pack : PackIds]
Stages == {"idle", "mirror", "sync", "seal", "retire"}
Call ==
    [stage : Stages, at : Time, mirror : SUBSET Records, sync : SUBSET Records,
     retire : SUBSET Records, pack : PackIds,
     kept : SUBSET Records] \* history: live mirrors when the call began

Resting == [stage |-> "idle", at |-> 0, mirror |-> {}, sync |-> {}, retire |-> {},
            pack |-> NoPack, kept |-> {}]

TypeOK ==
    /\ now \in Time /\ created \in [Records -> Dates] /\ item \in Payloads
    /\ status \in [Records -> Status] /\ copied \subseteq Records
    /\ packs \in [PackNames -> SUBSET Records]
    /\ call \in [Procs -> Call]
    /\ \A p \in Procs : call[p].at <= now /\ (call[p].stage = "idle" => call[p] = Resting)
    /\ call["job"].stage = "seal" => call["job"].retire # {}
    /\ \A r \in Records : created[r] = Never => r \notin copied /\ ~status[r].present
    /\ hist \in [sealed : SUBSET Records, crashes : 0..MaxCrashes]

Init ==
    /\ now = 0
    /\ created = [r \in Records |-> Never]
    /\ item \in Payloads
    /\ status = [r \in Records |-> [mirrored |-> FALSE, synced |-> FALSE, present |-> FALSE,
                                    retired |-> FALSE, pack |-> NoPack]]
    /\ packs = [name \in PackNames |-> {}]
    /\ copied = {}
    /\ call = [p \in Procs |-> Resting]
    /\ hist = [sealed |-> {}, crashes |-> 0]

Tick ==
    /\ now < MaxTime /\ now' = now + 1
    /\ status' = [r \in Records |-> [status[r] EXCEPT !.synced = FALSE]]
    /\ UNCHANGED <<created, item, packs, copied, call, hist>>

\* The runtime logs an event, of whatever kind.
Remember(r) ==
    /\ created[r] = Never /\ now <= LastEvent
    /\ created' = [created EXCEPT ![r] = now]
    /\ UNCHANGED <<now, item, status, packs, copied, call, hist>>

-----------------------------------------------------------------------------
(* MemoryRecord.from_event and RetentionPolicy.                            *)

Known == {r \in Records : created[r] # Never}
Live(r) == ~status[r].retired
Mode(r) == IF status[r].mirrored THEN "mirror_then_retire" ELSE item[r].mode
ScheduledAt(r) == IF item[r].due = Never THEN created[r] + WarmDays * Day ELSE item[r].due
AgeDays(r) == (now - created[r]) \div Day

RecentlyAccessed(r) == item[r].accessed # Never /\ now <= item[r].accessed + GraceDays * Day
CutOff(r) == Mode(r) = "mirror_then_retire" /\ now >= ScheduledAt(r)

TierFor(r) ==
    IF ~Live(r) \/ CutOff(r) THEN "archive"
    ELSE IF AgeDays(r) <= HotDays THEN "hot"
    ELSE IF \/ RecentlyAccessed(r) \/ AgeDays(r) <= WarmDays \/ item[r].pinned
            \/ Mode(r) = "mirror_then_retire"
         THEN "warm" ELSE "archive"

ShouldArchive(r) ==
    /\ ~item[r].pinned /\ Live(r)
    /\ CutOff(r) \/ (~RecentlyAccessed(r) /\ TierFor(r) = "archive")

ShouldSync(r) ==
    /\ Live(r) /\ Mode(r) = "mirror_then_retire"
    /\ status[r].present /\ ~status[r].synced

-----------------------------------------------------------------------------
(* Updates of one record; each is appended to the log.                     *)

Mirrored(r, at, pack) ==
    [status[r] EXCEPT !.mirrored = TRUE, !.synced = (at = now), !.present = TRUE,
                      !.pack = pack]
Synced(r, at) == [status[r] EXCEPT !.synced = (at = now), !.present = TRUE, !.pack = Copy]
Retired(r, pack) == [status[r] EXCEPT !.retired = TRUE, !.present = TRUE, !.pack = pack]

Begin(p, fields) == call' = [call EXCEPT ![p] = fields]
End(p) == call' = [call EXCEPT ![p] = Resting]
Idle(p) == call[p].stage = "idle"

-----------------------------------------------------------------------------
(* archive_now_but_keep_live                                               *)

\* The log is loaded and the record made: its mirror may be there already.
ArchiveNow(r) ==
    /\ Idle("operator") /\ r \in Known
    /\ Begin("operator", [Resting EXCEPT !.stage = "mirror", !.at = now, !.mirror = {r},
                             !.pack = IF status[r].present THEN status[r].pack ELSE Copy])
    /\ UNCHANGED <<now, created, item, status, packs, copied, hist>>

\* Mutant: the update is logged and the pack written never.
MirrorUnwritten ==
    /\ call["operator"].stage = "mirror"
    /\ \E r \in call["operator"].mirror :
          status' = [status EXCEPT ![r] = Mirrored(r, call["operator"].at, call["operator"].pack)]
    /\ End("operator")
    /\ UNCHANGED <<now, created, item, packs, copied, hist>>

\* Mutant: the update makes the record live again.
MirrorReviving ==
    /\ call["operator"].stage = "mirror"
    /\ \E r \in call["operator"].mirror :
          /\ status' = [status EXCEPT ![r] =
                [Mirrored(r, call["operator"].at, call["operator"].pack) EXCEPT !.retired = FALSE]]
          /\ copied' = IF call["operator"].pack = Copy THEN copied \cup {r} ELSE copied
    /\ End("operator")
    /\ UNCHANGED <<now, created, item, packs, hist>>

\* The pack, unless there was one, and then the update.
Mirror ==
    /\ call["operator"].stage = "mirror"
    /\ \E r \in call["operator"].mirror :
          /\ copied' = IF call["operator"].pack = Copy THEN copied \cup {r} ELSE copied
          /\ status' = [status EXCEPT ![r] = Mirrored(r, call["operator"].at, call["operator"].pack)]
    /\ End("operator")
    /\ UNCHANGED <<now, created, item, packs, hist>>

-----------------------------------------------------------------------------
(* sync_live_mirrors, and the same loop in consolidate.                    *)

SyncLiveMirrors ==
    /\ Idle("operator")
    /\ \E asked \in {Known} \cup {{r} : r \in Known} :
          Begin("operator", [Resting EXCEPT !.stage = "sync", !.at = now,
                                !.sync = {r \in asked : ShouldSync(r)}])
    /\ UNCHANGED <<now, created, item, status, packs, copied, hist>>

\* The pack and then the update; the order of the records does not matter.
SyncRecord(p) ==
    /\ call[p].stage = "sync"
    /\ \E r \in call[p].sync :
          /\ copied' = copied \cup {r}
          /\ status' = [status EXCEPT ![r] = Synced(r, call[p].at)]
          /\ call' = [call EXCEPT ![p].sync = @ \ {r}]
    /\ UNCHANGED <<now, created, item, packs, hist>>

SyncsDone(p) ==
    /\ call[p].stage = "sync" /\ call[p].sync = {}
    /\ IF call[p].retire = {} THEN End(p) ELSE call' = [call EXCEPT ![p].stage = "seal"]
    /\ UNCHANGED <<now, created, item, status, packs, copied, hist>>

-----------------------------------------------------------------------------
(* consolidate                                                             *)

\* Mutant: a mirror, being archived, is not retired.
ConsolidateUnmirrored ==
    /\ Idle("job")
    /\ Begin("job", [Resting EXCEPT !.stage = "sync", !.at = now,
                        !.sync = {r \in Known : ShouldSync(r)},
                        !.retire = {r \in Known : ShouldArchive(r) /\ ~status[r].present},
                        !.kept = {r \in Known : Live(r) /\ status[r].mirrored}])
    /\ UNCHANGED <<now, created, item, status, packs, copied, hist>>

Consolidate ==
    /\ Idle("job")
    /\ Begin("job", [Resting EXCEPT !.stage = "sync", !.at = now,
                        !.sync = {r \in Known : ShouldSync(r)},
                        !.retire = {r \in Known : ShouldArchive(r)},
                        !.kept = {r \in Known : Live(r) /\ status[r].mirrored}])
    /\ UNCHANGED <<now, created, item, status, packs, copied, hist>>

\* The default name in ArchivePack.create
PackName(records) ==
    LET days == {created[r] \div Day : r \in records}
        first == CHOOSE d \in days : \A e \in days : d <= e
        last == CHOOSE d \in days : \A e \in days : d >= e
    IN <<first, last>>

\* A pack of that name is written anew.
Seal ==
    /\ call["job"].stage = "seal"
    /\ LET name == PackName(call["job"].retire)
       IN /\ packs' = [packs EXCEPT ![name] = call["job"].retire]
          /\ call' = [call EXCEPT !["job"].stage = "retire", !["job"].pack = name]
    /\ hist' = [hist EXCEPT !.sealed = @ \cup call["job"].retire]
    /\ UNCHANGED <<now, created, item, status, copied>>

Retire ==
    /\ call["job"].stage = "retire"
    /\ \E r \in call["job"].retire :
          /\ status' = [status EXCEPT ![r] = Retired(r, call["job"].pack)]
          /\ call' = [call EXCEPT !["job"].retire = @ \ {r}]
    /\ UNCHANGED <<now, created, item, packs, copied, hist>>

Consolidated ==
    /\ call["job"].stage = "retire" /\ call["job"].retire = {}
    /\ End("job")
    /\ UNCHANGED <<now, created, item, status, packs, copied, hist>>

-----------------------------------------------------------------------------

\* The process dies, or its log raises.  A copy may be there without its
\* update, and a retirement pack that was being written is torn.
Crash(p) ==
    /\ ~Idle(p) /\ hist.crashes < MaxCrashes
    /\ hist' = [hist EXCEPT !.crashes = @ + 1]
    /\ End(p)
    /\ \/ UNCHANGED <<packs, copied>>
       \/ /\ call[p].stage \in {"mirror", "sync"}
          /\ \E r \in call[p].mirror \cup call[p].sync : copied' = copied \cup {r}
          /\ UNCHANGED packs
       \/ /\ call[p].stage = "seal"
          /\ packs' = [packs EXCEPT ![PackName(call[p].retire)] = {}]
          /\ UNCHANGED copied
    /\ UNCHANGED <<now, created, item, status>>

Operator == (\E r \in Records : ArchiveNow(r)) \/ Mirror \/ SyncLiveMirrors

Steps(p) == SyncRecord(p) \/ SyncsDone(p)

Job == Consolidate \/ Steps("job") \/ Seal \/ Retire \/ Consolidated

Next ==
    \/ Tick \/ (\E r \in Records : Remember(r))
    \/ Operator \/ Steps("operator") \/ Job
    \/ \E p \in Procs : Crash(p)

\* Time passes, and the job is run again and again and goes on.
Spec == Init /\ [][Next]_vars /\ WF_vars(Tick) /\ WF_vars(Job)

-----------------------------------------------------------------------------
(* Properties.                                                             *)

(* A live record that the updates call archived has a mirror or sync pack, *)
(* and its status names one, whoever dies between a pack and its update.   *)
LiveMirrorIsArchived ==
    \A r \in Records : Live(r) /\ status[r].present => r \in copied /\ status[r].pack = Copy

(* Once retired, a record stays retired: a mirror or a sync decided from   *)
(* an older view of the log does not bring it back.                        *)
RetiredIsFinal ==
    [][\A r \in Records : ~Live(r) => ~Live(r)']_vars

(* A record mirrored before a consolidation began is not retired by it     *)
(* before its scheduled date, and a pinned record never is.                *)
MirrorsStayLive ==
    [][\A r \in Records : Live(r) /\ ~Live(r)' =>
           /\ ~item[r].pinned
           /\ r \in call["job"].kept => call["job"].at >= ScheduledAt(r)]_vars

(* A record is retired only after it was sealed in a pack.                 *)
RetiredWasSealed == \A r \in Records : ~Live(r) => r \in hist.sealed

(* A status never names an archive that is not written.                    *)
ArchivesComeFirst == LiveMirrorIsArchived /\ RetiredWasSealed

(* Retirement is final, and does not come before its date.                 *)
RetirementIsOrderly == RetiredIsFinal /\ MirrorsStayLive

(* What is once to be archived is retired in the end: mirrors and syncs    *)
(* put it off at most to its date, and jobs that died are made good.       *)
OldAreRetired == \A r \in Records : (r \in Known /\ ShouldArchive(r)) ~> ~Live(r)

(* "Each .arcpack is a zip-compressed immutable bundle": what was sealed   *)
(* stays in the pack its retirement names.  The code breaks it: two packs  *)
(* of the same days have the same name.                                    *)
RetiredIsInPack ==
    \A r \in Records : ~Live(r) /\ status[r].pack \in PackNames => r \in packs[status[r].pack]
=============================================================================
