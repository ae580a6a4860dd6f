------------------------ MODULE MemoryRetentionProofs ------------------------
(***************************************************************************)
(* Theorems about memory retention, for any records, any payloads, any     *)
(* length of the tiers and any bounds.                                     *)
(***************************************************************************)
EXTENDS MemoryRetention, TLAPS, WellFoundedInduction

Hist == [sealed : SUBSET Records, crashes : 0..MaxCrashes]

(* What a call has seen of the log is still true when it acts on it: the   *)
(* mirror it found missing may be there by now, but a record it saw with a *)
(* retirement pack stays retired, and what it is to retire was sealed, is  *)
(* not pinned and has reached the date it was promised.                    *)
Calls ==
    /\ \A p \in Procs : call[p].mirror \cup call[p].sync \cup call[p].retire \subseteq Known
    /\ call["operator"].stage = "mirror" /\ call["operator"].pack # Copy =>
          \A r \in call["operator"].mirror : ~Live(r)
    /\ call["job"].stage = "retire" => call["job"].retire \subseteq hist.sealed
    /\ \A r \in call["job"].retire :
          /\ ~item[r].pinned
          /\ r \in call["job"].kept => call["job"].at >= ScheduledAt(r)

Inv == TypeOK /\ Calls /\ LiveMirrorIsArchived /\ RetiredWasSealed

-----------------------------------------------------------------------------
(* The name of a pack is one of PackNames.                                 *)

LEMMA DayIsDay == ASSUME NEW t \in Time PROVE t \div Day \in Nat /\ t \div Day <= MaxTime \div Day
<1>1. t \in Nat /\ MaxTime \in Nat /\ t <= MaxTime /\ Day \in Nat \ {0}
  BY MemoryConstants DEF Time
<1> DEFINE q == t \div Day
           s == MaxTime \div Day
<1>2. q \in Nat /\ t = Day * q + (t % Day) /\ t % Day \in Nat
  BY <1>1
<1>3. s \in Nat /\ MaxTime = Day * s + (MaxTime % Day) /\ MaxTime % Day < Day
  BY <1>1
<1> HIDE DEF q, s
<1>4. CASE q > s
  <2>1. q >= s + 1
    BY <1>2, <1>3, <1>4
  <2>2. Day * q >= Day * (s + 1)
    BY <1>1, <1>2, <1>3, <2>1
  <2> QED
    BY <1>1, <1>2, <1>3, <2>2
<1> QED
  BY <1>2, <1>3, <1>4 DEF q, s

LEMMA Least == ASSUME NEW S \in SUBSET Nat, S # {} PROVE \E x \in S : \A y \in S : x <= y
<1>1. PICK x \in S : \A y \in S : <<y, x>> \notin OpToRel(<, Nat)
  BY NatLessThanWellFounded, WFMin, Zenon
<1>2. ASSUME NEW y \in S PROVE x <= y
  <2>1. <<y, x>> \notin {pair \in Nat \X Nat : pair[1] < pair[2]}
    BY <1>1, Zenon DEF OpToRel
  <2> QED
    BY <2>1
<1> QED
  BY <1>2

LEMMA Greatest ==
    ASSUME NEW n \in Nat, NEW S \in SUBSET (0..n), S # {}
    PROVE  \E x \in S : \A y \in S : x >= y
<1> DEFINE T == {n - y : y \in S}
<1>1. T \in SUBSET Nat /\ T # {}
  <2>1. \A y \in S : n - y \in Nat
    OBVIOUS
  <2> QED
    BY <2>1
<1>2. PICK z \in T : \A y \in T : z <= y
  BY <1>1, Least
<1>3. PICK x \in S : z = n - x
  OBVIOUS
<1>4. ASSUME NEW y \in S PROVE x >= y
  <2>1. n - x <= n - y
    BY <1>2, <1>3
  <2> QED
    BY <2>1
<1> QED
  BY <1>4

LEMMA PackNameIsName ==
    ASSUME TypeOK, NEW S \in SUBSET Known, S # {}
    PROVE  PackName(S) \in PackNames
<1> DEFINE days == {created[r] \div Day : r \in S}
<1>1. ASSUME NEW r \in S PROVE created[r] \div Day \in Days
  <2>1. created[r] \in Time
    BY DEF TypeOK, Known, Dates
  <2> QED
    BY <2>1, DayIsDay, MemoryConstants DEF Days
<1>2. MaxTime \div Day \in Nat
  BY MemoryConstants
<1>3. days \in SUBSET Days /\ days # {} /\ days \in SUBSET Nat
  BY <1>1, <1>2 DEF Days
<1> HIDE DEF days
<1> DEFINE first == CHOOSE d \in days : \A e \in days : d <= e
           last == CHOOSE d \in days : \A e \in days : d >= e
<1>4. PackName(S) = <<first, last>>
  BY DEF PackName, days
<1>5. first \in days
  <2>1. \E d \in days : \A e \in days : d <= e
    BY <1>3, Least
  <2> QED
    BY <2>1
<1>6. last \in days
  <2>1. \E d \in days : \A e \in days : d >= e
    BY <1>2, <1>3, Greatest DEF Days
  <2> QED
    BY <2>1
<1> HIDE DEF first, last
<1> QED
  BY <1>3, <1>4, <1>5, <1>6 DEF PackNames

-----------------------------------------------------------------------------

LEMMA RestingIsCall == Resting \in Call
BY MemoryConstants DEF Resting, Call, Stages, Time, PackIds

LEMMA InvInit == Init => Inv
<1> SUFFICES ASSUME Init PROVE Inv
  OBVIOUS
<1>1. \A p \in Procs : call[p] = Resting
  BY DEF Init
<1>2. TypeOK
  BY <1>1, RestingIsCall, MemoryConstants
     DEF Init, TypeOK, Time, Dates, Status, PackIds, Resting, Procs
<1>3. Calls
  BY <1>1 DEF Calls, Resting, Procs
<1> QED
  BY <1>2, <1>3 DEF Init, Inv, LiveMirrorIsArchived, RetiredWasSealed, Live

(* A process that starts or ends a call: the other parts of the state rest. *)
LEMMA CallOnly ==
    ASSUME Inv, NEW p \in Procs, NEW c \in Call, call' = [call EXCEPT ![p] = c],
           UNCHANGED <<now, created, item, status, packs, copied, hist>>,
           c.at <= now, c.stage = "idle" => c = Resting,
           p = "job" /\ c.stage = "seal" => c.retire # {},
           c.mirror \cup c.sync \cup c.retire \subseteq Known,
           p = "operator" /\ c.stage = "mirror" /\ c.pack # Copy => \A r \in c.mirror : ~Live(r),
           p = "job" /\ c.stage = "retire" => c.retire \subseteq hist.sealed,
           p = "job" => \A r \in c.retire :
              ~item[r].pinned /\ (r \in c.kept => c.at >= ScheduledAt(r))
    PROVE  Inv'
<1>1. \A q \in Procs : call'[q] = IF q = p THEN c ELSE call[q]
  BY DEF Inv, TypeOK
<1>2. TypeOK'
  BY <1>1 DEF Inv, TypeOK, Procs
<1>3. Known' = Known /\ \A r \in Records : Live(r)' = Live(r) /\ ScheduledAt(r)' = ScheduledAt(r)
  BY DEF Known, Live, ScheduledAt
<1>4. Calls'
  BY <1>1, <1>3 DEF Inv, Calls, Procs, Known
<1> QED
  BY <1>2, <1>4 DEF Inv, LiveMirrorIsArchived, RetiredWasSealed, Live

LEMMA EndKeeps ==
    ASSUME Inv, NEW p \in Procs, End(p),
           UNCHANGED <<now, created, item, status, packs, copied, hist>>
    PROVE  Inv'
<1>1. Resting.at <= now
  BY MemoryConstants DEF Resting, Inv, TypeOK, Time
<1> QED
  BY <1>1, RestingIsCall, CallOnly DEF End, Resting

(* The status of one record changes, as an update of p's call says; the    *)
(* call goes on to c.                                                      *)
LEMMA UpdateKeeps ==
    ASSUME Inv, NEW p \in Procs, NEW c \in Call, call' = [call EXCEPT ![p] = c],
           NEW r \in Known, NEW s \in Status, status' = [status EXCEPT ![r] = s],
           UNCHANGED <<now, created, item, packs, hist>>,
           copied \subseteq copied', copied' \subseteq copied \cup {r},
           status[r].retired => s.retired, s.present,
           s.retired \/ (r \in copied' /\ s.pack = Copy),
           s.retired => status[r].retired \/ r \in hist.sealed,
           c.at = call[p].at \/ c = Resting, c.stage \in {call[p].stage, "idle"},
           c.stage = "idle" => c = Resting, c.stage # "seal",
           c.mirror \subseteq call[p].mirror, c.sync \subseteq call[p].sync,
           c.retire \subseteq call[p].retire,
           c.pack = call[p].pack \/ c = Resting, c.kept = call[p].kept \/ c = Resting
    PROVE  Inv'
<1>1. \A q \in Procs : call'[q] = IF q = p THEN c ELSE call[q]
  BY DEF Inv, TypeOK
<1>2. \A q \in Records : status'[q] = IF q = r THEN s ELSE status[q]
  BY DEF Inv, TypeOK
<1>3. Known' = Known /\ r \in Records /\ \A q \in Records : ScheduledAt(q)' = ScheduledAt(q)
  BY DEF Known, ScheduledAt
<1>4. \A q \in Records : (~Live(q) => ~Live(q)') /\ (~Live(q)' => ~Live(q) \/ q \in hist.sealed)
  BY <1>2 DEF Live
<1>5. Resting.at = 0 /\ Resting.mirror = {} /\ Resting.sync = {} /\ Resting.retire = {}
      /\ Resting.stage = "idle"
  BY DEF Resting
<1>6. TypeOK'
  <2>1. /\ now' \in Time /\ created' \in [Records -> Dates] /\ item' \in Payloads'
        /\ status' \in [Records -> Status] /\ copied' \subseteq Records
        /\ packs' \in [PackNames -> SUBSET Records] /\ call' \in [Procs -> Call]
        /\ hist' \in Hist
    BY <1>3 DEF Inv, TypeOK, Hist, Payloads
  <2>2. \A q \in Procs : call'[q].at <= now' /\ (call'[q].stage = "idle" => call'[q] = Resting)
    BY <1>1, <1>5 DEF Inv, TypeOK, Time
  <2>3. call'["job"].stage = "seal" => call'["job"].retire # {}
    BY <1>1, <1>5 DEF Inv, TypeOK, Procs
  <2>4. \A q \in Records : created'[q] = Never => q \notin copied' /\ ~status'[q].present
    BY <1>2, <1>3 DEF Inv, TypeOK, Known
  <2> QED
    BY <2>1, <2>2, <2>3, <2>4 DEF TypeOK, Hist
<1>7. Calls'
  <2>1. \A q \in Procs : call'[q].mirror \cup call'[q].sync \cup call'[q].retire \subseteq Known'
    BY <1>1, <1>3, <1>5 DEF Inv, Calls
  <2>2. call'["operator"].stage = "mirror" /\ call'["operator"].pack # Copy =>
           \A q \in call'["operator"].mirror : ~Live(q)'
    BY <1>1, <1>4, <1>5, <2>1 DEF Inv, Calls, Procs, Known
  <2>3. call'["job"].stage = "retire" => call'["job"].retire \subseteq hist'.sealed
    BY <1>1, <1>5 DEF Inv, Calls, Procs
  <2>4. \A q \in call'["job"].retire :
           ~item'[q].pinned /\ (q \in call'["job"].kept => call'["job"].at >= ScheduledAt(q)')
    <3>1. CASE c = Resting /\ p = "job"
      BY <1>1, <1>5, <3>1 DEF Procs
    <3>2. CASE ~(c = Resting /\ p = "job")
      <4>1. /\ call'["job"].retire \subseteq call["job"].retire
            /\ call'["job"].kept = call["job"].kept /\ call'["job"].at = call["job"].at
        BY <1>1, <3>2 DEF Procs
      <4>2. call["job"].retire \subseteq Records
        BY DEF Inv, TypeOK, Call, Procs
      <4> QED
        BY <1>3, <4>1, <4>2 DEF Inv, Calls
    <3> QED
      BY <3>1, <3>2
  <2> QED
    BY <2>1, <2>2, <2>3, <2>4 DEF Calls
<1>8. LiveMirrorIsArchived'
  BY <1>2, <1>3, <1>4 DEF Inv, LiveMirrorIsArchived, Live
<1>9. RetiredWasSealed'
  BY <1>3, <1>4 DEF Inv, RetiredWasSealed
<1> QED
  BY <1>6, <1>7, <1>8, <1>9 DEF Inv

-----------------------------------------------------------------------------
(* One lemma per action.                                                   *)

LEMMA TickKeeps == ASSUME Inv, Tick PROVE Inv'
<1>1. now' = now + 1 /\ now' \in Time /\ now \in Nat
  BY MemoryConstants DEF Inv, TypeOK, Tick, Time
<1>2. \A r \in Records : status'[r] = [status[r] EXCEPT !.synced = FALSE]
  BY DEF Tick
<1>3. \A r \in Records : status'[r] \in Status
      /\ status'[r].retired = status[r].retired /\ status'[r].present = status[r].present
      /\ status'[r].pack = status[r].pack
  BY <1>2 DEF Inv, TypeOK, Status
<1>4. Known' = Known /\ \A r \in Records : Live(r)' = Live(r) /\ ScheduledAt(r)' = ScheduledAt(r)
  BY <1>3 DEF Tick, Known, Live, ScheduledAt
<1>5. TypeOK'
  <2>1. status' \in [Records -> Status]
    BY <1>3 DEF Tick
  <2>2. \A p \in Procs : call'[p].at <= now'
    BY <1>1 DEF Inv, TypeOK, Tick, Call, Time
  <2> QED
    BY <1>1, <1>3, <2>1, <2>2 DEF Inv, TypeOK, Tick, Payloads
<1>6. Calls'
  BY <1>4 DEF Inv, TypeOK, Calls, Call, Procs, Tick
<1>7. LiveMirrorIsArchived' /\ RetiredWasSealed'
  BY <1>3, <1>4 DEF Inv, LiveMirrorIsArchived, RetiredWasSealed, Tick
<1> QED
  BY <1>5, <1>6, <1>7 DEF Inv

(* A new event is the target of no call.                                   *)
LEMMA RememberKeeps == ASSUME Inv, NEW r \in Records, Remember(r) PROVE Inv'
<1>1. \A q \in Records : created'[q] = IF q = r THEN now ELSE created[q]
  BY DEF Inv, TypeOK, Remember
<1>2. now \in Time /\ now # Never
  BY MemoryConstants DEF Inv, TypeOK, Time
<1>3. Known \subseteq Known' /\ \A q \in Known : ScheduledAt(q)' = ScheduledAt(q)
  BY <1>1, <1>2 DEF Known, ScheduledAt, Remember
<1>4. created' \in [Records -> Dates]
  BY <1>2 DEF Inv, TypeOK, Remember, Dates
<1>5. TypeOK'
  BY <1>1, <1>4 DEF Inv, TypeOK, Remember, Payloads
<1>6. Calls'
  BY <1>3 DEF Inv, TypeOK, Calls, Remember, Live, Procs
<1> QED
  BY <1>5, <1>6 DEF Inv, LiveMirrorIsArchived, RetiredWasSealed, Live, Remember

LEMMA ArchiveNowKeeps == ASSUME Inv, NEW r \in Records, ArchiveNow(r) PROVE Inv'
<1> DEFINE pack == IF status[r].present THEN status[r].pack ELSE Copy
           c == [Resting EXCEPT !.stage = "mirror", !.at = now, !.mirror = {r}, !.pack = pack]
<1>1. pack \in PackIds /\ (pack # Copy => ~Live(r))
  BY DEF Inv, TypeOK, Status, PackIds, LiveMirrorIsArchived
<1>2. call' = [call EXCEPT !["operator"] = c] /\ r \in Known /\ now \in Time
      /\ UNCHANGED <<now, created, item, status, packs, copied, hist>>
  BY DEF ArchiveNow, Begin, Inv, TypeOK
<1> HIDE DEF pack
<1>3. /\ c \in Call /\ c.stage = "mirror" /\ c.at = now /\ c.mirror = {r} /\ c.sync = {}
      /\ c.retire = {} /\ c.pack = pack
  BY <1>1, <1>2, RestingIsCall DEF Resting, Call, Stages
<1> HIDE DEF c
<1>4. "operator" \in Procs /\ now <= now
  BY <1>2, MemoryConstants DEF Procs, Time
<1> QED
  BY <1>1, <1>2, <1>3, <1>4, CallOnly

LEMMA MirrorKeeps == ASSUME Inv, Mirror PROVE Inv'
<1> DEFINE o == call["operator"]
<1>1. PICK r \in o.mirror :
         /\ copied' = IF o.pack = Copy THEN copied \cup {r} ELSE copied
         /\ status' = [status EXCEPT ![r] = Mirrored(r, o.at, o.pack)]
  BY DEF Mirror
<1>2. "operator" \in Procs /\ o \in Call /\ o.stage = "mirror" /\ r \in Known /\ r \in Records
  BY DEF Inv, TypeOK, Calls, Mirror, Procs, Known
<1> DEFINE s == Mirrored(r, o.at, o.pack)
<1>3. status[r] \in Status /\ o.pack \in PackIds
  BY <1>2 DEF Inv, TypeOK, Call
<1>4. /\ s \in Status /\ s.present /\ s.pack = o.pack /\ s.retired = status[r].retired
  BY <1>3 DEF Status, Mirrored
<1>5. o.pack # Copy => status[r].retired
  BY <1>2 DEF Inv, Calls, Live
<1>6. status[r].retired => r \in hist.sealed
  BY <1>2 DEF Inv, RetiredWasSealed, Live
<1>7. call' = [call EXCEPT !["operator"] = Resting]
      /\ UNCHANGED <<now, created, item, packs, hist>>
  BY DEF Mirror, End
<1>8. Resting.stage = "idle" /\ Resting.mirror = {} /\ Resting.sync = {} /\ Resting.retire = {}
  BY DEF Resting
<1>9. copied \subseteq copied' /\ copied' \subseteq copied \cup {r}
      /\ (o.pack = Copy => r \in copied')
  BY <1>1
<1>10. status' = [status EXCEPT ![r] = s]
  BY <1>1
<1> HIDE DEF s, o
<1> QED
  BY <1>2, <1>4, <1>5, <1>6, <1>7, <1>8, <1>9, <1>10, RestingIsCall, UpdateKeeps DEF o

LEMMA SyncLiveMirrorsKeeps == ASSUME Inv, SyncLiveMirrors PROVE Inv'
<1>1. PICK asked \in {Known} \cup {{r} : r \in Known} :
         Begin("operator", [Resting EXCEPT !.stage = "sync", !.at = now,
                               !.sync = {r \in asked : ShouldSync(r)}])
  BY DEF SyncLiveMirrors
<1> DEFINE sync == {r \in asked : ShouldSync(r)}
           c == [Resting EXCEPT !.stage = "sync", !.at = now, !.sync = sync]
<1>2. sync \subseteq Known /\ now \in Time /\ Known \subseteq Records
  BY DEF Inv, TypeOK, Known
<1>3. call' = [call EXCEPT !["operator"] = c]
      /\ UNCHANGED <<now, created, item, status, packs, copied, hist>>
  BY <1>1 DEF SyncLiveMirrors, Begin
<1> HIDE DEF sync
<1>4. /\ c \in Call /\ c.stage = "sync" /\ c.at = now /\ c.mirror = {} /\ c.sync = sync
      /\ c.retire = {}
  BY <1>2, RestingIsCall DEF Resting, Call, Stages
<1> HIDE DEF c
<1>5. "operator" \in Procs /\ now <= now
  BY <1>2, MemoryConstants DEF Procs, Time
<1> QED
  BY <1>2, <1>3, <1>4, <1>5, CallOnly

LEMMA SyncRecordKeeps == ASSUME Inv, NEW p \in Procs, SyncRecord(p) PROVE Inv'
<1>1. PICK r \in call[p].sync :
         /\ copied' = copied \cup {r}
         /\ status' = [status EXCEPT ![r] = Synced(r, call[p].at)]
         /\ call' = [call EXCEPT ![p].sync = @ \ {r}]
  BY DEF SyncRecord
<1>2. call[p] \in Call /\ r \in Known /\ r \in Records /\ call[p].stage = "sync"
  BY DEF Inv, TypeOK, Calls, Known, SyncRecord
<1> DEFINE s == Synced(r, call[p].at)
           sync == call[p].sync \ {r}
           c == [call[p] EXCEPT !.sync = sync]
<1>3. s \in Status /\ s.present /\ s.pack = Copy /\ s.retired = status[r].retired
  BY <1>2 DEF Inv, TypeOK, Status, Synced, PackIds
<1>4. status[r].retired => r \in hist.sealed
  BY <1>2 DEF Inv, RetiredWasSealed, Live
<1>5. sync \in SUBSET Records /\ sync \subseteq call[p].sync
  BY <1>2 DEF Call
<1> HIDE DEF sync
<1>6. /\ c \in Call /\ c.stage = "sync" /\ c.at = call[p].at /\ c.mirror = call[p].mirror
      /\ c.sync = sync /\ c.retire = call[p].retire /\ c.pack = call[p].pack
      /\ c.kept = call[p].kept
  BY <1>2, <1>5 DEF Call
<1>7. call' = [call EXCEPT ![p] = c] /\ UNCHANGED <<now, created, item, packs, hist>>
  BY <1>1 DEF SyncRecord, sync, Inv, TypeOK
<1>8. status' = [status EXCEPT ![r] = s]
  BY <1>1
<1> HIDE DEF s, c
<1> QED
  BY <1>1, <1>2, <1>3, <1>4, <1>5, <1>6, <1>7, <1>8, UpdateKeeps

LEMMA SyncsDoneKeeps == ASSUME Inv, NEW p \in Procs, SyncsDone(p) PROVE Inv'
<1>1. CASE call[p].retire = {}
  BY <1>1, EndKeeps DEF SyncsDone
<1>2. CASE call[p].retire # {}
  <2> DEFINE c == [call[p] EXCEPT !.stage = "seal"]
  <2>1. call[p] \in Call
    BY DEF Inv, TypeOK
  <2>2. /\ c \in Call /\ c.stage = "seal" /\ c.at = call[p].at /\ c.mirror = call[p].mirror
        /\ c.sync = call[p].sync /\ c.retire = call[p].retire /\ c.kept = call[p].kept
    BY <2>1 DEF Call, Stages
  <2>3. call' = [call EXCEPT ![p] = c]
        /\ UNCHANGED <<now, created, item, status, packs, copied, hist>>
    BY <1>2 DEF SyncsDone, Inv, TypeOK
  <2> HIDE DEF c
  <2>4. call[p].at <= now /\ call[p].mirror \cup call[p].sync \cup call[p].retire \subseteq Known
    BY DEF Inv, TypeOK, Calls
  <2>5. p = "job" => \A r \in c.retire :
              ~item[r].pinned /\ (r \in c.kept => c.at >= ScheduledAt(r))
    BY <2>2 DEF Inv, Calls
  <2> QED
    BY <1>2, <2>2, <2>3, <2>4, <2>5, CallOnly
<1> QED
  BY <1>1, <1>2

(* What is to be retired is not pinned, and a mirror among it is cut off:  *)
(* every other tier of a live mirror is hot or warm.                       *)
LEMMA ConsolidateKeeps == ASSUME Inv, Consolidate PROVE Inv'
<1> DEFINE sync == {r \in Known : ShouldSync(r)}
           retire == {r \in Known : ShouldArchive(r)}
           kept == {r \in Known : Live(r) /\ status[r].mirrored}
           c == [Resting EXCEPT !.stage = "sync", !.at = now, !.sync = sync,
                                !.retire = retire, !.kept = kept]
<1>1. sync \subseteq Known /\ retire \subseteq Known /\ kept \subseteq Known
      /\ Known \subseteq Records /\ now \in Time
  BY DEF Known, Inv, TypeOK
<1>2. \A r \in retire : ~item[r].pinned
  BY DEF ShouldArchive
<1>3. ASSUME NEW r \in retire, r \in kept PROVE now >= ScheduledAt(r)
  <2>1. Live(r) /\ Mode(r) = "mirror_then_retire" /\ ShouldArchive(r)
    BY <1>3 DEF Mode
  <2>2. CutOff(r) \/ TierFor(r) = "archive"
    BY <2>1 DEF ShouldArchive
  <2>3. ~CutOff(r) => TierFor(r) # "archive"
    BY <2>1 DEF TierFor
  <2> QED
    BY <2>2, <2>3 DEF CutOff
<1>4. call' = [call EXCEPT !["job"] = c]
      /\ UNCHANGED <<now, created, item, status, packs, copied, hist>>
  BY DEF Consolidate, Begin
<1> HIDE DEF sync, retire, kept
<1>5. /\ c \in Call /\ c.stage = "sync" /\ c.at = now /\ c.mirror = {} /\ c.sync = sync
      /\ c.retire = retire /\ c.kept = kept
  BY <1>1, RestingIsCall DEF Resting, Call, Stages
<1> HIDE DEF c
<1>6. "job" \in Procs /\ now <= now
  BY <1>1, MemoryConstants DEF Procs, Time
<1> QED
  BY <1>1, <1>2, <1>3, <1>4, <1>5, <1>6, CallOnly

(* A step that leaves the updates alone and only writes packs, marks what  *)
(* was sealed or counts a crash disturbs nothing but types.                *)
LEMMA FilesOnly ==
    ASSUME Inv, UNCHANGED <<now, created, item, status>>,
           copied \subseteq copied', copied' \subseteq copied \cup Known,
           packs' \in [PackNames -> SUBSET Records], hist' \in Hist,
           hist.sealed \subseteq hist'.sealed, call' \in [Procs -> Call],
           \A p \in Procs : call'[p].at <= now /\ (call'[p].stage = "idle" => call'[p] = Resting),
           call'["job"].stage = "seal" => call'["job"].retire # {}, Calls'
    PROVE  Inv'
<1>1. Known' = Known /\ Known \subseteq Records /\ \A r \in Records : Live(r)' = Live(r)
  BY DEF Known, Live
<1>2. copied' \subseteq Records
  BY <1>1 DEF Inv, TypeOK
<1>3. \A r \in Records : created'[r] = Never => r \notin copied' /\ ~status'[r].present
  BY DEF Inv, TypeOK, Known
<1>4. TypeOK'
  BY <1>2, <1>3 DEF Inv, TypeOK, Hist, Payloads
<1> QED
  BY <1>1, <1>4 DEF Inv, LiveMirrorIsArchived, RetiredWasSealed

LEMMA SealKeeps == ASSUME Inv, Seal PROVE Inv'
<1> DEFINE j == call["job"]
           name == PackName(j.retire)
           c == [j EXCEPT !.stage = "retire", !.pack = name]
           sealed == hist.sealed \cup j.retire
<1>1. "job" \in Procs /\ j \in Call /\ j.retire \subseteq Known /\ j.retire # {}
      /\ j.retire \in SUBSET Records
  BY DEF Inv, TypeOK, Calls, Seal, Procs, Call
<1>2. name \in PackNames
  BY <1>1, PackNameIsName DEF Inv
<1>3. /\ packs' = [packs EXCEPT ![name] = j.retire]
      /\ hist' = [hist EXCEPT !.sealed = sealed]
      /\ UNCHANGED <<now, created, item, status, copied>>
  BY DEF Seal
<1>4. call' = [call EXCEPT !["job"] = c]
  BY DEF Seal, Inv, TypeOK
<1> HIDE DEF name, sealed
<1>5. /\ c \in Call /\ c.stage = "retire" /\ c.retire = j.retire /\ c.at = j.at
      /\ c.mirror = j.mirror /\ c.sync = j.sync /\ c.kept = j.kept
  BY <1>1, <1>2 DEF Call, Stages, PackIds
<1> HIDE DEF c
<1>6. call'["operator"] = call["operator"] /\ call'["job"] = c /\ call' \in [Procs -> Call]
  BY <1>4, <1>5 DEF Inv, TypeOK, Procs
<1>7. hist' \in Hist /\ hist'.sealed = sealed
  BY <1>1, <1>3 DEF Inv, TypeOK, Hist, sealed
<1>8. packs' \in [PackNames -> SUBSET Records]
  BY <1>1, <1>3 DEF Inv, TypeOK
<1>9. \A p \in Procs : call'[p].at <= now /\ (call'[p].stage = "idle" => call'[p] = Resting)
  BY <1>5, <1>6 DEF Inv, TypeOK, Procs
<1>10. Known' = Known /\ \A r \in Records : Live(r)' = Live(r) /\ ScheduledAt(r)' = ScheduledAt(r)
  BY <1>3 DEF Known, Live, ScheduledAt
<1>11. Calls'
  <2>1. \A p \in Procs : call'[p].mirror \cup call'[p].sync \cup call'[p].retire \subseteq Known'
    BY <1>5, <1>6, <1>10 DEF Inv, Calls, Procs
  <2>2. call["operator"].mirror \subseteq Records
    BY DEF Inv, TypeOK, Call, Procs
  <2>3. call'["job"].retire \subseteq hist'.sealed
    BY <1>5, <1>6, <1>7 DEF sealed
  <2>4. \A r \in call'["job"].retire :
           ~item'[r].pinned /\ (r \in call'["job"].kept => call'["job"].at >= ScheduledAt(r)')
    BY <1>1, <1>3, <1>5, <1>6, <1>10 DEF Inv, Calls
  <2> QED
    BY <1>6, <1>10, <2>1, <2>2, <2>3, <2>4 DEF Inv, Calls
<1> QED
  BY <1>3, <1>5, <1>6, <1>7, <1>8, <1>9, <1>11, FilesOnly DEF sealed

LEMMA RetireKeeps == ASSUME Inv, Retire PROVE Inv'
<1> DEFINE j == call["job"]
<1>1. PICK r \in j.retire :
         /\ status' = [status EXCEPT ![r] = Retired(r, j.pack)]
         /\ call' = [call EXCEPT !["job"].retire = @ \ {r}]
  BY DEF Retire
<1>2. "job" \in Procs /\ j \in Call /\ r \in Known /\ r \in Records /\ j.stage = "retire"
      /\ r \in hist.sealed
  BY DEF Inv, TypeOK, Calls, Known, Retire, Procs
<1> DEFINE s == Retired(r, j.pack)
           retire == j.retire \ {r}
           c == [j EXCEPT !.retire = retire]
<1>3. s \in Status /\ s.present /\ s.retired
  BY <1>2 DEF Inv, TypeOK, Status, Retired, Call
<1>4. retire \in SUBSET Records /\ retire \subseteq j.retire
  BY <1>2 DEF Call
<1>5. call' = [call EXCEPT !["job"] = c] /\ UNCHANGED <<now, created, item, packs, copied, hist>>
  BY <1>1 DEF Retire, Inv, TypeOK
<1>6. status' = [status EXCEPT ![r] = s]
  BY <1>1
<1> HIDE DEF retire
<1>7. /\ c \in Call /\ c.stage = "retire" /\ c.at = j.at /\ c.mirror = j.mirror
      /\ c.sync = j.sync /\ c.retire = retire /\ c.pack = j.pack /\ c.kept = j.kept
  BY <1>2, <1>4 DEF Call
<1> HIDE DEF s, c, j
<1> QED
  BY <1>2, <1>3, <1>4, <1>5, <1>6, <1>7, UpdateKeeps DEF j

LEMMA ConsolidatedKeeps == ASSUME Inv, Consolidated PROVE Inv'
BY EndKeeps DEF Consolidated, Procs

(* A call that dies takes its promises with it.                            *)
LEMMA CrashKeeps == ASSUME Inv, NEW p \in Procs, Crash(p) PROVE Inv'
<1>1. \A q \in Procs : call'[q] = IF q = p THEN Resting ELSE call[q]
  BY DEF Crash, End, Inv, TypeOK
<1>2. UNCHANGED <<now, created, item, status>> /\ call[p] \in Call
  BY DEF Crash, Inv, TypeOK
<1>3. hist.crashes + 1 \in 0..MaxCrashes
  BY MemoryConstants DEF Inv, TypeOK, Crash
<1>4. hist' \in Hist /\ hist'.sealed = hist.sealed
  BY <1>3 DEF Inv, TypeOK, Hist, Crash
<1>5. copied \subseteq copied' /\ copied' \subseteq copied \cup Known
  BY DEF Crash, Inv, Calls
<1>6. packs' \in [PackNames -> SUBSET Records]
  BY DEF Crash, Inv, TypeOK
<1>7. call' \in [Procs -> Call]
  BY RestingIsCall DEF Crash, End, Inv, TypeOK
<1>8. Resting.at = 0 /\ Resting.mirror = {} /\ Resting.sync = {} /\ Resting.retire = {}
      /\ Resting.stage = "idle" /\ now \in Nat
  BY DEF Resting, Inv, TypeOK, Time
<1>9. \A q \in Procs : call'[q].at <= now /\ (call'[q].stage = "idle" => call'[q] = Resting)
  BY <1>1, <1>8 DEF Inv, TypeOK
<1>10. call'["job"].stage = "seal" => call'["job"].retire # {}
  BY <1>1, <1>8 DEF Inv, TypeOK, Procs
<1>11. Calls'
  <2>1. Known' = Known /\ \A r \in Records : Live(r)' = Live(r) /\ ScheduledAt(r)' = ScheduledAt(r)
    BY <1>2 DEF Known, Live, ScheduledAt
  <2>2. \A q \in Procs : call'[q].mirror \cup call'[q].sync \cup call'[q].retire \subseteq Known'
    BY <1>1, <1>8, <2>1 DEF Inv, Calls
  <2>3. call["operator"].mirror \subseteq Records /\ call["job"].retire \subseteq Records
    BY DEF Inv, TypeOK, Call, Procs
  <2>4. call'["operator"].stage = "mirror" /\ call'["operator"].pack # Copy =>
           \A r \in call'["operator"].mirror : ~Live(r)'
    BY <1>1, <1>8, <2>1, <2>3 DEF Inv, Calls, Procs
  <2>5. call'["job"].stage = "retire" => call'["job"].retire \subseteq hist'.sealed
    BY <1>1, <1>4, <1>8 DEF Inv, Calls, Procs
  <2>6. \A r \in call'["job"].retire :
           ~item'[r].pinned /\ (r \in call'["job"].kept => call'["job"].at >= ScheduledAt(r)')
    BY <1>1, <1>2, <1>8, <2>1, <2>3 DEF Inv, Calls, Procs
  <2> QED
    BY <2>2, <2>4, <2>5, <2>6 DEF Calls
<1> QED
  BY <1>2, <1>4, <1>5, <1>6, <1>7, <1>9, <1>10, <1>11, FilesOnly

LEMMA InvStep == Inv /\ [Next]_vars => Inv'
<1> SUFFICES ASSUME Inv, [Next]_vars PROVE Inv'
  OBVIOUS
<1>1. CASE UNCHANGED vars
  BY <1>1 DEF vars, Inv, TypeOK, Calls, LiveMirrorIsArchived, RetiredWasSealed, Live, Known,
              ScheduledAt, Payloads
<1>2. CASE Next
  BY <1>2, TickKeeps, RememberKeeps, ArchiveNowKeeps, MirrorKeeps, SyncLiveMirrorsKeeps,
     SyncRecordKeeps, SyncsDoneKeeps, ConsolidateKeeps, SealKeeps, RetireKeeps,
     ConsolidatedKeeps, CrashKeeps DEF Next, Operator, Steps, Job, Procs
<1> QED
  BY <1>1, <1>2

LEMMA InvAlways == Spec => []Inv
BY InvInit, InvStep, PTL DEF Spec

-----------------------------------------------------------------------------
(* The theorems.                                                           *)

(* The state is well formed; in particular no empty pack is sealed and     *)
(* nothing is archived of an event that is not in the log.                 *)
THEOREM TypeCorrect == Spec => []TypeOK
<1>1. Inv => TypeOK
  BY DEF Inv
<1> QED
  BY <1>1, InvAlways, PTL

(* A live record called archived has a mirror or sync pack.                *)
THEOREM LiveMirrorArchived == Spec => []LiveMirrorIsArchived
<1>1. Inv => LiveMirrorIsArchived
  BY DEF Inv
<1> QED
  BY <1>1, InvAlways, PTL

(* Retirement comes after sealing, whoever dies in between.                *)
THEOREM RetiredSealed == Spec => []RetiredWasSealed
<1>1. Inv => RetiredWasSealed
  BY DEF Inv
<1> QED
  BY <1>1, InvAlways, PTL

(* No update makes a retired record live again.                            *)
THEOREM RetiredFinal == Spec => RetiredIsFinal
<1>1. ASSUME Inv, Next, NEW r \in Records, ~Live(r) PROVE ~Live(r)'
  <2>1. status \in [Records -> Status] /\ status[r].retired /\ status[r] \in Status
    BY <1>1 DEF Inv, TypeOK, Live
  <2>2. CASE Tick
    BY <2>1, <2>2 DEF Tick, Live, Status
  <2>3. CASE Mirror
    BY <2>1, <2>3 DEF Mirror, Mirrored, Live, Status
  <2>4. CASE \E p \in Procs : SyncRecord(p)
    BY <2>1, <2>4 DEF SyncRecord, Synced, Live, Status
  <2>5. CASE Retire
    BY <2>1, <2>5 DEF Retire, Retired, Live, Status
  <2>6. CASE UNCHANGED status
    BY <2>1, <2>6 DEF Live
  <2> QED
    BY <1>1, <2>2, <2>3, <2>4, <2>5, <2>6
       DEF Next, Remember, Operator, ArchiveNow, SyncLiveMirrors, Steps, SyncsDone, Job,
           Consolidate, Seal, Consolidated, Crash, Procs
<1>2. Inv /\ [Next]_vars =>
         [\A r \in Records : ~Live(r) => ~Live(r)']_vars
  BY <1>1
<1> QED
  BY <1>2, InvAlways, PTL DEF Spec, RetiredIsFinal

(* A mirror a consolidation could see is live until its date, and a pinned *)
(* record for ever.                                                        *)
THEOREM MirrorsLive == Spec => MirrorsStayLive
<1>1. ASSUME Inv, Next, NEW r \in Records, Live(r), ~Live(r)'
      PROVE  ~item[r].pinned /\ (r \in call["job"].kept => call["job"].at >= ScheduledAt(r))
  <2>1. status \in [Records -> Status] /\ ~status[r].retired /\ status[r] \in Status
    BY <1>1 DEF Inv, TypeOK, Live
  <2>2. CASE Tick
    BY <1>1, <2>1, <2>2 DEF Tick, Live, Status
  <2>3. CASE Mirror
    BY <1>1, <2>1, <2>3 DEF Mirror, Mirrored, Live, Status
  <2>4. CASE \E p \in Procs : SyncRecord(p)
    BY <1>1, <2>1, <2>4 DEF SyncRecord, Synced, Live, Status
  <2>5. CASE Retire
    <3>1. r \in call["job"].retire
      BY <1>1, <2>1, <2>5 DEF Retire, Live
    <3> QED
      BY <1>1, <3>1 DEF Inv, Calls
  <2>6. CASE UNCHANGED status
    BY <1>1, <2>6 DEF Live
  <2> QED
    BY <1>1, <2>2, <2>3, <2>4, <2>5, <2>6
       DEF Next, Remember, Operator, ArchiveNow, SyncLiveMirrors, Steps, SyncsDone, Job,
           Consolidate, Seal, Consolidated, Crash, Procs
<1>2. Inv /\ [Next]_vars =>
         [\A r \in Records : Live(r) /\ ~Live(r)' =>
             /\ ~item[r].pinned
             /\ r \in call["job"].kept => call["job"].at >= ScheduledAt(r)]_vars
  BY <1>1
<1> QED
  BY <1>2, InvAlways, PTL DEF Spec, MirrorsStayLive

(* Nothing is mirrored or retired before a whole archive has it.           *)
THEOREM ArchivedFirst == Spec => []ArchivesComeFirst
BY LiveMirrorArchived, RetiredSealed, PTL DEF ArchivesComeFirst

(* Retirement is final and comes not before its date.                      *)
THEOREM RetirementOrderly == Spec => RetirementIsOrderly
BY RetiredFinal, MirrorsLive, PTL DEF RetirementIsOrderly
=============================================================================
