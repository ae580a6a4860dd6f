------------------------------ MODULE Workspace ------------------------------
(***************************************************************************)
(* Processes of the command line that work on one workspace.  A command is *)
(* a list of steps: updates of the workspace's files, reads, and events    *)
(* for the log.  An update loads a file, opens it for writing, which       *)
(* empties it, and writes it whole; nothing locks it, and a process may    *)
(* crash anywhere in between.  A file that is empty cannot be parsed, and  *)
(* the command that loads it ends with an exception; code files are text   *)
(* and load as no lines.                                                   *)
(*                                                                         *)
(* The loop's trainer reads the curriculum memory in a process of its own. *)
(* Identifiers (of directives and of fixes) are numbered as they are made. *)
(***************************************************************************)
EXTENDS Integers, Sequences, FiniteSets, SequencesExt,
        Ledgers, FixNet, CodeEditing, CurriculumTrainer, RunManifest

CONSTANTS
    Procs,       \* processes, one command each at a time
    Clusters,    \* failure clusters of the curriculum memory
    Kinds,       \* kinds of commands that are given
    InitCode,    \* the lines of the one code file
    Ranges,      \* line ranges of the patches that are given
    RunPatches,  \* patches of the run: their path and what comes of them
    MaxCommands, \* bound: commands
    MaxCrashes   \* bound: crashes

\* Lines are numbered from 1; no call checks that, nor that a range ends where it begins or later.
ASSUME WorkspaceConstants ==
    /\ MaxCommands \in Nat /\ MaxCrashes \in Nat
    /\ InitCode \in Seq(Range(InitCode))
    /\ Ranges \subseteq (Nat \ {0}) \X Nat

VARIABLES
    content,  \* of each file, as written last
    whole,    \* FALSE: the file is empty or mixed up
    proc,     \* of each process: its steps and the file it has loaded
    packs,    \* fixes with a whole pack file
    log,      \* events recorded
    patches,  \* results of patches, with their undo records
    trainer,  \* the loop's trainer
    budget,   \* commands and crashes so far
    lost,     \* history: files that were mixed up, or written from an old copy
    done      \* history: the items that were written into each file

vars == <<content, whole, proc, packs, log, patches, trainer, budget, lost, done>>

Files == {"directives", "trust", "curriculum", "state", "boots", "fixes", "edges",
          "consensus", "index", "code", "run", "profiles"}
Ids == 1..(MaxCommands + 1)

IdleProc == [todo |-> <<>>, stage |-> "next", copy |-> <<"", {}>>, note |-> 0,
             row |-> NewConsensus, at |-> <<0, 0>>, raced |-> FALSE]

\* A workspace that a session has used before: it booted, gave directive 1,
\* recorded a success, registered fix 1 and embedded it, registered model
\* profile 1, and scaffolded a run and scored a candidate in it.
Init ==
    /\ content = [directives |-> RegisterDirective({}, 1, 0),
                  trust |-> RecordOutcome(NewTrust, TRUE),
                  curriculum |-> NewCurriculum(Clusters),
                  state |-> BootState(NewState, "primary"), boots |-> <<1>>,
                  fixes |-> {1}, edges |-> {},
                  consensus |-> [id \in Ids |-> NewConsensus],
                  index |-> EmbedRow(NewIndex(Ids), 1),
                  code |-> InitCode,
                  run |-> SetScores(AddCandidates(NewRun, 1)),
                  profiles |-> RegisterProfile(NewProfiles, 1, FALSE)]
    /\ whole = [f \in Files |-> TRUE]
    /\ proc = [p \in Procs |-> IdleProc]
    /\ packs = {1} /\ patches = {}
    /\ log = {<<"directive", 1>>, <<"trust", 1>>, <<"boot", 1>>, <<"fix", 1>>, <<"embedded", 1>>,
              <<"candidates", 1>>}
    /\ trainer = [decided |-> FALSE, cooling |-> FALSE, trained |-> FALSE]
    /\ budget = [commands |-> 0, crashes |-> 0]
    /\ lost = {}
    /\ done = [f \in Files |-> IF f \in {"curriculum", "edges", "consensus", "index", "code"} THEN 0 ELSE 1]

-----------------------------------------------------------------------------
(* Commands.                                                               *)

Step(file, op, subject, value) == [file |-> file, op |-> op, subject |-> subject, value |-> value]
Event(kind, id) == Step("log", "event", kind, id)
Noted(kind) == Step("log", "noted", kind, 0)

AddDirective(id, other) ==
    <<Step("directives", "register", id, other), Event("directive", id)>>
EndDirective(id, status) ==
    <<Step("directives", "complete", id, status), Event("directive", id)>>
Boot(fallback) ==
    <<Step("directives", "read", 0, 0), Step("state", "boot", fallback, 0),
      Step("boots", "append", 0, 0), Noted("boot")>>
Beat(mode) == <<Step("state", "heartbeat", mode, 0), Event("heartbeat", 0)>>

ToolOutcome(ok) == <<Step("trust", "outcome", ok, 0), Noted("trust")>>
ToolNotes == <<Step("trust", "notes", 0, 0)>>
Lesson(cluster, outcome) ==
    <<Step("curriculum", "record", cluster, outcome), Event("curriculum", 0),
      Step("curriculum", "read", 0, 0)>>

\* Mutant: the index has the row before there is a pack.
EmbedIndexFirst(id) ==
    <<Step("fixes", "known", id, 0), Step("consensus", "read", 0, 0), Step("edges", "read", 0, 0),
      Step("index", "embed", id, 0), Step("pack", "pack", id, 0), Event("embedded", id)>>

EmbedFix(id) ==
    <<Step("fixes", "known", id, 0), Step("consensus", "read", 0, 0), Step("edges", "read", 0, 0),
      Step("pack", "pack", id, 0), Step("index", "embed", id, 0), Event("embedded", id)>>
SyncFix(id, status) ==
    <<Step("fixes", "known", id, 0), Step("index", "sync", id, status), Event("synced", id)>>
RetireFix(id) == <<Step("index", "sync", id, "retired")>>
FixOutcome(id, ok) ==
    <<Step("consensus", "score", id, ok), Step("consensus", "upsert", id, 0)>>
LinkFixes(id, other) == <<Step("edges", "add", id, other)>>

\* Mutant: the event is recorded before the ledger has the fix.
RegisterFixLate(id, embed) ==
    <<Event("fix", id), Step("fixes", "add", id, 0), Step("fixes", "nearest", id, 0),
      Step("edges", "similar", id, 0)>>
    \o (IF embed THEN EmbedFix(id) ELSE <<>>)
RegisterFix(id, embed) ==
    <<Step("fixes", "add", id, 0), Step("fixes", "nearest", id, 0),
      Step("edges", "similar", id, 0), Event("fix", id)>>
    \o (IF embed THEN EmbedFix(id) ELSE <<>>)

ValidateRun(id, passed, cluster) ==
    <<Step("run", "read", 0, 0), Event("validation", 0)>> \o ToolOutcome(passed)
    \o Lesson(IF passed THEN "none" ELSE cluster, IF passed THEN "success" ELSE "failure")
    \o (IF passed THEN <<>> ELSE RegisterFix(id, TRUE) \o SyncFix(id, "live"))

PromoteRun(id, force, cluster) ==
    <<Step("run", "court", force, [id |-> id, cluster |-> cluster])>>
AfterCourt(approved, id, cluster) ==
    IF approved
    THEN <<Event("promotion", 0)>> \o ToolOutcome(TRUE) \o Lesson("none", "success")
    ELSE RegisterFix(id, TRUE) \o ToolOutcome(FALSE) \o Lesson(cluster, "failure")
         \o SyncFix(id, "live") \o <<Event("promotion", 0)>>

\* patch: its path, and whether it fits and passes its verification.
ApplyRunPatch(id, patch) == <<Step("run", "patch", id, patch), Event("patch", id)>>
InjectFault(id) == <<Step("run", "fault", id, 0), Event("fault", id)>>

\* A run that fails is copied to the quarantine; nothing else is told of it.
CycleSteps(id, patch, how) ==
    <<Step("run", "patch", id, patch)>>
    \o (IF how = "unvalidated" THEN <<>> ELSE <<Step("run", "read", 0, 0)>>)
    \o (IF how \in {"promoted", "forced"} THEN <<Step("run", "approve", how = "forced", 0)>> ELSE <<>>)
ExecuteCycle(id, patch, how) == CycleSteps(id, patch, how) \o <<Event("patch", id)>>
AdversarialCycle(id, patch) ==
    <<Step("run", "fault", id, 0)>> \o CycleSteps(id, patch, "validated") \o <<Event("patch", id)>>

GenerateCandidates(id) == <<Step("run", "candidates", id, 0), Event("candidates", id)>>
\* The key that is looked for, best_candidate, is never in the scores.
ScoreCandidates(cluster) ==
    <<Step("run", "scores", 0, 0), Event("scores", 0)>> \o Lesson(cluster, "failure")
\* Nor is candidate_id in the choice, so that no lesson follows.
ChooseBest == <<Step("run", "best", 0, 0), Event("best", 0)>>
ExecuteBest(id, patch, how) ==
    ChooseBest \o <<Step("run", "chosen", 0, 0)>> \o ExecuteCycle(id, patch, how)

\* hash: the contents that are accepted, {} for any.
PatchRange(range, text, hash) ==
    <<Event("proposal", 0),
      Step("code", "range", [lo |-> range[1], hi |-> range[2], text |-> text], hash),
      Event("receipt", 0)>>
PatchSymbol(symbol, text, hash) ==
    <<Event("proposal", 0), Step("code", "symbol", [symbol |-> symbol, text |-> text], hash),
      Event("receipt", 0)>>

NewId == budget.commands + 2
\* Identifiers that have been printed, and 0 for a mistyped one.
Printed(kind) == {id \in Ids : <<kind, id>> \in log}
Symbols == {InitCode[i].symbol : i \in DOMAIN InitCode} \ {""}
CycleEnds == {"unvalidated", "validated", "promoted", "forced"}
Texts(symbol) == {<<>>, <<[symbol |-> symbol, text |-> "new"]>>,
                  <<[symbol |-> symbol, text |-> "new"], [symbol |-> symbol, text |-> "more"]>>}
Hashes == {{}, {content["code"]}}

Give(p, kind, steps) ==
    /\ kind \in Kinds /\ proc[p].todo = <<>> /\ budget.commands < MaxCommands
    /\ proc' = [proc EXCEPT ![p].todo = steps]
    /\ budget' = [budget EXCEPT !.commands = @ + 1]
    /\ UNCHANGED <<content, whole, packs, log, patches, trainer, lost, done>>

DirectiveCommand(p) ==
    \/ \E other \in {0} \cup Printed("directive") : Give(p, "directive", AddDirective(NewId, other))
    \/ \E id \in {0} \cup Printed("directive"), status \in {"complete", "superseded"} :
          Give(p, "directive", EndDirective(id, status))
ContinuityCommand(p) ==
    \/ \E fallback \in BOOLEAN : Give(p, "continuity", Boot(BootMode(TRUE, fallback)))
    \/ Give(p, "continuity", Beat("fallback"))
TrustCommand(p) ==
    \/ \E ok \in BOOLEAN : Give(p, "trust", ToolOutcome(ok))
    \/ Give(p, "trust", ToolNotes)
CurriculumCommand(p) ==
    \E c \in Clusters : Give(p, "curriculum", Lesson(c, "failure"))
FixNetCommand(p) ==
    \/ \E embed \in BOOLEAN : Give(p, "fixnet", RegisterFix(NewId, embed))
    \/ \E id \in {0} \cup Printed("fix") : Give(p, "fixnet", EmbedFix(id))
    \/ \E id \in Printed("fix") :
          \/ Give(p, "fixnet", SyncFix(id, "live"))
          \/ Give(p, "fixnet", RetireFix(id))
          \/ \E ok \in BOOLEAN : Give(p, "fixnet", FixOutcome(id, ok))
          \/ \E other \in Printed("fix") \ {id} : Give(p, "fixnet", LinkFixes(id, other))
VerdictCommand(p) ==
    \E c \in Clusters :
        \/ \E passed \in BOOLEAN : Give(p, "verdict", ValidateRun(NewId, passed, c))
        \/ \E force \in BOOLEAN : Give(p, "verdict", PromoteRun(NewId, force, c))
RunCommand(p) ==
    \/ \E patch \in RunPatches :
          \/ Give(p, "run", ApplyRunPatch(NewId, patch))
          \/ \E how \in CycleEnds : Give(p, "run", ExecuteCycle(NewId, patch, how))
          \/ \E how \in CycleEnds \ {"unvalidated"} : Give(p, "run", ExecuteBest(NewId, patch, how))
          \/ Give(p, "run", AdversarialCycle(NewId, patch))
    \/ Give(p, "run", InjectFault(NewId))
    \/ Give(p, "run", GenerateCandidates(NewId))
    \/ \E c \in Clusters : Give(p, "run", ScoreCandidates(c))
    \/ Give(p, "run", ChooseBest)
ProfileCommand(p) ==
    \/ \E activate \in BOOLEAN : Give(p, "profile", <<Step("profiles", "profile", NewId, activate)>>)
    \/ \E id \in content["profiles"].names \cup {0} :
          Give(p, "profile", <<Step("profiles", "activate", id, 0)>>)
CodeCommand(p) ==
    \E hash \in Hashes :
        \/ \E range \in Ranges, text \in Texts("") : Give(p, "code", PatchRange(range, text, hash))
        \/ \E symbol \in Symbols : \E text \in Texts(symbol) :
              Give(p, "code", PatchSymbol(symbol, text, hash))

-----------------------------------------------------------------------------
(* Steps.                                                                  *)

Busy(p) == proc[p].todo # <<>>
Now(p) == Head(proc[p].todo)
Reads == {"read", "known", "nearest", "score", "court", "approve", "best", "chosen"}
Loaded(f) == IF whole[f] THEN content[f] ELSE <<>>

\* An exception, or an error that is returned: the command ends.
Raises(p) == proc' = [proc EXCEPT ![p] = IdleProc]
AfterStep(p, note, row) == [IdleProc EXCEPT !.todo = Tail(proc[p].todo), !.note = note, !.row = row]
GoesOn(p, note, row) == proc' = [proc EXCEPT ![p] = AfterStep(p, note, row)]
Passes(p) == GoesOn(p, proc[p].note, proc[p].row)

Record(p) ==
    /\ Busy(p) /\ Now(p).file = "log"
    /\ log' = log \cup {<<Now(p).subject, IF Now(p).op = "noted" THEN proc[p].note ELSE Now(p).value>>}
    /\ Passes(p)
    /\ UNCHANGED <<content, whole, packs, patches, trainer, budget, lost, done>>

\* There is no such fix; the court denies the run; the candidate that was
\* chosen, if one was, is not in the manifest.
Stops(p) ==
    LET s == Now(p)  c == content[s.file] IN
    \/ ~whole[s.file] /\ s.op # "court"
    \/ s.op = "known" /\ s.subject \notin c
    \/ s.op = "chosen" /\ proc[p].note \notin c.candidates

Learns(p) ==
    LET s == Now(p)  c == content[s.file] IN
    CASE s.op = "nearest" -> \E near \in Nearest(c, s.subject) : GoesOn(p, near, proc[p].row)
      [] s.op = "best" -> \E best \in Best(c) : GoesOn(p, best, proc[p].row)
      [] s.op = "score" -> GoesOn(p, proc[p].note, ConsensusRecord(c[s.subject], s.value))
      [] s.op = "approve" ->
           \E approved \in CourtAnswers(c, s.subject) : IF approved THEN Passes(p) ELSE Raises(p)
      [] s.op = "court" ->
           \E approved \in IF whole["run"] THEN CourtAnswers(c, s.subject) ELSE {FALSE} :
              proc' = [proc EXCEPT ![p].todo = AfterCourt(approved, s.value.id, s.value.cluster)]
      [] s.op \in {"read", "known", "chosen"} -> Passes(p)

Read(p) ==
    /\ Busy(p) /\ Now(p).op \in Reads
    /\ IF Stops(p) THEN Raises(p) ELSE Learns(p)
    /\ UNCHANGED <<content, whole, packs, log, patches, trainer, budget, lost, done>>

\* A pack file is new; until it is whole nothing refers to it.
WritePack(p) ==
    /\ Busy(p) /\ Now(p).op = "pack"
    /\ packs' = packs \cup {Now(p).subject}
    /\ Passes(p)
    /\ UNCHANGED <<content, whole, log, patches, trainer, budget, lost, done>>

Updates(p) == Busy(p) /\ Now(p).file \notin {"log", "pack"} /\ Now(p).op \notin Reads

\* No row to change; another content than the one that is expected; a patch
\* that does not fit; an unknown profile.
Refuses(s, c) ==
    CASE s.op = "complete" -> \A r \in c : r.id # s.subject
      [] s.op = "sync" -> c[s.subject] = "absent"
      [] s.file = "code" -> s.value # {} /\ c \notin s.value
      [] s.op = "patch" -> s.value.result = "misfit"
      [] s.op = "activate" -> s.subject \notin c.names
      [] OTHER -> FALSE

\* There is no similar fix, or the edge is there.
NothingToSave(p, s, c) ==
    \/ s.op = "similar" /\ (proc[p].note = 0 \/ <<proc[p].note, s.subject>> \in c)
    \/ s.op = "add" /\ s.file = "edges" /\ <<s.subject, s.value>> \in c

Load(p) ==
    /\ Updates(p) /\ proc[p].stage = "next"
    /\ LET s == Now(p)  c == Loaded(s.file) IN
       IF s.op = "similar" /\ proc[p].note = 0 THEN Passes(p)
       ELSE IF (~whole[s.file] /\ s.file # "code") \/ Refuses(s, c) THEN Raises(p)
       ELSE IF NothingToSave(p, s, c) THEN Passes(p)
       ELSE proc' = [proc EXCEPT ![p].stage = "loaded", ![p].copy = <<s.file, c>>]
    /\ UNCHANGED <<content, whole, packs, log, patches, trainer, budget, lost, done>>

\* The symbol is looked up in the file, which is read again for it.
ResolveLines(p) ==
    /\ Updates(p) /\ Now(p).op = "symbol" /\ proc[p].stage = "loaded"
    /\ LET at == FindSymbol(Loaded("code"), Now(p).subject.symbol) IN
       IF at = <<0, 0>> THEN Raises(p)
       ELSE proc' = [proc EXCEPT ![p].stage = "resolved", ![p].at = at]
    /\ UNCHANGED <<content, whole, packs, log, patches, trainer, budget, lost, done>>

Open(p) ==
    /\ Updates(p) /\ proc[p].stage = IF Now(p).op = "symbol" THEN "resolved" ELSE "loaded"
    /\ whole' = [whole EXCEPT ![Now(p).file] = FALSE]
    /\ proc' = [proc EXCEPT ![p].stage = "open"]
    /\ UNCHANGED <<content, packs, log, patches, trainer, budget, lost, done>>

Target(p) == IF Now(p).op = "symbol" THEN proc[p].at ELSE <<Now(p).subject.lo, Now(p).subject.hi>>

Updated(p) ==
    LET s == Now(p)  c == proc[p].copy[2]  note == proc[p].note IN
    CASE s.op = "register" -> RegisterDirective(c, s.subject, s.value)
      [] s.op = "complete" -> CompleteDirective(c, s.subject, s.value)
      [] s.op = "outcome" -> RecordOutcome(c, s.subject)
      [] s.op = "notes" -> UpsertTrust(c)
      [] s.op = "record" -> RecordCurriculum(c, s.subject, s.value)
      [] s.op = "boot" -> BootState(c, s.subject)
      [] s.op = "heartbeat" -> Heartbeat(c, s.subject)
      [] s.op = "append" -> Append(c, note)
      [] s.op = "add" /\ s.file = "fixes" -> c \cup {s.subject}
      [] s.op = "add" /\ s.file = "edges" -> AddEdge(c, s.subject, s.value)
      [] s.op = "similar" -> AddEdge(c, note, s.subject)
      [] s.op = "upsert" -> [c EXCEPT ![s.subject] = proc[p].row]
      [] s.op = "embed" -> EmbedRow(c, s.subject)
      [] s.op = "sync" -> SyncRow(c, s.subject, s.value)
      [] s.op = "patch" -> AddPatch(c, s.subject, s.value.path, s.value.result = "ok")
      [] s.op = "candidates" -> AddCandidates(c, s.subject)
      [] s.op = "scores" -> SetScores(c)
      [] s.op = "fault" -> AddFault(c, s.subject)
      [] s.op = "profile" -> RegisterProfile(c, s.subject, s.value)
      [] s.op = "activate" -> [c EXCEPT !.active = s.subject]
      [] s.file = "code" -> Replace(c, Target(p)[1], Target(p)[2], s.subject.text)

\* What a later step of the command is told.
Told(p, new) ==
    CASE Now(p).op = "outcome" -> new.ok + new.bad
      [] Now(p).op = "boot" -> new.boots
      [] OTHER -> proc[p].note

PatchResult(p, new) ==
    LET lo == Target(p)[1]  hi == Target(p)[2]  text == Now(p).subject.text IN
    [before |-> proc[p].copy[2], after |-> new, lo |-> lo, hi |-> hi, text |-> text,
     undo |-> Undo(proc[p].copy[2], lo, hi, text),
     symbol |-> IF Now(p).op = "symbol" THEN Now(p).subject.symbol ELSE "",
     raced |-> proc[p].raced]

Adds == {"register", "outcome", "record", "boot", "append", "add", "similar", "upsert",
         "patch", "candidates", "fault", "profile"}

\* Those who have loaded the file hold an old copy from here on; what one of
\* them writes who has opened it before may be mixed up with this.
Write(p) ==
    /\ Updates(p) /\ proc[p].stage = "open"
    /\ LET s == Now(p)  f == s.file  new == Updated(p) IN
       /\ content' = [content EXCEPT ![f] = new]
       /\ \E w \in IF proc[p].raced THEN BOOLEAN ELSE {TRUE} : whole' = [whole EXCEPT ![f] = w]
       /\ proc' = [q \in Procs |->
             IF q = p THEN AfterStep(p, Told(p, new), proc[p].row)
             ELSE IF Busy(q) /\ Now(q).file = f /\ (proc[q].stage # "next" \/ Now(q).op = "upsert")
             THEN [proc[q] EXCEPT !.raced = TRUE]
             ELSE proc[q]]
       /\ patches' = IF f = "code" THEN patches \cup {PatchResult(p, new)} ELSE patches
       /\ lost' = IF proc[p].raced THEN lost \cup {f} ELSE lost
       /\ done' = IF s.op \in Adds THEN [done EXCEPT ![f] = @ + 1] ELSE done
    /\ UNCHANGED <<packs, log, trainer, budget>>

Crash(p) ==
    /\ Busy(p) /\ budget.crashes < MaxCrashes
    /\ Raises(p)
    /\ budget' = [budget EXCEPT !.crashes = @ + 1]
    /\ lost' = IF proc[p].stage = "open" THEN lost \cup {Now(p).file} ELSE lost
    /\ UNCHANGED <<content, whole, packs, log, patches, trainer, done>>

-----------------------------------------------------------------------------
(* Stage 9 of the loop.                                                    *)

Evaluate ==
    /\ ~trainer.decided /\ whole["curriculum"]
    /\ ShouldTrain(Profiles(content["curriculum"]), trainer.cooling)
    /\ trainer' = [trainer EXCEPT !.decided = TRUE]
    /\ UNCHANGED <<content, whole, proc, packs, log, patches, budget, lost, done>>

\* The dataset is exported.  The profiles a model to train is looked up in
\* are not those of the workspace.
Train ==
    /\ trainer.decided
    /\ trainer' = [decided |-> FALSE, cooling |-> TRUE, trained |-> TRUE]
    /\ log' = log \cup {<<"training", TrainingStatus>>}
    /\ UNCHANGED <<content, whole, proc, packs, patches, budget, lost, done>>

CooldownPasses ==
    /\ trainer.cooling
    /\ trainer' = [trainer EXCEPT !.cooling = FALSE]
    /\ UNCHANGED <<content, whole, proc, packs, log, patches, budget, lost, done>>

-----------------------------------------------------------------------------
Commands(p) ==
    \/ DirectiveCommand(p) \/ ContinuityCommand(p) \/ TrustCommand(p) \/ CurriculumCommand(p)
    \/ FixNetCommand(p) \/ VerdictCommand(p) \/ RunCommand(p) \/ CodeCommand(p) \/ ProfileCommand(p)
Steps(p) ==
    Record(p) \/ Read(p) \/ WritePack(p) \/ Load(p) \/ ResolveLines(p) \/ Open(p) \/ Write(p)

Next ==
    \/ \E p \in Procs : Commands(p) \/ Steps(p) \/ Crash(p)
    \/ Evaluate \/ Train \/ CooldownPasses

Spec == Init /\ [][Next]_vars

\* Processes that run go on; the loop evaluates again and again.
FairSpec ==
    /\ Spec
    /\ \A p \in Procs : WF_vars(Steps(p))
    /\ WF_vars(Evaluate) /\ WF_vars(Train) /\ WF_vars(CooldownPasses)

-----------------------------------------------------------------------------
(* Properties.                                                             *)

\* The uses that are recorded of all fixes, numbered for each.
Uses(rows) == UNION {{id} \X (1..(rows[id].ok + rows[id].bad)) : id \in Ids}

\* The items in v, which file f holds.
Size(f, v) ==
    CASE f \in {"directives", "fixes", "edges"} -> Cardinality(v)
      [] f = "trust" -> v.ok + v.bad
      [] f = "curriculum" -> v.seen
      [] f = "state" -> v.boots
      [] f = "boots" -> Len(v)
      [] f = "run" -> Entries(v)
      [] f = "profiles" -> Cardinality(v.names)
      [] f = "consensus" -> Cardinality(Uses(v))

\* No item that was written is lost by a later command, unless two updates of
\* the file overlapped or a crash left it empty.
UpdatesSurvive ==
    \A f \in Files \ ({"index", "code"} \cup lost) : Size(f, content[f]) = done[f]

\* What an event tells is in the files: events follow the writes they tell of,
\* and no two boots are told of by one number.
EventsAreBacked ==
    /\ \A e \in log :
        /\ e[1] = "directive" /\ "directives" \notin lost => \E r \in content["directives"] : r.id = e[2]
        /\ e[1] = "trust" /\ "trust" \notin lost => e[2] <= Size("trust", content["trust"])
        /\ e[1] = "boot" /\ "boots" \notin lost => e[2] \in Range(content["boots"])
        /\ e[1] = "fix" /\ "fixes" \notin lost => e[2] \in content["fixes"]
        /\ e[1] = "patch" /\ "run" \notin lost => \E r \in content["run"].patches : r.id = e[2]
    /\ "state" \notin lost => IsInjective(content["boots"])

\* A row of the index has a whole pack, the ends of an edge are fixes, the
\* active profile and the scored candidates are there, also after a crash
\* between the two.
ReferencesAreWhole ==
    /\ \A id \in Ids : content["index"][id] # "absent" => id \in packs
    /\ content["profiles"].active \in content["profiles"].names
    /\ content["run"].scored \subseteq content["run"].candidates
    /\ "fixes" \notin lost => \A e \in content["edges"] : e[1] \in content["fixes"] /\ e[2] \in content["fixes"]

\* The undo record of a patch restores what was there, unless the file was
\* read while another process had emptied it, the patch put
\* in no line, began beyond the end of the file or beyond its own end, or took
\* out a block that ends in a blank line; and a patch of a symbol is one of all lines of that symbol,
\* unless the file was written between its two reads.
PatchesAreExact ==
    \A r \in patches :
        /\ /\ r.text # <<>> /\ r.before # <<>>
           /\ r.lo <= Len(r.before) + 1 /\ r.lo <= r.hi + 1
           /\ Rejoined(Slice(r.before, r.lo, r.hi)) = Slice(r.before, r.lo, r.hi)
           => Replace(r.after, r.undo.lo, r.undo.hi, r.undo.text) = r.before
        /\ r.symbol # "" /\ ~r.raced =>
               <<r.lo, r.hi>> = FindSymbol(r.before, r.symbol)

\* Failures that reach the threshold in one cluster make the trainer train.
FailuresTrain ==
    (\E c \in Clusters : content["curriculum"].count[c] >= FailureThreshold) ~> trainer.trained
=============================================================================
