--------------------------- MODULE WorkspaceProofs ---------------------------
(***************************************************************************)
(* Theorems about Workspace, for any processes, commands and crashes.      *)
(***************************************************************************)
EXTENDS Workspace, FiniteSetTheorems, SequenceTheorems, WellFoundedInduction, TLAPS

Ids0 == {0} \cup Ids
Made == 1..(budget.commands + 1)

(***************************************************************************)
(* The steps that commands are made of.                                    *)
(***************************************************************************)
StepOf(file, ops, subjects, values) ==
    [file : {file}, op : ops, subject : subjects, value : values]

Lines == Range(InitCode) \cup {Blank} \cup [symbol : Symbols \cup {""}, text : {"new", "more"}]
LineRanges == [lo : Nat \ {0}, hi : Nat, text : Seq(Lines)]
SymbolTexts == [symbol : Symbols, text : Seq(Lines)]
EventKinds == {"directive", "heartbeat", "curriculum", "embedded", "synced", "fix", "validation",
               "promotion", "patch", "fault", "candidates", "scores", "best", "proposal", "receipt"}

LogSteps ==
    StepOf("log", {"event"}, EventKinds, Ids0) \cup StepOf("log", {"noted"}, {"boot", "trust"}, {0})
LedgerSteps ==
    StepOf("directives", {"register"}, Ids, Ids0)
    \cup StepOf("directives", {"complete"}, Ids0, {"complete", "superseded"})
    \cup StepOf("directives", {"read"}, {0}, {0})
    \cup StepOf("state", {"boot", "heartbeat"}, {"primary", "fallback", "degraded"}, {0})
    \cup StepOf("boots", {"append"}, {0}, {0})
    \cup StepOf("trust", {"outcome"}, BOOLEAN, {0})
    \cup StepOf("trust", {"notes"}, {0}, {0})
    \cup StepOf("curriculum", {"record"}, Clusters \cup {"none"}, {"success", "failure"})
    \cup StepOf("curriculum", {"read"}, {0}, {0})
    \cup StepOf("profiles", {"profile"}, Ids, BOOLEAN)
    \cup StepOf("profiles", {"activate"}, Ids0, {0})
FixSteps ==
    StepOf("fixes", {"known", "nearest"}, Ids0, {0})
    \cup StepOf("fixes", {"add"}, Ids, {0})
    \cup StepOf("edges", {"add"}, Ids, Ids)
    \cup StepOf("edges", {"similar"}, Ids, {0})
    \cup StepOf("edges", {"read"}, {0}, {0})
    \cup StepOf("consensus", {"score"}, Ids, BOOLEAN)
    \cup StepOf("consensus", {"upsert"}, Ids, {0})
    \cup StepOf("consensus", {"read"}, {0}, {0})
    \cup StepOf("pack", {"pack"}, Ids0, {0})
    \cup StepOf("index", {"embed"}, Ids0, {0})
    \cup StepOf("index", {"sync"}, Ids, {"live", "retired"})
RunSteps ==
    StepOf("run", {"read", "scores", "best", "chosen"}, {0}, {0})
    \cup StepOf("run", {"court"}, BOOLEAN, [id : Ids, cluster : Clusters])
    \cup StepOf("run", {"patch"}, Ids, RunPatches)
    \cup StepOf("run", {"fault", "candidates"}, Ids, {0})
    \cup StepOf("run", {"approve"}, BOOLEAN, {0})
CodeSteps ==
    StepOf("code", {"range"}, LineRanges, SUBSET Seq(Lines))
    \cup StepOf("code", {"symbol"}, SymbolTexts, SUBSET Seq(Lines))
AllSteps == LogSteps \cup LedgerSteps \cup FixSteps \cup RunSteps \cup CodeSteps

(***************************************************************************)
(* What a step needs of those before it.  A fact is that a directive, a    *)
(* fix or a patch is in its file, or that a pack is whole.                 *)
(***************************************************************************)
FactKinds == {"directive", "fix", "pack", "patch"}

Gives(s, kind, id) ==
    /\ \/ kind = "directive" /\ s.op \in {"register", "complete"}
       \/ kind = "fix" /\ s.op = "add" /\ s.file = "fixes"
       \/ kind = "pack" /\ s.op = "pack"
       \/ kind = "patch" /\ s.op = "patch"
    /\ id = s.subject

Asks(s, kind, id) ==
    \/ s.op = "event" /\ kind = s.subject /\ id = s.value
    \/ kind = "fix" /\ s.op = "similar" /\ id = s.subject
    \/ kind = "fix" /\ s.op = "add" /\ s.file = "edges" /\ id \in {s.subject, s.value}
    \/ kind = "pack" /\ s.op = "embed" /\ id = s.subject

Supplied(t, facts) ==
    \A i \in DOMAIN t, kind \in FactKinds, id \in Ids0 :
        Asks(t[i], kind, id) =>
            <<kind, id>> \in facts \/ \E j \in DOMAIN t : j < i /\ Gives(t[j], kind, id)

\* What is told to a step is told by the one just before it.
Teller(s) ==
    IF s.op = "similar" THEN "nearest"
    ELSE IF s.op = "noted" /\ s.subject = "trust" THEN "outcome"
    ELSE IF s.op = "noted" THEN "append"
    ELSE IF s.op = "append" THEN "boot"
    ELSE IF s.op = "upsert" THEN "score"
    ELSE "none"

Chained(t) ==
    \A i \in DOMAIN t :
        i > 1 /\ Teller(t[i]) # "none" =>
            t[i - 1].op = Teller(t[i]) /\ (t[i].op = "upsert" => t[i].subject = t[i - 1].subject)

\* Items a step puts into its file, which are new.
Brings(s, kind, id) ==
    \/ s.op = "court" /\ kind = "add" /\ id = s.value.id
    \/ /\ kind = s.op
       /\ \/ s.op \in {"register", "patch", "candidates", "fault", "profile"}
          \/ s.op = "add" /\ s.file = "fixes"
       /\ id = s.subject
NewKinds == {"register", "patch", "candidates", "fault", "profile", "add"}

(***************************************************************************)
(* What the files hold, also in the copy a process has loaded.             *)
(***************************************************************************)
Rows == [tier : {"unknown", "highly_trusted", "trusted", "quarantined", "experimental"},
         ok : Nat, bad : Nat]
DirectiveRows == [id : Made, status : {"active", "superseded", "complete"}, supersedes : Ids0]
IndexRows == {"absent", "embedded", "live", "retired"}

IsRun(v) ==
    /\ v = [patches |-> v.patches, candidates |-> v.candidates, scored |-> v.scored, faults |-> v.faults]
    /\ IsFiniteSet(v.patches) /\ \A r \in v.patches : r.id \in Made
    /\ v.candidates \subseteq Made /\ v.faults \subseteq Made
    /\ v.scored \subseteq v.candidates

Good(f, v) ==
    /\ f = "directives" => v \subseteq DirectiveRows /\ IsFiniteSet(v)
    /\ f = "trust" => v.ok \in Nat /\ v.bad \in Nat
    /\ f = "curriculum" => v.seen \in Nat
    /\ f = "state" => v = [boots |-> v.boots, mode |-> v.mode] /\ v.boots \in Nat
    /\ f = "boots" =>
          /\ v \in Seq(Nat)
          /\ "state" \notin lost =>
                IsInjective(v) /\ \A i \in DOMAIN v : v[i] <= content["state"].boots
    /\ f = "fixes" => v \subseteq Made /\ IsFiniteSet(v)
    /\ f = "edges" =>
          /\ v \subseteq Ids \X Ids /\ IsFiniteSet(v)
          /\ "fixes" \notin lost => v \subseteq content["fixes"] \X content["fixes"]
    /\ f = "consensus" => v \in [Ids -> Rows] /\ IsFiniteSet(Uses(v))
    /\ f = "index" => v \in [Ids -> IndexRows] /\ \A id \in Ids : v[id] # "absent" => id \in packs
    /\ f = "code" => v \in Seq(Lines)
    /\ f = "run" => IsRun(v)
    /\ f = "profiles" =>
          v = [active |-> v.active, names |-> v.names] /\ v.names \subseteq Made /\ v.active \in v.names

Home(kind) ==
    IF kind \in {"register", "directive"} THEN "directives"
    ELSE IF kind \in {"add", "fix"} THEN "fixes"
    ELSE IF kind = "profile" THEN "profiles" ELSE "run"

\* There is such an item in what its file holds.
Has(kind, id, v) ==
    \/ kind \in {"register", "directive"} /\ \E r \in v : r.id = id
    \/ kind \in {"add", "fix"} /\ id \in v
    \/ kind = "patch" /\ \E r \in v.patches : r.id = id
    \/ kind = "candidates" /\ id \in v.candidates
    \/ kind = "fault" /\ id \in v.faults
    \/ kind = "profile" /\ id \in v.names

Known ==
    {f \in FactKinds \X Ids0 :
        IF f[1] = "pack" THEN f[2] \in packs
        ELSE Home(f[1]) \in lost \/ Has(f[1], f[2], content[Home(f[1])])}

\* The new items the steps of a command bring, each by one of them.
Items(t) ==
    {item \in NewKinds \X Ids : \E i \in DOMAIN t : Brings(t[i], item[1], item[2])}
Once(t) ==
    \A i, j \in DOMAIN t, kind \in NewKinds, id \in Ids :
        Brings(t[i], kind, id) /\ Brings(t[j], kind, id) => i = j

(***************************************************************************)
(* The inductive invariant, of the record r of each process.               *)
(***************************************************************************)
ProcIs(r) ==
    /\ r = [todo |-> r.todo, stage |-> r.stage, copy |-> r.copy, note |-> r.note,
            row |-> r.row, at |-> r.at, raced |-> r.raced]
    /\ r.todo \in Seq(AllSteps) /\ r.stage \in {"next", "loaded", "resolved", "open"}
    /\ r.note \in Nat /\ r.row \in Rows /\ r.at \in Nat \X Nat /\ r.raced \in BOOLEAN

Shapes ==
    /\ DOMAIN content = Files /\ content = [f \in Files |-> content[f]]
    /\ whole \in [Files -> BOOLEAN]
    /\ DOMAIN proc = Procs /\ proc = [p \in Procs |-> proc[p]]
    /\ \A p \in Procs : ProcIs(proc[p])
    /\ budget \in [commands : 0..MaxCommands, crashes : 0..MaxCrashes]
    /\ lost \subseteq Files
    /\ done \in [Files -> Nat]

Acting(r) == r.todo # <<>>
Count(v) == v.ok + v.bad

\* What the step that comes next was told.
HeadIsTold(r) ==
    Acting(r) =>
        LET s == Head(r.todo) IN
        /\ s.op = "similar" => r.note \in Ids0 /\ (r.note # 0 => <<"fix", r.note>> \in Known)
        /\ s.op = "noted" /\ s.subject = "trust" /\ "trust" \notin lost =>
              r.note <= Count(content["trust"])
        /\ s.op = "noted" /\ s.subject = "boot" /\ "boots" \notin lost =>
              r.note \in Range(content["boots"])
        /\ s.op = "upsert" /\ ~r.raced =>
              Count(r.row) = Count(content["consensus"][s.subject]) + 1

\* An update works on a good copy, which is the file as it is unless another
\* process has written it.
CopyIsGood(r) ==
    r.stage # "next" =>
        LET s == Head(r.todo)  c == r.copy[2] IN
        /\ Acting(r) /\ s.file \notin {"log", "pack"} /\ s.op \notin Reads
        /\ Good(s.file, c) /\ ~Refuses(s, c)
        /\ s.op = "similar" => r.note # 0 /\ <<r.note, s.subject>> \notin c
        /\ s.op = "add" /\ s.file = "edges" => <<s.subject, s.value>> \notin c
        /\ ~r.raced /\ s.file # "code" => c = content[s.file]

Sound(r) ==
    Supplied(r.todo, Known) /\ Chained(r.todo) /\ HeadIsTold(r) /\ CopyIsGood(r)

\* What a command is to bring is not there yet, and brought by no other.
ItemsAreNew(t) ==
    /\ Once(t)
    /\ \A item \in Items(t) :
          /\ item[2] \in Made
          /\ Home(item[1]) \in lost \/ ~Has(item[1], item[2], content[Home(item[1])])
NewItems ==
    /\ \A p \in Procs : ItemsAreNew(proc[p].todo)
    /\ \A p, q \in Procs : p # q => Items(proc[p].todo) \cap Items(proc[q].todo) = {}

\* The boots whose number is still to be listed.
Booting(r) == Acting(r) /\ Head(r.todo).op = "append"
Listed(r) == IF r.stage = "next" THEN <<>> ELSE r.copy[2]
BootsAreNumbered ==
    "state" \notin lost =>
        /\ \A p \in Procs : Booting(proc[p]) =>
              proc[p].note <= content["state"].boots /\ proc[p].note \notin Range(content["boots"])
        /\ \A p, q \in Procs : Booting(proc[p]) /\ Booting(proc[q]) =>
              /\ proc[p].note \notin Range(Listed(proc[q]))
              /\ q # p => proc[q].note # proc[p].note

LogIsTrue ==
    \A e \in log :
        /\ e[1] \in FactKinds => e \in Known
        /\ e[1] = "trust" => e[2] \in Nat /\ ("trust" \notin lost => e[2] <= Count(content["trust"]))
        /\ e[1] = "boot" /\ "boots" \notin lost => e[2] \in Range(content["boots"])

\* Rows have ids of their own.
RowsAreOne ==
    "directives" \notin lost => \A r, t \in content["directives"] : r.id = t.id => r = t

WorkInv ==
    /\ Shapes
    /\ \A f \in Files : Good(f, content[f])
    /\ \A p \in Procs : Sound(proc[p])
    /\ NewItems /\ BootsAreNumbered /\ LogIsTrue /\ RowsAreOne
    /\ UpdatesSurvive
-----------------------------------------------------------------------------
(* Commands.                                                               *)

(* The steps of a command that brings the item id, at most one of each of  *)
(* the kinds named.                                                        *)
Composed(t, id, facts, kinds) ==
    /\ t \in Seq(AllSteps) /\ Supplied(t, facts) /\ Chained(t)
    /\ t # <<>> => Teller(t[1]) = "none"
    /\ \A i \in DOMAIN t, kind \in NewKinds, x \in Ids :
          Brings(t[i], kind, x) =>
             /\ x = id /\ kind \in kinds
             /\ \A j \in DOMAIN t : j # i => ~Brings(t[j], kind, x)

(* The second part may ask for what the first gives.                       *)
LEMMA JoinedWith ==
    ASSUME NEW id, NEW facts, NEW given, NEW ka, NEW kb, ka \cap kb = {}, NEW a, NEW b,
           Composed(a, id, facts, ka), Composed(b, id, facts \cup given, kb),
           \A f \in given : \E i \in DOMAIN a : Gives(a[i], f[1], f[2])
    PROVE  Composed(a \o b, id, facts, ka \cup kb)
<1> DEFINE t == a \o b
           n == Len(a)
<1>1. /\ a \in Seq(AllSteps) /\ b \in Seq(AllSteps)
      /\ n \in Nat /\ DOMAIN a = 1..n /\ Len(b) \in Nat /\ DOMAIN b = 1..Len(b)
  BY LenProperties DEF Composed
<1>2. /\ t \in Seq(AllSteps) /\ DOMAIN t = 1..(n + Len(b))
      /\ \A i \in 1..(n + Len(b)) : t[i] = IF i <= n THEN a[i] ELSE b[i - n]
  <2>1. /\ t \in Seq(AllSteps) /\ Len(t) = Len(a) + Len(b)
        /\ \A i \in 1..(Len(a) + Len(b)) : t[i] = IF i <= Len(a) THEN a[i] ELSE b[i - Len(a)]
    BY <1>1, ConcatProperties
  <2> QED
    BY <2>1, LenProperties
<1>3. /\ \A i \in DOMAIN a : i \in DOMAIN t /\ t[i] = a[i]
      /\ \A i \in DOMAIN b : i + n \in DOMAIN t /\ t[i + n] = b[i]
      /\ \A i \in DOMAIN t : i \in DOMAIN a \/ (i - n \in DOMAIN b /\ t[i] = b[i - n])
      /\ DOMAIN a \subseteq Nat /\ DOMAIN b \subseteq Nat
  BY <1>1, <1>2
<1> HIDE DEF t
<1>4. Supplied(t, facts)
  <2> SUFFICES ASSUME NEW i \in DOMAIN t, NEW kind \in FactKinds, NEW x \in Ids0, Asks(t[i], kind, x),
                      <<kind, x>> \notin facts
               PROVE  \E j \in DOMAIN t : j < i /\ Gives(t[j], kind, x)
    BY DEF Supplied
  <2>1. CASE i \in DOMAIN a
    <3>1. PICK j \in DOMAIN a : j < i /\ Gives(a[j], kind, x)
      BY <2>1, <1>3 DEF Composed, Supplied
    <3> QED
      BY <3>1, <1>3
  <2>2. CASE i - n \in DOMAIN b /\ t[i] = b[i - n]
    <3>1. CASE <<kind, x>> \in given
      <4>1. PICK j \in DOMAIN a : Gives(a[j], kind, x)
        BY <3>1
      <4>2. j < i
        BY <2>2, <1>1, <1>2
      <4> QED
        BY <4>1, <4>2, <1>3
    <3>2. CASE <<kind, x>> \notin given
      <4>1. PICK j \in DOMAIN b : j < i - n /\ Gives(b[j], kind, x)
        BY <2>2, <3>2 DEF Composed, Supplied
      <4>2. j + n < i
        BY <4>1, <1>1, <1>2
      <4> QED
        BY <4>1, <4>2, <1>3
    <3> QED
      BY <3>1, <3>2
  <2> QED
    BY <2>1, <2>2, <1>3
<1>5. Chained(t)
  <2> SUFFICES ASSUME NEW i \in DOMAIN t, i > 1, Teller(t[i]) # "none"
               PROVE  /\ t[i - 1].op = Teller(t[i])
                      /\ t[i].op = "upsert" => t[i].subject = t[i - 1].subject
    BY DEF Chained
  <2>1. CASE i \in DOMAIN a
    <3>1. i - 1 \in DOMAIN a
      BY <2>1, <1>1
    <3> QED
      BY <2>1, <3>1, <1>3 DEF Composed, Chained
  <2>2. CASE i - n \in DOMAIN b /\ t[i] = b[i - n]
    <3>1. i - n # 1
      BY <2>2 DEF Composed
    <3>2. (i - n) - 1 \in DOMAIN b /\ i - n > 1 /\ i \in Int
      BY <3>1, <2>2, <1>1, <1>2
    <3>3. t[((i - n) - 1) + n] = b[(i - n) - 1]
      BY <3>2, <1>3
    <3>4. ((i - n) - 1) + n = i - 1
      BY <3>2, <1>1
    <3> QED
      BY <2>2, <3>2, <3>3, <3>4 DEF Composed, Chained
  <2> QED
    BY <2>1, <2>2, <1>3
<1>6. t # <<>> => Teller(t[1]) = "none"
  <2>1. CASE n >= 1
    BY <2>1, <1>1, <1>3 DEF Composed
  <2>2. CASE n = 0 /\ Len(b) >= 1
    <3>1. 1 \in DOMAIN b /\ 1 + n = 1
      BY <2>2, <1>1
    <3> QED
      BY <3>1, <1>3 DEF Composed
  <2>3. CASE n = 0 /\ Len(b) = 0
    BY <2>3, <1>1, <1>2, EmptySeq, LenProperties
  <2> QED
    BY <2>1, <2>2, <2>3, <1>1
<1>7. ASSUME NEW i \in DOMAIN t, NEW kind \in NewKinds, NEW x \in Ids, Brings(t[i], kind, x)
      PROVE  /\ x = id /\ kind \in ka \cup kb
             /\ \A j \in DOMAIN t : j # i => ~Brings(t[j], kind, x)
  <2>1. CASE i \in DOMAIN a
    <3>1. x = id /\ kind \in ka /\ \A j \in DOMAIN a : j # i => ~Brings(a[j], kind, x)
      BY <2>1, <1>7, <1>3 DEF Composed
    <3>2. \A j \in DOMAIN b : ~Brings(b[j], kind, x)
      BY <3>1 DEF Composed
    <3> QED
      BY <3>1, <3>2, <1>3
  <2>2. CASE i - n \in DOMAIN b /\ t[i] = b[i - n]
    <3>1. x = id /\ kind \in kb /\ \A j \in DOMAIN b : j # i - n => ~Brings(b[j], kind, x)
      BY <2>2, <1>7 DEF Composed
    <3>2. \A j \in DOMAIN a : ~Brings(a[j], kind, x)
      BY <3>1 DEF Composed
    <3>3. \A j \in DOMAIN t : j # i => j - n # i - n
      BY <1>1, <1>2
    <3> QED
      BY <3>1, <3>2, <3>3, <1>3
  <2> QED
    BY <2>1, <2>2, <1>3
<1> QED
  BY <1>2, <1>4, <1>5, <1>6, <1>7 DEF Composed, t

LEMMA Joined ==
    ASSUME NEW id, NEW facts, NEW ka, NEW kb, ka \cap kb = {}, NEW a, NEW b,
           Composed(a, id, facts, ka), Composed(b, id, facts, kb)
    PROVE  Composed(a \o b, id, facts, ka \cup kb)
<1>1. Composed(b, id, facts \cup {}, kb)
  OBVIOUS
<1> QED
  BY <1>1, JoinedWith
LEMMA EmbedFixIs ==
    ASSUME NEW id \in Ids0, NEW new, NEW facts
    PROVE  Composed(EmbedFix(id), new, facts, {})
<1> DEFINE t == EmbedFix(id)
<1>1. t \in Seq(AllSteps) /\ DOMAIN t = 1..6
  <2>1. \A i \in 1..6 : t[i] \in AllSteps
    BY DEF EmbedFix, Step, Event, AllSteps, FixSteps, LogSteps, StepOf, EventKinds, Ids0
  <2> QED
    BY <2>1 DEF EmbedFix
<1>2. Supplied(t, facts)
  BY <1>1 DEF EmbedFix, Step, Event, Supplied, Asks, Gives, FactKinds
<1>3. Chained(t) /\ Teller(t[1]) = "none"
  BY <1>1 DEF EmbedFix, Step, Event, Chained, Teller
<1>4. \A i \in DOMAIN t, kind \in NewKinds, x \in Ids : ~Brings(t[i], kind, x)
  BY <1>1 DEF EmbedFix, Step, Event, Brings, NewKinds
<1> QED
  BY <1>1, <1>2, <1>3, <1>4 DEF Composed
(* A command of a few steps is composed if they are.                       *)
LEMMA LedgerCommands ==
    ASSUME NEW id \in Ids, NEW facts
    PROVE  /\ \A other \in Ids0 : Composed(AddDirective(id, other), id, facts, {"register"})
           /\ \A x \in Ids0, status \in {"complete", "superseded"} :
                 Composed(EndDirective(x, status), id, facts, {})
           /\ \A mode \in {"primary", "fallback", "degraded"} :
                 Composed(Boot(mode), id, facts, {}) /\ Composed(Beat(mode), id, facts, {})
           /\ \A ok \in BOOLEAN : Composed(ToolOutcome(ok), id, facts, {})
           /\ Composed(ToolNotes, id, facts, {})
           /\ \A c \in Clusters \cup {"none"}, outcome \in {"success", "failure"} :
                 Composed(Lesson(c, outcome), id, facts, {})
           /\ \A activate \in BOOLEAN :
                 Composed(<<Step("profiles", "profile", id, activate)>>, id, facts, {"profile"})
           /\ \A x \in Ids0 : Composed(<<Step("profiles", "activate", x, 0)>>, id, facts, {})
<1> USE DEF Composed, Supplied, Chained, Asks, Gives, Teller, Brings, FactKinds, NewKinds, Step, Event, Noted
<1> USE DEF AllSteps, LedgerSteps, LogSteps, StepOf, EventKinds
<1>1. ASSUME NEW other \in Ids0 PROVE Composed(AddDirective(id, other), id, facts, {"register"})
  BY DEF AddDirective, Ids0
<1>2. ASSUME NEW x \in Ids0, NEW status \in {"complete", "superseded"}
      PROVE  Composed(EndDirective(x, status), id, facts, {})
  BY DEF EndDirective, Ids0
<1>3. ASSUME NEW mode \in {"primary", "fallback", "degraded"}
      PROVE  Composed(Boot(mode), id, facts, {}) /\ Composed(Beat(mode), id, facts, {})
  BY DEF Boot, Beat, Ids0
<1>4. ASSUME NEW ok \in BOOLEAN PROVE Composed(ToolOutcome(ok), id, facts, {})
  BY DEF ToolOutcome
<1>5. Composed(ToolNotes, id, facts, {})
  BY DEF ToolNotes
<1>6. ASSUME NEW c \in Clusters \cup {"none"}, NEW outcome \in {"success", "failure"}
      PROVE  Composed(Lesson(c, outcome), id, facts, {})
  BY DEF Lesson, Ids0
<1>7. ASSUME NEW activate \in BOOLEAN
      PROVE  Composed(<<Step("profiles", "profile", id, activate)>>, id, facts, {"profile"})
  OBVIOUS
<1>8. ASSUME NEW x \in Ids0 PROVE Composed(<<Step("profiles", "activate", x, 0)>>, id, facts, {})
  OBVIOUS
<1> HIDE DEF Composed
<1> QED
  BY <1>1, <1>2, <1>3, <1>4, <1>5, <1>6, <1>7, <1>8
LEMMA FixCommands ==
    ASSUME NEW id \in Ids, NEW facts
    PROVE  /\ \A x \in Ids : Composed(SyncFix(x, "live"), id, facts, {}) /\ Composed(RetireFix(x), id, facts, {})
           /\ \A x \in Ids, ok \in BOOLEAN : Composed(FixOutcome(x, ok), id, facts, {})
           /\ \A x, y \in Ids : <<"fix", x>> \in facts /\ <<"fix", y>> \in facts
                 => Composed(LinkFixes(x, y), id, facts, {})
           /\ \A embed \in BOOLEAN : Composed(RegisterFix(id, embed), id, facts, {"add"})
<1> DEFINE added == <<Step("fixes", "add", id, 0), Step("fixes", "nearest", id, 0),
                      Step("edges", "similar", id, 0), Event("fix", id)>>
<1>9. Composed(<<>>, id, facts, {})
  BY DEF Composed, Supplied, Chained
<1> USE DEF Composed, Supplied, Chained, Asks, Gives, Teller, Brings, FactKinds, NewKinds, Step, Event, Noted
<1> USE DEF AllSteps, FixSteps, LogSteps, StepOf, EventKinds
<1>1. ASSUME NEW x \in Ids PROVE Composed(SyncFix(x, "live"), id, facts, {}) /\ Composed(RetireFix(x), id, facts, {})
  BY DEF SyncFix, RetireFix, Ids0
<1>2. ASSUME NEW x \in Ids, NEW ok \in BOOLEAN PROVE Composed(FixOutcome(x, ok), id, facts, {})
  BY DEF FixOutcome
<1>3. ASSUME NEW x \in Ids, NEW y \in Ids, <<"fix", x>> \in facts, <<"fix", y>> \in facts
      PROVE  Composed(LinkFixes(x, y), id, facts, {})
  BY <1>3 DEF LinkFixes
<1>4. Composed(added, id, facts, {"add"})
  BY DEF Ids0
<1> HIDE DEF Composed, added
<1>5. ASSUME NEW embed \in BOOLEAN PROVE Composed(RegisterFix(id, embed), id, facts, {"add"})
  <2>1. Composed(EmbedFix(id), id, facts, {})
    BY EmbedFixIs DEF Ids0
  <2>2. RegisterFix(id, embed) = added \o (IF embed THEN EmbedFix(id) ELSE <<>>)
    BY DEF RegisterFix, added
  <2>3. {"add"} \cup {} = {"add"} /\ {"add"} \cap {} = {}
    OBVIOUS
  <2> DEFINE rest == IF embed THEN EmbedFix(id) ELSE <<>>
  <2>4. Composed(rest, id, facts, {})
    BY <2>1, <1>9
  <2> HIDE DEF rest
  <2>5. Composed(added \o rest, id, facts, {"add"} \cup {})
    BY ONLY <2>3, <2>4, <1>4, Joined
  <2> QED
    BY <2>2, <2>3, <2>5 DEF rest
<1> QED
  BY <1>1, <1>2, <1>3, <1>5

LEMMA RunCommands ==
    ASSUME NEW id \in Ids, NEW facts
    PROVE  /\ \A patch \in RunPatches : Composed(ApplyRunPatch(id, patch), id, facts, {"patch"})
           /\ Composed(InjectFault(id), id, facts, {"fault"})
           /\ Composed(GenerateCandidates(id), id, facts, {"candidates"})
           /\ Composed(ChooseBest, id, facts, {})
           /\ \A force \in BOOLEAN, c \in Clusters : Composed(PromoteRun(id, force, c), id, facts, {"add"})
           /\ \A patch \in RunPatches, how \in CycleEnds :
                 Composed(ExecuteCycle(id, patch, how), id, facts, {"patch"})
           /\ \A patch \in RunPatches : Composed(AdversarialCycle(id, patch), id, facts, {"patch", "fault"})
           /\ \A c \in Clusters : Composed(ScoreCandidates(c), id, facts, {})
           /\ \A patch \in RunPatches, how \in CycleEnds :
                 Composed(ExecuteBest(id, patch, how), id, facts, {"patch"})
<1> USE DEF Composed, Supplied, Chained, Asks, Gives, Teller, Brings, FactKinds, NewKinds, Step, Event, Noted
<1> USE DEF AllSteps, RunSteps, LogSteps, StepOf, EventKinds
<1>1. ASSUME NEW patch \in RunPatches PROVE Composed(ApplyRunPatch(id, patch), id, facts, {"patch"})
  BY DEF ApplyRunPatch, Ids0
<1>2. Composed(InjectFault(id), id, facts, {"fault"})
  BY DEF InjectFault, Ids0
<1>3. Composed(GenerateCandidates(id), id, facts, {"candidates"})
  BY DEF GenerateCandidates, Ids0
<1>4. Composed(ChooseBest, id, facts, {})
  BY DEF ChooseBest, Ids0
<1>5. ASSUME NEW force \in BOOLEAN, NEW c \in Clusters
      PROVE  Composed(PromoteRun(id, force, c), id, facts, {"add"})
  BY DEF PromoteRun
<1>6. ASSUME NEW patch \in RunPatches
      PROVE  Composed(<<Step("run", "patch", id, patch)>>, id, facts, {"patch"})
  OBVIOUS
<1>7. Composed(<<Step("run", "fault", id, 0)>>, id, facts, {"fault"})
  OBVIOUS
<1>8. Composed(<<Step("run", "chosen", 0, 0)>>, id, facts, {})
  OBVIOUS
<1>9. Composed(<<>>, id, facts, {}) /\ Composed(<<Step("run", "read", 0, 0)>>, id, facts, {})
  OBVIOUS
<1>10. ASSUME NEW forced \in BOOLEAN
       PROVE  Composed(<<Step("run", "approve", forced, 0)>>, id, facts, {})
  OBVIOUS
<1>11. Composed(<<Event("patch", id)>>, id, facts \cup {<<"patch", id>>}, {})
  BY DEF Ids0
<1>12. Composed(<<Step("run", "scores", 0, 0), Event("scores", 0)>>, id, facts, {})
  BY DEF Ids0
<1> HIDE DEF Composed, Step, Event
<1>13. ASSUME NEW patch \in RunPatches, NEW how
       PROVE  /\ Composed(CycleSteps(id, patch, how), id, facts, {"patch"})
              /\ \E i \in DOMAIN CycleSteps(id, patch, how) :
                    Gives(CycleSteps(id, patch, how)[i], "patch", id)
  <2> DEFINE first == <<Step("run", "patch", id, patch)>>
             read == IF how = "unvalidated" THEN <<>> ELSE <<Step("run", "read", 0, 0)>>
             court == IF how \in {"promoted", "forced"}
                      THEN <<Step("run", "approve", how = "forced", 0)>> ELSE <<>>
  <2>1. Composed(read, id, facts, {})
    BY <1>9
  <2>2. Composed(court, id, facts, {})
    <3>1. PICK forced \in BOOLEAN : forced = (how = "forced")
      OBVIOUS
    <3> QED
      BY <1>9, <1>10, <3>1
  <2>3. Composed(first, id, facts, {"patch"})
    BY <1>6
  <2>4. first[1] = Step("run", "patch", id, patch) /\ 1 \in 1..Len(first)
    OBVIOUS
  <2> HIDE DEF first, read, court
  <2>5. Composed(first \o read, id, facts, {"patch"} \cup {})
    BY ONLY <2>1, <2>3, Joined
  <2>6. Composed((first \o read) \o court, id, facts, ({"patch"} \cup {}) \cup {})
    BY ONLY <2>2, <2>5, Joined
  <2>7. CycleSteps(id, patch, how) = (first \o read) \o court
    BY DEF CycleSteps, first, read, court
  <2>8. ({"patch"} \cup {}) \cup {} = {"patch"}
    OBVIOUS
  <2>9. /\ 1 \in DOMAIN ((first \o read) \o court)
        /\ ((first \o read) \o court)[1] = first[1]
    <3>1. first \in Seq(AllSteps) /\ read \in Seq(AllSteps) /\ court \in Seq(AllSteps)
      BY <2>1, <2>2, <2>3 DEF Composed
    <3>2. /\ first \o read \in Seq(AllSteps) /\ Len(first \o read) = Len(first) + Len(read)
          /\ \A i \in 1..(Len(first) + Len(read)) :
                (first \o read)[i] = IF i <= Len(first) THEN first[i] ELSE read[i - Len(first)]
      BY ONLY <3>1, ConcatProperties
    <3> DEFINE both == first \o read
    <3> HIDE DEF both
    <3>3. both \in Seq(AllSteps)
      BY <3>2 DEF both
    <3>4. /\ both \o court \in Seq(AllSteps) /\ Len(both \o court) = Len(both) + Len(court)
          /\ \A i \in 1..(Len(both) + Len(court)) :
                (both \o court)[i] = IF i <= Len(both) THEN both[i] ELSE court[i - Len(both)]
      BY ONLY <3>1, <3>3, ConcatProperties
    <3>5. Len(first) \in Nat /\ Len(read) \in Nat /\ Len(court) \in Nat
      BY ONLY <3>1, LenProperties
    <3>6. Len(first) >= 1
      BY <2>4, <3>5
    <3>7. both[1] = first[1] /\ Len(both) >= 1 /\ Len(both) \in Nat
      BY <3>2, <3>5, <3>6 DEF both
    <3>8. (both \o court)[1] = first[1] /\ Len(both \o court) >= 1 /\ Len(both \o court) \in Nat
      BY ONLY <3>4, <3>5, <3>7
    <3>9. DOMAIN (both \o court) = 1..Len(both \o court)
      BY ONLY <3>4, LenProperties
    <3>10. 1 \in 1..Len(both \o court)
      BY ONLY <3>8
    <3> QED
      BY <3>8, <3>9, <3>10 DEF both
  <2>10. Gives(Step("run", "patch", id, patch), "patch", id)
    BY DEF Gives, Step
  <2> QED
    BY <2>4, <2>6, <2>7, <2>8, <2>9, <2>10
<1>14. ASSUME NEW patch \in RunPatches, NEW how
       PROVE  /\ Composed(ExecuteCycle(id, patch, how), id, facts, {"patch"})
              /\ Composed(CycleSteps(id, patch, how) \o <<Event("patch", id)>>, id, facts, {"patch"})
  <2> DEFINE steps == CycleSteps(id, patch, how)
  <2>1. Composed(steps, id, facts, {"patch"}) /\ \E i \in DOMAIN steps : Gives(steps[i], "patch", id)
    BY <1>13
  <2> HIDE DEF steps
  <2>2. \A f \in {<<"patch", id>>} : \E i \in DOMAIN steps : Gives(steps[i], f[1], f[2])
    BY <2>1
  <2>3. {"patch"} \cap {} = {} /\ {"patch"} \cup {} = {"patch"}
    OBVIOUS
  <2> DEFINE told == <<Event("patch", id)>>
             given == {<<"patch", id>>}
  <2>4. Composed(told, id, facts \cup given, {}) /\ \A f \in given : \E i \in DOMAIN steps : Gives(steps[i], f[1], f[2])
    BY <2>2, <1>11
  <2> HIDE DEF told, given
  <2>5. Composed(steps \o told, id, facts, {"patch"} \cup {})
    BY ONLY <2>1, <2>3, <2>4, JoinedWith
  <2> QED
    BY <2>3, <2>5 DEF ExecuteCycle, steps, told
<1>15. ASSUME NEW patch \in RunPatches
       PROVE  Composed(AdversarialCycle(id, patch), id, facts, {"patch", "fault"})
  <2> DEFINE fault == <<Step("run", "fault", id, 0)>>
             steps == CycleSteps(id, patch, "validated")
             told == <<Event("patch", id)>>
  <2>1. Composed(fault, id, facts, {"fault"}) /\ Composed(steps \o told, id, facts, {"patch"})
    BY <1>7, <1>14
  <2>2. Composed(steps, id, facts, {"patch"})
    BY <1>13
  <2>3. fault \in Seq(AllSteps) /\ steps \in Seq(AllSteps) /\ told \in Seq(AllSteps)
    BY <2>1, <2>2, <1>11 DEF Composed
  <2>4. AdversarialCycle(id, patch) = (fault \o steps) \o told
    BY DEF AdversarialCycle
  <2> HIDE DEF fault, steps, told
  <2>5. (fault \o steps) \o told = fault \o (steps \o told)
    BY ONLY <2>3, ConcatAssociative
  <2> DEFINE rest == steps \o told
             mine == {"fault"}
             its == {"patch"}
  <2>6. mine \cap its = {} /\ mine \cup its = {"patch", "fault"}
    OBVIOUS
  <2>7. Composed(fault, id, facts, mine) /\ Composed(rest, id, facts, its)
    BY <2>1
  <2> HIDE DEF rest, mine, its
  <2>8. Composed(fault \o rest, id, facts, mine \cup its)
    BY ONLY <2>6, <2>7, Joined
  <2> QED
    BY <2>4, <2>5, <2>6, <2>8 DEF rest
<1>16. ASSUME NEW c \in Clusters PROVE Composed(ScoreCandidates(c), id, facts, {})
  <2> DEFINE first == <<Step("run", "scores", 0, 0), Event("scores", 0)>>
  <2>1. Composed(first, id, facts, {}) /\ Composed(Lesson(c, "failure"), id, facts, {})
    BY <1>12, LedgerCommands
  <2> HIDE DEF first
  <2>2. Composed(first \o Lesson(c, "failure"), id, facts, {} \cup {})
    BY ONLY <2>1, Joined
  <2> QED
    BY <2>2 DEF ScoreCandidates, first
<1>17. ASSUME NEW patch \in RunPatches, NEW how
       PROVE  Composed(ExecuteBest(id, patch, how), id, facts, {"patch"})
  <2> DEFINE chosen == <<Step("run", "chosen", 0, 0)>>
             cycle == ExecuteCycle(id, patch, how)
             its == {"patch"}
  <2>1. Composed(chosen, id, facts, {}) /\ Composed(cycle, id, facts, its)
    BY <1>8, <1>14
  <2>2. {} \cap its = {} /\ ({} \cup {}) \cup its = {"patch"}
    OBVIOUS
  <2>3. ExecuteBest(id, patch, how) = (ChooseBest \o chosen) \o cycle
    BY DEF ExecuteBest
  <2> HIDE DEF chosen, cycle, its
  <2>4. Composed(ChooseBest \o chosen, id, facts, {} \cup {})
    BY ONLY <1>4, <2>1, Joined
  <2>5. ({} \cup {}) \cap its = {}
    OBVIOUS
  <2>6. Composed((ChooseBest \o chosen) \o cycle, id, facts, ({} \cup {}) \cup its)
    BY ONLY <2>1, <2>4, <2>5, Joined
  <2> QED
    BY <2>2, <2>3, <2>6
<1> QED
  BY <1>1, <1>2, <1>3, <1>4, <1>5, <1>14, <1>15, <1>16, <1>17

LEMMA VerdictCommands ==
    ASSUME NEW id \in Ids, NEW facts, NEW c \in Clusters
    PROVE  /\ \A passed \in BOOLEAN : Composed(ValidateRun(id, passed, c), id, facts, {"add"})
           /\ \A approved \in BOOLEAN : Composed(AfterCourt(approved, id, c), id, facts, {"add"})
<1> DEFINE fix == RegisterFix(id, TRUE)
           sync == SyncFix(id, "live")
           new == {"add"}
           read == <<Step("run", "read", 0, 0), Event("validation", 0)>>
           told == <<Event("promotion", 0)>>
<1>1. Composed(fix, id, facts, new) /\ Composed(sync, id, facts, {})
  BY FixCommands
<1>2. \A ok \in BOOLEAN : Composed(ToolOutcome(ok), id, facts, {})
  BY LedgerCommands
<1>3. \A d \in Clusters \cup {"none"}, outcome \in {"success", "failure"} :
         Composed(Lesson(d, outcome), id, facts, {})
  BY LedgerCommands
<1>4. Composed(read, id, facts, {}) /\ Composed(told, id, facts, {}) /\ Composed(<<>>, id, facts, {})
  BY DEF Composed, Supplied, Chained, Asks, Gives, Teller, Brings, FactKinds, NewKinds, Step, Event,
         AllSteps, RunSteps, LogSteps, StepOf, EventKinds, Ids0
<1>5. ASSUME NEW a, NEW b, NEW k \in {new, {}}, NEW l \in {new, {}}, k = {} \/ l = {},
             Composed(a, id, facts, k), Composed(b, id, facts, l)
      PROVE  Composed(a \o b, id, facts, k \cup l)
  BY <1>5, Joined
<1>6. new \cup {} = new /\ {} \cup new = new /\ {} \cup {} = {}
  OBVIOUS
<1> HIDE DEF fix, sync, new, read, told
<1>7. ASSUME NEW passed \in BOOLEAN PROVE Composed(ValidateRun(id, passed, c), id, facts, new)
  <2> DEFINE lesson == Lesson(IF passed THEN "none" ELSE c, IF passed THEN "success" ELSE "failure")
             rest == IF passed THEN <<>> ELSE fix \o sync
             ks == IF passed THEN {} ELSE new
  <2>1. Composed(ToolOutcome(passed), id, facts, {}) /\ Composed(lesson, id, facts, {})
    BY <1>2, <1>3
  <2>2. Composed(fix \o sync, id, facts, new)
    BY <1>1, <1>5, <1>6
  <2>3. Composed(rest, id, facts, ks) /\ ks \in {new, {}}
    BY <2>2, <1>4
  <2>4. ValidateRun(id, passed, c) = ((read \o ToolOutcome(passed)) \o lesson) \o rest
    BY DEF ValidateRun, fix, sync, read
  <2> HIDE DEF lesson, rest
  <2>5. Composed(read \o ToolOutcome(passed), id, facts, {})
    BY <2>1, <1>4, <1>5, <1>6
  <2>6. Composed((read \o ToolOutcome(passed)) \o lesson, id, facts, {})
    BY <2>1, <2>5, <1>5, <1>6
  <2>7. Composed(((read \o ToolOutcome(passed)) \o lesson) \o rest, id, facts, {} \cup ks)
    BY <2>3, <2>6, <1>5
  <2>8. {} \cup ks \subseteq new
    OBVIOUS
  <2> QED
    BY <2>4, <2>7, <2>8 DEF Composed
<1>8. Composed(AfterCourt(TRUE, id, c), id, facts, new)
  <2>1. Composed(ToolOutcome(TRUE), id, facts, {}) /\ Composed(Lesson("none", "success"), id, facts, {})
    BY <1>2, <1>3
  <2>2. AfterCourt(TRUE, id, c) = (told \o ToolOutcome(TRUE)) \o Lesson("none", "success")
    BY DEF AfterCourt, told
  <2>3. Composed(told \o ToolOutcome(TRUE), id, facts, {})
    BY <2>1, <1>4, <1>5, <1>6
  <2>4. Composed((told \o ToolOutcome(TRUE)) \o Lesson("none", "success"), id, facts, {})
    BY <2>1, <2>3, <1>5, <1>6
  <2> QED
    BY <2>2, <2>4 DEF Composed
<1>9. Composed(AfterCourt(FALSE, id, c), id, facts, new)
  <2> DEFINE lesson == Lesson(c, "failure")
  <2>1. Composed(ToolOutcome(FALSE), id, facts, {}) /\ Composed(lesson, id, facts, {})
    BY <1>2, <1>3
  <2>2. AfterCourt(FALSE, id, c) = (((fix \o ToolOutcome(FALSE)) \o lesson) \o sync) \o told
    BY DEF AfterCourt, told, fix, sync
  <2> HIDE DEF lesson
  <2>3. Composed(fix \o ToolOutcome(FALSE), id, facts, new)
    BY <2>1, <1>1, <1>5, <1>6
  <2>4. Composed((fix \o ToolOutcome(FALSE)) \o lesson, id, facts, new)
    BY <2>1, <2>3, <1>5, <1>6
  <2>5. Composed(((fix \o ToolOutcome(FALSE)) \o lesson) \o sync, id, facts, new)
    BY <2>4, <1>1, <1>5, <1>6
  <2>6. Composed((((fix \o ToolOutcome(FALSE)) \o lesson) \o sync) \o told, id, facts, new)
    BY <2>5, <1>4, <1>5, <1>6
  <2> QED
    BY <2>2, <2>6
<1> QED
  BY <1>7, <1>8, <1>9 DEF new

LEMMA ShortTexts ==
    ASSUME NEW L, NEW a \in L, NEW b \in L
    PROVE  <<>> \in Seq(L) /\ <<a>> \in Seq(L) /\ <<a, b>> \in Seq(L)
OBVIOUS

LEMMA CodeCommands ==
    ASSUME NEW id \in Ids, NEW facts, NEW hash \in SUBSET Seq(Lines)
    PROVE  /\ \A range \in Ranges, text \in Texts("") : Composed(PatchRange(range, text, hash), id, facts, {})
           /\ \A symbol \in Symbols : \A text \in Texts(symbol) :
                 Composed(PatchSymbol(symbol, text, hash), id, facts, {})
<1>1. ASSUME NEW symbol \in Symbols \cup {""}, NEW text \in Texts(symbol) PROVE text \in Seq(Lines)
  <2>1. [symbol |-> symbol, text |-> "new"] \in Lines /\ [symbol |-> symbol, text |-> "more"] \in Lines
    BY DEF Lines
  <2> DEFINE a == [symbol |-> symbol, text |-> "new"]
             b == [symbol |-> symbol, text |-> "more"]
  <2>2. text \in {<<>>, <<a>>, <<a, b>>}
    BY DEF Texts
  <2> HIDE DEF a, b
  <2>3. a \in Lines /\ b \in Lines
    BY <2>1 DEF a, b
  <2>4. <<>> \in Seq(Lines) /\ <<a>> \in Seq(Lines) /\ <<a, b>> \in Seq(Lines)
    BY ONLY <2>3, ShortTexts
  <2> QED
    BY <2>2, <2>4
<1>2. ASSUME NEW op \in {"range", "symbol"}, NEW what \in LineRanges \cup SymbolTexts,
             op = "range" => what \in LineRanges, op = "symbol" => what \in SymbolTexts
      PROVE  Composed(<<Event("proposal", 0), Step("code", op, what, hash), Event("receipt", 0)>>, id, facts, {})
  <2> DEFINE s == Step("code", op, what, hash)
             a == Event("proposal", 0)
             b == Event("receipt", 0)
  <2>1. a \in AllSteps /\ b \in AllSteps
    BY DEF AllSteps, LogSteps, StepOf, EventKinds, Ids0, Step, Event
  <2>2. s \in AllSteps
    BY <1>2 DEF AllSteps, CodeSteps, StepOf, Step
  <2>3. \A kind, x : ~Brings(a, kind, x) /\ ~Brings(b, kind, x) /\ ~Brings(s, kind, x)
    BY DEF Brings, Step, Event
  <2>4. \A kind \in FactKinds : \A x : ~Asks(a, kind, x) /\ ~Asks(b, kind, x) /\ ~Asks(s, kind, x)
    BY DEF Asks, Step, Event, FactKinds
  <2>5. Teller(a) = "none" /\ Teller(b) = "none" /\ Teller(s) = "none"
    BY DEF Teller, Step, Event
  <2> HIDE DEF a, b, s
  <2> DEFINE t == <<a, s, b>>
  <2>6. t \in Seq(AllSteps) /\ \A i \in DOMAIN t : t[i] \in {a, s, b}
    BY <2>1, <2>2
  <2>7. t[1] = a
    OBVIOUS
  <2> HIDE DEF t
  <2>8. Supplied(t, facts) /\ Chained(t) /\ (t # <<>> => Teller(t[1]) = "none")
    BY <2>4, <2>5, <2>6, <2>7 DEF Supplied, Chained
  <2> QED
    BY <2>3, <2>6, <2>8 DEF Composed, t, a, b, s
<1>3. ASSUME NEW range \in Ranges, NEW text \in Texts("")
      PROVE  Composed(PatchRange(range, text, hash), id, facts, {})
  <2>1. text \in Seq(Lines) /\ range[1] \in Nat \ {0} /\ range[2] \in Nat
    BY <1>1, WorkspaceConstants
  <2> DEFINE what == [lo |-> range[1], hi |-> range[2], text |-> text]
  <2>2. what \in LineRanges
    BY <2>1 DEF LineRanges
  <2> HIDE DEF what
  <2> QED
    BY <2>2, <1>2 DEF PatchRange, what
<1>4. ASSUME NEW symbol \in Symbols, NEW text \in Texts(symbol)
      PROVE  Composed(PatchSymbol(symbol, text, hash), id, facts, {})
  <2> DEFINE what == [symbol |-> symbol, text |-> text]
  <2>1. what \in SymbolTexts
    BY <1>1 DEF SymbolTexts
  <2> HIDE DEF what
  <2> QED
    BY <2>1, <1>2 DEF PatchSymbol, what
<1> QED
  BY <1>3, <1>4
-----------------------------------------------------------------------------
(* What a step leaves in place.                                            *)

\* Files that are not lost keep what they have.
Grown ==
    /\ packs \subseteq packs' /\ lost \subseteq lost' /\ Made \subseteq Made'
    /\ Known \subseteq Known'
    /\ content["state"].boots \in Nat /\ content'["state"].boots \in Nat
    /\ Count(content["trust"]) \in Nat /\ Count(content'["trust"]) \in Nat
    /\ "state" \notin lost' => content["state"].boots <= content'["state"].boots
    /\ "trust" \notin lost' => Count(content["trust"]) <= Count(content'["trust"])
    /\ "fixes" \notin lost' => content["fixes"] \subseteq content'["fixes"]
    /\ "boots" \notin lost' => Range(content["boots"]) \subseteq Range(content'["boots"])

LEMMA GoodGrows ==
    ASSUME Grown, NEW f, NEW v, Good(f, v)
    PROVE  Good(f, v)'
<1> USE DEF Good, Grown
<1>1. CASE f = "directives"
  BY <1>1 DEF DirectiveRows
<1>2. CASE f = "boots"
  <2>1. ASSUME "state" \notin lost' PROVE IsInjective(v) /\ \A i \in DOMAIN v : v[i] <= content'["state"].boots
    <3>1. IsInjective(v) /\ \A i \in DOMAIN v : v[i] <= content["state"].boots /\ v[i] \in Nat
      BY <1>2, <2>1
    <3>2. PICK m \in Nat : m = content["state"].boots
      OBVIOUS
    <3>3. PICK n \in Nat : n = content'["state"].boots
      OBVIOUS
    <3>4. m <= n
      BY <2>1, <3>2, <3>3
    <3> QED
      BY ONLY <3>1, <3>2, <3>3, <3>4
  <2> QED
    BY <1>2, <2>1
<1>3. CASE f = "run"
  BY <1>3 DEF IsRun
<1>4. CASE f = "edges"
  BY <1>4
<1>5. CASE f = "index"
  BY <1>5
<1>6. CASE f \in {"fixes", "profiles"}
  BY <1>6
<1>7. CASE f \notin {"directives", "boots", "run", "edges", "index", "fixes", "profiles"}
  BY <1>7
<1> QED
  BY <1>1, <1>2, <1>3, <1>4, <1>5, <1>6, <1>7

LEMMA Tails ==
    ASSUME NEW t \in Seq(AllSteps), t # <<>>
    PROVE  /\ Tail(t) \in Seq(AllSteps) /\ Head(t) = t[1] /\ Head(t) \in AllSteps
           /\ 1 \in DOMAIN t /\ DOMAIN t \subseteq Nat \ {0} /\ DOMAIN Tail(t) \subseteq Nat \ {0}
           /\ \A i \in DOMAIN Tail(t) : i + 1 \in DOMAIN t /\ Tail(t)[i] = t[i + 1]
           /\ \A i \in DOMAIN t : i # 1 => i - 1 \in DOMAIN Tail(t)
<1>1. Len(t) \in Nat /\ DOMAIN t = 1..Len(t) /\ Len(t) # 0
  BY LenProperties
<1>2. /\ Tail(t) \in Seq(AllSteps) /\ Len(Tail(t)) = Len(t) - 1
      /\ \A i \in 1..(Len(t) - 1) : Tail(t)[i] = t[i + 1]
  OBVIOUS
<1>3. DOMAIN Tail(t) = 1..(Len(t) - 1)
  BY <1>2, LenProperties
<1>4. Head(t) = t[1]
  BY DEF Head
<1>5. t[1] \in AllSteps
  BY <1>1, ElementOfSeq
<1> QED
  BY <1>1, <1>2, <1>3, <1>4, <1>5

(* The rest of a command, when its first step has given its facts.         *)
LEMMA RestIsSound ==
    ASSUME NEW t \in Seq(AllSteps), t # <<>>, NEW facts, NEW given, facts \subseteq given,
           Supplied(t, facts), Chained(t), Once(t),
           \A kind \in FactKinds, id \in Ids0 : Gives(Head(t), kind, id) => <<kind, id>> \in given
    PROVE  /\ Tail(t) \in Seq(AllSteps) /\ Supplied(Tail(t), given) /\ Chained(Tail(t)) /\ Once(Tail(t))
           /\ Items(Tail(t)) \subseteq Items(t)
           /\ \A item \in Items(Tail(t)) : ~Brings(Head(t), item[1], item[2])
           /\ Tail(t) # <<>> =>
                 LET s == Head(Tail(t)) IN
                 Teller(s) # "none" =>
                    Head(t).op = Teller(s) /\ (s.op = "upsert" => s.subject = Head(t).subject)
<1> DEFINE u == Tail(t)
<1>1. /\ u \in Seq(AllSteps) /\ Head(t) = t[1] /\ 1 \in DOMAIN t
      /\ DOMAIN t \subseteq Nat \ {0} /\ DOMAIN u \subseteq Nat \ {0}
      /\ \A i \in DOMAIN u : i + 1 \in DOMAIN t /\ u[i] = t[i + 1]
      /\ \A i \in DOMAIN t : i # 1 => i - 1 \in DOMAIN u
  BY Tails
<1> HIDE DEF u
<1>2. Supplied(u, given)
  <2> SUFFICES ASSUME NEW i \in DOMAIN u, NEW kind \in FactKinds, NEW id \in Ids0,
                      Asks(u[i], kind, id), <<kind, id>> \notin given
               PROVE  \E j \in DOMAIN u : j < i /\ Gives(u[j], kind, id)
    BY DEF Supplied
  <2>1. PICK j \in DOMAIN t : j < i + 1 /\ Gives(t[j], kind, id)
    BY <1>1 DEF Supplied
  <2>2. j # 1
    BY <2>1, <1>1
  <2>3. j - 1 \in DOMAIN u /\ u[j - 1] = t[(j - 1) + 1] /\ j \in Nat /\ i \in Nat
    BY <2>2, <1>1
  <2>4. (j - 1) + 1 = j /\ j - 1 < i
    BY <2>1, <2>3
  <2> QED
    BY <2>1, <2>3, <2>4
<1>3. Chained(u)
  <2> SUFFICES ASSUME NEW i \in DOMAIN u, i > 1, Teller(u[i]) # "none"
               PROVE  /\ u[i - 1].op = Teller(u[i])
                      /\ u[i].op = "upsert" => u[i].subject = u[i - 1].subject
    BY DEF Chained
  <2>1. i \in Nat /\ i + 1 \in DOMAIN t /\ i + 1 > 1 /\ (i + 1) - 1 = i /\ (i - 1) + 1 = i
    BY <1>1
  <2>2. i \in DOMAIN t /\ i # 1
    <3>1. u \in Seq(AllSteps) /\ t \in Seq(AllSteps)
      BY <1>1
    <3> QED
      BY <2>1, <3>1, LenProperties
  <2>3. i - 1 \in DOMAIN u
    BY <2>2, <1>1
  <2>4. u[i] = t[i + 1] /\ u[i - 1] = t[i]
    BY <2>1, <2>3, <1>1
  <2> QED
    BY <2>1, <2>4 DEF Chained
<1>4. Once(u)
  <2> SUFFICES ASSUME NEW i \in DOMAIN u, NEW j \in DOMAIN u, NEW kind \in NewKinds, NEW id \in Ids,
                      Brings(u[i], kind, id), Brings(u[j], kind, id)
               PROVE  i = j
    BY DEF Once
  <2>1. i + 1 = j + 1
    BY <1>1 DEF Once
  <2> QED
    BY <2>1, <1>1
<1>5. ASSUME NEW item \in Items(u) PROVE item \in Items(t) /\ ~Brings(t[1], item[1], item[2])
  <2>1. PICK i \in DOMAIN u : Brings(u[i], item[1], item[2])
    BY DEF Items
  <2>2. item[1] \in NewKinds /\ item[2] \in Ids /\ item \in NewKinds \X Ids
    BY DEF Items
  <2>3. i + 1 # 1 /\ i + 1 \in DOMAIN t /\ u[i] = t[i + 1]
    BY <1>1
  <2> QED
    BY <2>1, <2>2, <2>3, <1>1 DEF Once, Items
<1>6. ASSUME u # <<>>
      PROVE  LET s == Head(u) IN
             Teller(s) # "none" => t[1].op = Teller(s) /\ (s.op = "upsert" => s.subject = t[1].subject)
  <2>1. Head(u) = u[1] /\ 1 \in DOMAIN u
    BY <1>1, <1>6, Tails
  <2>2. u[1] = t[2] /\ 2 \in DOMAIN t
    <3>1. 1 + 1 = 2
      OBVIOUS
    <3> QED
      BY <2>1, <3>1, <1>1
  <2>3. 2 > 1 /\ 2 - 1 = 1
    OBVIOUS
  <2>4. Teller(t[2]) # "none" =>
           t[1].op = Teller(t[2]) /\ (t[2].op = "upsert" => t[2].subject = t[1].subject)
    BY <2>2, <2>3 DEF Chained
  <2> QED
    BY <2>1, <2>2, <2>4
<1> QED
  BY <1>1, <1>2, <1>3, <1>4, <1>5, <1>6 DEF u

(* The items of a command that is given.                                   *)
LEMMA ComposedItems ==
    ASSUME NEW t, NEW id, NEW facts, NEW kinds, Composed(t, id, facts, kinds)
    PROVE  Once(t) /\ \A item \in Items(t) : item[1] \in kinds /\ item[2] = id
<1>1. Once(t)
  BY DEF Once, Composed
<1>2. ASSUME NEW item \in Items(t) PROVE item[1] \in kinds /\ item[2] = id
  <2>1. PICK i \in DOMAIN t : Brings(t[i], item[1], item[2])
    BY DEF Items
  <2>2. item[1] \in NewKinds /\ item[2] \in Ids
    BY DEF Items
  <2> QED
    BY <2>1, <2>2 DEF Composed
<1> QED
  BY <1>1, <1>2

(* The file and the subject of some steps.                                 *)
LEMMA StepForms ==
    ASSUME NEW s \in AllSteps
    PROVE  /\ s.op = "upsert" => s.file = "consensus" /\ s.subject \in Ids
           /\ s.op = "append" => s.file = "boots"
           /\ s.op \in {"event", "noted"} => s.file = "log"
           /\ s.op = "similar" => s.file = "edges" /\ s.subject \in Ids
           /\ s.file = "boots" => s.op = "append"
           /\ s.file = "log" => s.op \in {"event", "noted"}
           /\ s.file = "pack" => s.op = "pack" /\ s.subject \in Ids0
           /\ s.op = "pack" => s.file = "pack"
           /\ s.file \in Files \cup {"log", "pack"}
           /\ s.op = "event" => s.subject \in EventKinds /\ s.value \in Ids0
           /\ s.op = "noted" => s.subject \in {"boot", "trust"}
           /\ s.op = "court" => s.file = "run" /\ s.value.id \in Ids /\ s.value.cluster \in Clusters
           /\ s.op = "nearest" => s.file = "fixes" /\ s.subject \in Ids0
           /\ s.op = "score" => s.file = "consensus" /\ s.subject \in Ids /\ s.value \in BOOLEAN
           /\ s.op = "best" => s.file = "run"
<1> USE DEF StepOf
<1>1. CASE s \in LogSteps
  BY <1>1 DEF LogSteps, EventKinds
<1>2. CASE s \in LedgerSteps
  BY <1>2 DEF LedgerSteps, Files
<1>3. CASE s \in FixSteps
  BY <1>3 DEF FixSteps, Files
<1>4. CASE s \in RunSteps
  BY <1>4 DEF RunSteps, Files
<1>5. CASE s \in CodeSteps
  BY <1>5 DEF CodeSteps, Files
<1> QED
  BY <1>1, <1>2, <1>3, <1>4, <1>5 DEF AllSteps

(* Processes that do not move stay sound when the files only grow, and     *)
(* those that hold a copy of the file that is written are marked.          *)
LEMMA OtherIsSound ==
    ASSUME Grown, NEW r, ProcIs(r), Sound(r), NEW q, q = r \/ q = [r EXCEPT !.raced = TRUE],
           (/\ Acting(r) /\ ~q.raced /\ Head(r.todo).file # "code"
            /\ r.stage # "next" \/ Head(r.todo).op = "upsert")
              => content'[Head(r.todo).file] = content[Head(r.todo).file]
    PROVE  Sound(q)'
<1>1. /\ q.todo = r.todo /\ q.stage = r.stage /\ q.copy = r.copy /\ q.note = r.note /\ q.row = r.row
      /\ (~q.raced => ~r.raced)
  BY DEF ProcIs
<1> DEFINE t == r.todo
           s == Head(r.todo)
           c == r.copy[2]
<1>2. Supplied(t, Known) /\ Chained(t) /\ Known \subseteq Known'
  BY DEF Sound, Grown
<1>3. Supplied(t, Known')
  BY <1>2 DEF Supplied
<1>4. HeadIsTold(q)'
  <2> SUFFICES ASSUME t # <<>> PROVE HeadIsTold(q)'
    BY <1>1 DEF HeadIsTold, Acting
  <2>1. s \in AllSteps /\ r.note \in Nat
    BY Tails DEF ProcIs
  <2>2. /\ s.op = "similar" => r.note \in Ids0 /\ (r.note # 0 => <<"fix", r.note>> \in Known)
        /\ s.op = "noted" /\ s.subject = "trust" /\ "trust" \notin lost => r.note <= Count(content["trust"])
        /\ s.op = "noted" /\ s.subject = "boot" /\ "boots" \notin lost => r.note \in Range(content["boots"])
        /\ s.op = "upsert" /\ ~r.raced =>
              Count(r.row) = Count(content["consensus"][s.subject]) + 1
    BY DEF Sound, HeadIsTold, Acting
  <2>3. s.op = "similar" => q.note \in Ids0 /\ (q.note # 0 => <<"fix", q.note>> \in Known')
    BY <2>2, <1>1, <1>2
  <2>4. s.op = "noted" /\ s.subject = "trust" /\ "trust" \notin lost' => q.note <= Count(content'["trust"])
    <3>1. PICK m \in Nat : m = Count(content["trust"])
      BY DEF Grown
    <3>2. PICK n \in Nat : n = Count(content'["trust"])
      BY DEF Grown
    <3> QED
      BY <3>1, <3>2, <2>1, <2>2, <1>1 DEF Grown
  <2>5. s.op = "noted" /\ s.subject = "boot" /\ "boots" \notin lost' => q.note \in Range(content'["boots"])
    BY <2>2, <1>1 DEF Grown
  <2>6. s.op = "upsert" /\ ~q.raced =>
           Count(q.row) = Count(content'["consensus"][s.subject]) + 1
    BY <2>1, <2>2, <1>1, StepForms DEF Acting
  <2> HIDE DEF s, Count
  <2> QED
    BY <2>3, <2>4, <2>5, <2>6, <1>1 DEF HeadIsTold, Acting, s
<1>5. CopyIsGood(q)'
  <2> SUFFICES ASSUME r.stage # "next" PROVE CopyIsGood(q)'
    BY <1>1 DEF CopyIsGood
  <2>1. /\ Acting(r) /\ s.file \notin {"log", "pack"} /\ s.op \notin Reads
        /\ Good(s.file, c) /\ ~Refuses(s, c)
        /\ s.op = "similar" => r.note # 0 /\ <<r.note, s.subject>> \notin c
        /\ s.op = "add" /\ s.file = "edges" => <<s.subject, s.value>> \notin c
        /\ ~r.raced /\ s.file # "code" => c = content[s.file]
    BY DEF Sound, CopyIsGood
  <2>2. PICK f : f = s.file
    OBVIOUS
  <2>3. PICK v : v = c
    OBVIOUS
  <2>4. Good(f, v)'
    BY <2>1, <2>2, <2>3, GoodGrows
  <2>5. ~q.raced /\ f # "code" => v = content'[f]
    BY <2>1, <2>2, <2>3, <1>1 DEF Acting
  <2> QED
    BY <2>1, <2>2, <2>3, <2>4, <2>5, <1>1 DEF CopyIsGood, Acting
<1> QED
  BY <1>1, <1>2, <1>3, <1>4, <1>5 DEF Sound

LEMMA ItemsKept ==
    ASSUME NewItems, lost \subseteq lost', Made \subseteq Made', NEW p \in Procs, NEW t,
           proc'[p].todo = t, Once(t), \A q \in Procs \ {p} : proc'[q].todo = proc[q].todo,
           \A item \in Items(t) :
              \/ item \in Items(proc[p].todo)
              \/ /\ item[2] \in Made' \ Made
                 /\ Home(item[1]) \in lost' \/ ~Has(item[1], item[2], content'[Home(item[1])]),
           \A item \in NewKinds \X Ids :
              Home(item[1]) \notin lost' /\ Has(item[1], item[2], content'[Home(item[1])]) =>
                 \/ Has(item[1], item[2], content[Home(item[1])])
                 \/ item \in Items(proc[p].todo) /\ item \notin Items(t)
    PROVE  NewItems'
<1>1. /\ \A q \in Procs : Once(proc[q].todo)
      /\ \A q \in Procs : \A item \in Items(proc[q].todo) :
            /\ item[2] \in Made
            /\ Home(item[1]) \in lost \/ ~Has(item[1], item[2], content[Home(item[1])])
      /\ \A q, o \in Procs : q # o => Items(proc[q].todo) \cap Items(proc[o].todo) = {}
  BY DEF NewItems, ItemsAreNew
<1>2. \A u : \A item \in Items(u) : item \in NewKinds \X Ids
  BY DEF Items
<1>3. ASSUME NEW q \in Procs PROVE ItemsAreNew(proc[q].todo)'
  <2>1. PICK u : u = proc'[q].todo
    OBVIOUS
  <2>2. Once(u)
    BY <2>1, <1>1
  <2>3. ASSUME NEW item \in Items(u)
        PROVE  /\ item[2] \in Made'
               /\ Home(item[1]) \in lost' \/ ~Has(item[1], item[2], content'[Home(item[1])])
    <3>1. CASE q = p
      BY <3>1, <2>1, <1>1, <1>2
    <3>2. CASE q # p
      <4>1. u = proc[q].todo
        BY <3>2, <2>1
      <4>2. item \notin Items(proc[p].todo)
        BY <3>2, <4>1, <1>1
      <4> QED
        BY <4>1, <4>2, <1>1, <1>2
    <3> QED
      BY <3>1, <3>2
  <2> QED
    BY <2>1, <2>2, <2>3 DEF ItemsAreNew
<1>4. ASSUME NEW q \in Procs, NEW o \in Procs, q # o
      PROVE  Items(proc'[q].todo) \cap Items(proc'[o].todo) = {}
  <2>1. ASSUME NEW x \in Procs \ {p}, NEW item \in Items(t) PROVE item \notin Items(proc[x].todo)
    BY <1>1
  <2> QED
    BY <2>1, <1>1, <1>4
<1> QED
  BY <1>3, <1>4 DEF NewItems
(* Numbers of the boots that are still to be listed, when nobody writes    *)
(* the state or the list.                                                  *)
LEMMA BootsKept ==
    ASSUME BootsAreNumbered, lost \subseteq lost', content' = content, NEW p \in Procs, NEW r,
           proc'[p] = r, \A q \in Procs \ {p} : proc'[q] = proc[q],
           Booting(r) =>
              /\ Booting(proc[p]) /\ r.note = proc[p].note
              /\ Range(Listed(r)) \subseteq Range(Listed(proc[p])) \cup Range(content["boots"])
    PROVE  BootsAreNumbered'
<1> SUFFICES ASSUME "state" \notin lost'
             PROVE  /\ \A q \in Procs : Booting(proc'[q]) =>
                          /\ proc'[q].note <= content["state"].boots
                          /\ proc'[q].note \notin Range(content["boots"])
                    /\ \A q, o \in Procs : Booting(proc'[q]) /\ Booting(proc'[o]) =>
                          /\ proc'[q].note \notin Range(Listed(proc'[o]))
                          /\ o # q => proc'[o].note # proc'[q].note
  BY DEF BootsAreNumbered
<1>1. /\ \A q \in Procs : Booting(proc[q]) =>
            /\ proc[q].note <= content["state"].boots
            /\ proc[q].note \notin Range(content["boots"])
      /\ \A q, o \in Procs : Booting(proc[q]) /\ Booting(proc[o]) =>
            /\ proc[q].note \notin Range(Listed(proc[o]))
            /\ o # q => proc[o].note # proc[q].note
  BY DEF BootsAreNumbered
<1>2. ASSUME NEW q \in Procs, Booting(proc'[q])
      PROVE  /\ Booting(proc[q]) /\ proc'[q].note = proc[q].note
             /\ Range(Listed(proc'[q])) \subseteq Range(Listed(proc[q])) \cup Range(content["boots"])
  BY <1>2
<1> HIDE DEF Booting, Listed
<1>3. ASSUME NEW q \in Procs, Booting(proc'[q])
      PROVE  proc'[q].note <= content["state"].boots /\ proc'[q].note \notin Range(content["boots"])
  BY <1>1, <1>2, <1>3
<1>4. ASSUME NEW q \in Procs, NEW o \in Procs, Booting(proc'[q]), Booting(proc'[o])
      PROVE  /\ proc'[q].note \notin Range(Listed(proc'[o]))
             /\ o # q => proc'[o].note # proc'[q].note
  <2>1. proc'[q].note = proc[q].note /\ proc'[o].note = proc[o].note /\ Booting(proc[q]) /\ Booting(proc[o])
    BY <1>2, <1>4
  <2>2. Range(Listed(proc'[o])) \subseteq Range(Listed(proc[o])) \cup Range(content["boots"])
    BY <1>2, <1>4
  <2>3. proc[q].note \notin Range(Listed(proc[o])) /\ proc[q].note \notin Range(content["boots"])
    BY <2>1, <1>1
  <2> QED
    BY <2>1, <2>2, <2>3, <1>1
<1> QED
  BY <1>3, <1>4

(* What the log tells, when the files only grow.                           *)
LEMMA LogKept ==
    ASSUME LogIsTrue, Grown,
           \A e \in log' : e \in log \/
              (/\ e[1] \in FactKinds => e \in Known
               /\ e[1] = "trust" => e[2] \in Nat /\ ("trust" \notin lost => e[2] <= Count(content["trust"]))
               /\ e[1] = "boot" /\ "boots" \notin lost => e[2] \in Range(content["boots"]))
    PROVE  LogIsTrue'
<1> SUFFICES ASSUME NEW e \in log'
             PROVE  /\ e[1] \in FactKinds => e \in Known'
                    /\ e[1] = "trust" => e[2] \in Nat /\ ("trust" \notin lost' => e[2] <= Count(content'["trust"]))
                    /\ e[1] = "boot" /\ "boots" \notin lost' => e[2] \in Range(content'["boots"])
  BY DEF LogIsTrue
<1>1. /\ e[1] \in FactKinds => e \in Known
      /\ e[1] = "trust" => e[2] \in Nat /\ ("trust" \notin lost => e[2] <= Count(content["trust"]))
      /\ e[1] = "boot" /\ "boots" \notin lost => e[2] \in Range(content["boots"])
  BY DEF LogIsTrue
<1>2. ASSUME e[1] = "trust", "trust" \notin lost' PROVE e[2] <= Count(content'["trust"])
  <2>1. PICK m \in Nat : m = Count(content["trust"])
    BY DEF Grown
  <2>2. PICK n \in Nat : n = Count(content'["trust"])
    BY DEF Grown
  <2> QED
    BY <1>1, <1>2, <2>1, <2>2 DEF Grown
<1> QED
  BY <1>1, <1>2 DEF Grown
(* Steps that write no file.                                               *)
LEMMA QuietGrows ==
    ASSUME WorkInv, content' = content, packs \subseteq packs', lost \subseteq lost',
           budget' \in [commands : 0..MaxCommands, crashes : 0..MaxCrashes],
           budget'.commands >= budget.commands
    PROVE  Grown
<1>1. Made \subseteq Made'
  <2>1. PICK m \in Nat : m = budget.commands
    BY DEF WorkInv, Shapes
  <2>2. PICK n \in Nat : n = budget'.commands
    OBVIOUS
  <2>3. 1..(m + 1) \subseteq 1..(n + 1)
    BY <2>1, <2>2
  <2> QED
    BY <2>1, <2>2, <2>3 DEF Made
<1>2. Known \subseteq Known'
  BY DEF Known, Has
<1>3. content["state"].boots \in Nat /\ Count(content["trust"]) \in Nat
  <2>1. Good("state", content["state"]) /\ Good("trust", content["trust"])
    BY DEF WorkInv, Files
  <2> QED
    BY <2>1 DEF Good, Count
<1> QED
  BY <1>1, <1>2, <1>3 DEF Grown

LEMMA QuietStep ==
    ASSUME WorkInv, NEW p \in Procs, NEW r, ProcIs(r), proc' = [proc EXCEPT ![p] = r],
           content' = content, packs \subseteq packs', lost \subseteq lost', lost' \subseteq Files,
           done' = done, whole' \in [Files -> BOOLEAN],
           budget' \in [commands : 0..MaxCommands, crashes : 0..MaxCrashes],
           budget'.commands >= budget.commands,
           Sound(r)', Once(r.todo),
           \A item \in Items(r.todo) : item \in Items(proc[p].todo) \/ item[2] \in Made' \ Made,
           Booting(r) =>
              /\ Booting(proc[p]) /\ r.note = proc[p].note
              /\ Range(Listed(r)) \subseteq Range(Listed(proc[p])) \cup Range(content["boots"]),
           \A e \in log' : e \in log \/
              (/\ e[1] \in FactKinds => e \in Known
               /\ e[1] = "trust" => e[2] \in Nat /\ ("trust" \notin lost => e[2] <= Count(content["trust"]))
               /\ e[1] = "boot" /\ "boots" \notin lost => e[2] \in Range(content["boots"]))
    PROVE  WorkInv'
<1>1. Grown
  BY QuietGrows
<1>2. /\ DOMAIN proc' = Procs /\ proc' = [q \in Procs |-> proc'[q]] /\ proc'[p] = r
      /\ \A q \in Procs \ {p} : proc'[q] = proc[q]
  BY DEF WorkInv, Shapes
<1>3. Shapes'
  <2>1. \A q \in Procs : ProcIs(proc'[q])
    BY <1>2 DEF WorkInv, Shapes
  <2> QED
    BY <1>2, <2>1 DEF WorkInv, Shapes
<1>4. ASSUME NEW f \in Files PROVE Good(f, content[f])'
  <2>1. PICK v : v = content[f]
    OBVIOUS
  <2>2. Good(f, v)
    BY <2>1 DEF WorkInv
  <2>3. Good(f, v)'
    BY <1>1, <2>2, GoodGrows
  <2> QED
    BY <2>1, <2>3
<1>5. ASSUME NEW q \in Procs PROVE Sound(proc[q])'
  <2>1. CASE q = p
    BY <2>1, <1>2
  <2>2. CASE q # p
    <3>1. PICK o : o = proc[q]
      OBVIOUS
    <3>2. ProcIs(o) /\ Sound(o)
      BY <3>1 DEF WorkInv, Shapes
    <3>3. Sound(o)'
      BY <1>1, <3>2, OtherIsSound
    <3> QED
      BY <3>1, <3>3, <2>2, <1>2
  <2> QED
    BY <2>1, <2>2
<1>6. NewItems'
  <2>1. \A id \in Made' \ Made, kind \in NewKinds :
           Home(kind) \in lost' \/ ~Has(kind, id, content'[Home(kind)])
    <3>1. /\ Good("directives", content["directives"]) /\ Good("fixes", content["fixes"])
          /\ Good("profiles", content["profiles"]) /\ Good("run", content["run"])
      BY DEF WorkInv, Files
    <3> QED
      BY <3>1 DEF Good, Has, Home, DirectiveRows, IsRun, NewKinds
  <2>2. \A item \in Items(r.todo) : item \in NewKinds \X Ids
    BY DEF Items
  <2>3. NewItems /\ Made \subseteq Made'
    BY <1>1 DEF WorkInv, Grown
  <2> DEFINE t == r.todo
  <2>4. \A item \in Items(t) :
           \/ item \in Items(proc[p].todo)
           \/ /\ item[2] \in Made' \ Made
              /\ Home(item[1]) \in lost' \/ ~Has(item[1], item[2], content'[Home(item[1])])
    BY <2>1, <2>2
  <2>5. proc'[p].todo = t /\ Once(t) /\ \A q \in Procs \ {p} : proc'[q].todo = proc[q].todo
    BY <1>2
  <2> HIDE DEF t
  <2> QED
    BY <2>3, <2>4, <2>5, ItemsKept
<1>7. BootsAreNumbered'
  BY <1>2, BootsKept DEF WorkInv
<1>8. LogIsTrue'
  BY <1>1, LogKept DEF WorkInv
<1>9. RowsAreOne' /\ UpdatesSurvive'
  BY DEF WorkInv, RowsAreOne, UpdatesSurvive
<1> QED
  BY <1>3, <1>4, <1>5, <1>6, <1>7, <1>8, <1>9 DEF WorkInv
(* A process whose next step is not begun.                                 *)
LEMMA RestIsTold ==
    ASSUME NEW r, r.stage = "next", Supplied(r.todo, Known'), Chained(r.todo), HeadIsTold(r)'
    PROVE  Sound(r)'
BY DEF Sound, CopyIsGood

LEMMA GiveStep ==
    ASSUME WorkInv, NEW p \in Procs, NEW kind, NEW t, NEW kinds, Give(p, kind, t),
           Composed(t, NewId, Known, kinds)
    PROVE  WorkInv'
<1> DEFINE o == proc[p]
<1>0. PICK r : r = [o EXCEPT !.todo = t]
  OBVIOUS
<1>1. ProcIs(o) /\ Sound(o) /\ proc' = [proc EXCEPT ![p] = r] /\ o.todo = <<>>
  BY <1>0 DEF WorkInv, Shapes, Give
<1>2. t \in Seq(AllSteps) /\ Supplied(t, Known) /\ Chained(t) /\ (t # <<>> => Teller(t[1]) = "none")
  BY DEF Composed
<1>3. ProcIs(r) /\ r.todo = t /\ r.stage = "next"
  BY <1>0, <1>1, <1>2 DEF ProcIs, Sound, CopyIsGood, Acting
<1>4. PICK n \in Nat : n = budget.commands /\ n < MaxCommands
  BY DEF WorkInv, Shapes, Give
<1>5. budget' = [commands |-> n + 1, crashes |-> budget.crashes]
  BY <1>4 DEF WorkInv, Shapes, Give
<1>6. budget' \in [commands : 0..MaxCommands, crashes : 0..MaxCrashes] /\ budget'.commands >= budget.commands
  BY <1>4, <1>5, WorkspaceConstants DEF WorkInv, Shapes
<1>7. NewId \in Made' \ Made
  BY <1>4, <1>5 DEF NewId, Made
<1>8. Once(t) /\ \A item \in Items(t) : item[2] = NewId
  BY ComposedItems
<1>9. Grown
  BY <1>6, QuietGrows DEF Give
<1>10. Sound(r)'
  <2>1. Supplied(t, Known')
    BY <1>2, <1>9 DEF Supplied, Grown
  <2>2. Head(t) = t[1]
    BY DEF Head
  <2>3. HeadIsTold(r)'
    BY <1>2, <1>3, <2>2 DEF HeadIsTold, Acting, Teller
  <2> QED
    BY <1>2, <1>3, <2>1, <2>3, RestIsTold
<1>11. ~Booting(r)
  <2>1. Head(t) = t[1]
    BY DEF Head
  <2> QED
    BY <1>2, <1>3, <2>1 DEF Booting, Acting, Teller
<1>12. /\ content' = content /\ packs' = packs /\ lost' = lost /\ lost \subseteq Files /\ done' = done
       /\ whole' = whole /\ whole \in [Files -> BOOLEAN] /\ log' = log
  BY DEF Give, WorkInv, Shapes
<1> QED
  BY <1>1, <1>3, <1>6, <1>7, <1>8, <1>10, <1>11, <1>12, QuietStep

LEMMA CommandStep ==
    ASSUME WorkInv, NEW p \in Procs, Commands(p)
    PROVE  WorkInv'
<1> DEFINE id == NewId
           facts == Known
<1>1. ASSUME NEW kind, NEW t, NEW kinds, Give(p, kind, t), Composed(t, id, facts, kinds) PROVE WorkInv'
  BY <1>1, GiveStep
<1>2. ASSUME NEW kind, NEW t, Give(p, kind, t) PROVE id \in Ids
  <2>1. PICK n \in Nat : n = budget.commands /\ n < MaxCommands
    BY <1>2 DEF WorkInv, Shapes, Give
  <2> QED
    BY <2>1, WorkspaceConstants DEF NewId, Ids
<1>3. ASSUME NEW kind PROVE Printed(kind) \subseteq Ids /\ {0} \cup Printed(kind) \subseteq Ids0
  BY DEF Printed, Ids0
<1>4. ASSUME NEW x \in Printed("fix") PROVE x \in Ids /\ <<"fix", x>> \in facts
  <2>1. <<"fix", x>> \in log
    BY DEF Printed
  <2>2. <<"fix", x>>[1] \in FactKinds
    BY DEF FactKinds
  <2> QED
    BY <2>1, <2>2, <1>3 DEF WorkInv, LogIsTrue
<1>5. content["code"] \in Seq(Lines) /\ content["profiles"].names \cup {0} \subseteq Ids0
  <2>1. Good("code", content["code"]) /\ Good("profiles", content["profiles"]) /\ Made \subseteq Ids
    <3>1. PICK n \in Nat : n = budget.commands /\ n <= MaxCommands
      BY DEF WorkInv, Shapes
    <3> QED
      BY <3>1, WorkspaceConstants DEF WorkInv, Files, Made, Ids
  <2> QED
    BY <2>1 DEF Good, Ids0
<1>6. \A hash \in Hashes : hash \in SUBSET Seq(Lines)
  BY <1>5 DEF Hashes
<1>7. \A fallback \in BOOLEAN : BootMode(TRUE, fallback) \in {"primary", "fallback", "degraded"}
  BY DEF BootMode
<1> HIDE DEF id, facts
<1>8. CASE DirectiveCommand(p)
  BY <1>1, <1>2, <1>3, <1>8, LedgerCommands DEF DirectiveCommand, id
<1>9. CASE ContinuityCommand(p)
  BY <1>1, <1>2, <1>7, <1>9, LedgerCommands DEF ContinuityCommand
<1>10. CASE TrustCommand(p)
  BY <1>1, <1>2, <1>10, LedgerCommands DEF TrustCommand
<1>11. CASE CurriculumCommand(p)
  BY <1>1, <1>2, <1>11, LedgerCommands DEF CurriculumCommand
<1>12. CASE FixNetCommand(p)
  <2>1. CASE \E embed \in BOOLEAN : Give(p, "fixnet", RegisterFix(NewId, embed))
    BY <1>1, <1>2, <2>1, FixCommands DEF id
  <2>2. CASE \E x \in {0} \cup Printed("fix") : Give(p, "fixnet", EmbedFix(x))
    BY <1>1, <1>2, <1>3, <2>2, EmbedFixIs
  <2>3. ASSUME NEW x \in Printed("fix"), Give(p, "fixnet", SyncFix(x, "live")) \/ Give(p, "fixnet", RetireFix(x))
        PROVE  WorkInv'
    BY <1>1, <1>2, <1>4, <2>3, FixCommands
  <2>4. ASSUME NEW x \in Printed("fix"), NEW ok \in BOOLEAN, Give(p, "fixnet", FixOutcome(x, ok))
        PROVE  WorkInv'
    BY <1>1, <1>2, <1>4, <2>4, FixCommands
  <2>5. ASSUME NEW x \in Printed("fix"), NEW y \in Printed("fix"), Give(p, "fixnet", LinkFixes(x, y))
        PROVE  WorkInv'
    BY <1>1, <1>2, <1>4, <2>5, FixCommands
  <2> QED
    BY <1>12, <2>1, <2>2, <2>3, <2>4, <2>5 DEF FixNetCommand
<1>13. CASE VerdictCommand(p)
  <2>1. PICK c \in Clusters : \/ \E passed \in BOOLEAN : Give(p, "verdict", ValidateRun(NewId, passed, c))
                              \/ \E force \in BOOLEAN : Give(p, "verdict", PromoteRun(NewId, force, c))
    BY <1>13 DEF VerdictCommand
  <2>2. ASSUME NEW passed \in BOOLEAN, Give(p, "verdict", ValidateRun(NewId, passed, c)) PROVE WorkInv'
    BY <1>1, <1>2, <2>2, VerdictCommands DEF id
  <2>3. ASSUME NEW force \in BOOLEAN, Give(p, "verdict", PromoteRun(NewId, force, c)) PROVE WorkInv'
    BY <1>1, <1>2, <2>3, RunCommands DEF id
  <2> QED
    BY <2>1, <2>2, <2>3
<1>14. CASE RunCommand(p)
  <2>1. ASSUME NEW patch \in RunPatches,
               \/ Give(p, "run", ApplyRunPatch(NewId, patch))
               \/ Give(p, "run", AdversarialCycle(NewId, patch))
        PROVE  WorkInv'
    BY <1>1, <1>2, <2>1, RunCommands DEF id
  <2>2. ASSUME NEW patch \in RunPatches, NEW how \in CycleEnds,
               \/ Give(p, "run", ExecuteCycle(NewId, patch, how))
               \/ Give(p, "run", ExecuteBest(NewId, patch, how))
        PROVE  WorkInv'
    BY <1>1, <1>2, <2>2, RunCommands DEF id
  <2>3. ASSUME \/ Give(p, "run", InjectFault(NewId)) \/ Give(p, "run", GenerateCandidates(NewId))
               \/ Give(p, "run", ChooseBest)
        PROVE  WorkInv'
    BY <1>1, <1>2, <2>3, RunCommands DEF id
  <2>4. ASSUME NEW c \in Clusters, Give(p, "run", ScoreCandidates(c)) PROVE WorkInv'
    BY <1>1, <1>2, <2>4, RunCommands
  <2> QED
    BY <1>14, <2>1, <2>2, <2>3, <2>4 DEF RunCommand
<1>15. CASE ProfileCommand(p)
  BY <1>1, <1>2, <1>5, <1>15, LedgerCommands DEF ProfileCommand, id
<1>16. CASE CodeCommand(p)
  <2>1. PICK hash \in Hashes :
           \/ \E range \in Ranges, text \in Texts("") : Give(p, "code", PatchRange(range, text, hash))
           \/ \E symbol \in Symbols : \E text \in Texts(symbol) :
                 Give(p, "code", PatchSymbol(symbol, text, hash))
    BY <1>16 DEF CodeCommand
  <2>2. ASSUME NEW range \in Ranges, NEW text \in Texts(""), Give(p, "code", PatchRange(range, text, hash))
        PROVE  WorkInv'
    BY <1>1, <1>2, <1>6, <2>2, CodeCommands
  <2>3. ASSUME NEW symbol \in Symbols, NEW text \in Texts(symbol),
               Give(p, "code", PatchSymbol(symbol, text, hash))
        PROVE  WorkInv'
    BY <1>1, <1>2, <1>6, <2>3, CodeCommands
  <2> QED
    BY <2>1, <2>2, <2>3
<1> QED
  BY <1>8, <1>9, <1>10, <1>11, <1>12, <1>13, <1>14, <1>15, <1>16 DEF Commands
LEMMA RaiseStep ==
    ASSUME WorkInv, NEW p \in Procs, Raises(p), content' = content, packs' = packs, log' = log,
           lost \subseteq lost', lost' \subseteq Files, done' = done, whole' = whole,
           budget' \in [commands : 0..MaxCommands, crashes : 0..MaxCrashes],
           budget'.commands = budget.commands
    PROVE  WorkInv'
<1>0. PICK r : r = IdleProc
  OBVIOUS
<1>1. ProcIs(r) /\ r.todo = <<>> /\ r.stage = "next"
  <2>1. NewConsensus \in Rows /\ <<>> \in Seq(AllSteps) /\ <<0, 0>> \in Nat \X Nat
    BY DEF NewConsensus, Rows
  <2> HIDE DEF NewConsensus
  <2> QED
    BY <1>0, <2>1 DEF IdleProc, ProcIs
<1>2. proc' = [proc EXCEPT ![p] = r]
  BY <1>0 DEF Raises
<1>3. Sound(r)'
  <2>1. Supplied(r.todo, Known') /\ Chained(r.todo) /\ HeadIsTold(r)'
    BY <1>1 DEF Supplied, Chained, HeadIsTold, Acting
  <2> QED
    BY <1>1, <2>1, RestIsTold
<1>4. Once(r.todo) /\ Items(r.todo) = {} /\ ~Booting(r)
  BY <1>1 DEF Once, Items, Booting, Acting
<1>5. whole' \in [Files -> BOOLEAN] /\ packs \subseteq packs' /\ budget'.commands >= budget.commands
  BY DEF WorkInv, Shapes
<1> QED
  BY <1>1, <1>2, <1>3, <1>4, <1>5, QuietStep

(* A step that writes no file, and what it tells the next one.             *)
LEMMA PassStep ==
    ASSUME WorkInv, NEW p \in Procs, Busy(p), NEW note \in Nat, NEW row \in Rows, GoesOn(p, note, row),
           content' = content, packs \subseteq packs', lost' = lost, done' = done, whole' = whole,
           budget' = budget,
           \A kind \in FactKinds, id \in Ids0 : Gives(Now(p), kind, id) => <<kind, id>> \in Known',
           Now(p).op \notin {"outcome", "append", "boot"},
           Now(p).op = "nearest" => note \in Ids0 /\ (note # 0 => <<"fix", note>> \in Known),
           Now(p).op = "score" => Count(row) = Count(content["consensus"][Now(p).subject]) + 1,
           \A e \in log' : e \in log \/
              (/\ e[1] \in FactKinds => e \in Known
               /\ e[1] = "trust" => e[2] \in Nat /\ ("trust" \notin lost => e[2] <= Count(content["trust"]))
               /\ e[1] = "boot" /\ "boots" \notin lost => e[2] \in Range(content["boots"]))
    PROVE  WorkInv'
<1> DEFINE t == proc[p].todo
<1>0. PICK r : r = AfterStep(p, note, row)
  OBVIOUS
<1>1. t \in Seq(AllSteps) /\ t # <<>> /\ Supplied(t, Known) /\ Chained(t) /\ Once(t) /\ Now(p) = Head(t)
  BY DEF WorkInv, Shapes, ProcIs, Sound, NewItems, ItemsAreNew, Busy, Now
<1>2. Grown
  <2>1. budget' \in [commands : 0..MaxCommands, crashes : 0..MaxCrashes] /\ budget'.commands >= budget.commands
    BY DEF WorkInv, Shapes
  <2> QED
    BY <2>1, QuietGrows
<1>3. /\ Tail(t) \in Seq(AllSteps) /\ Supplied(Tail(t), Known') /\ Chained(Tail(t)) /\ Once(Tail(t))
      /\ Items(Tail(t)) \subseteq Items(t)
      /\ Tail(t) # <<>> =>
            LET s == Head(Tail(t)) IN
            Teller(s) # "none" =>
               Head(t).op = Teller(s) /\ (s.op = "upsert" => s.subject = Head(t).subject)
  BY <1>1, <1>2, RestIsSound DEF Grown
<1>4. r = [todo |-> Tail(t), stage |-> "next", copy |-> <<"", {}>>, note |-> note, row |-> row,
           at |-> <<0, 0>>, raced |-> FALSE]
  BY <1>0 DEF AfterStep, IdleProc
<1> HIDE DEF t
<1>5. ProcIs(r) /\ r.todo = Tail(t) /\ r.stage = "next" /\ r.note = note /\ r.row = row
  BY <1>3, <1>4 DEF ProcIs
<1>6. HeadIsTold(r)'
  <2> SUFFICES ASSUME Tail(t) # <<>> PROVE HeadIsTold(r)'
    BY <1>5 DEF HeadIsTold, Acting
  <2> DEFINE s == Head(Tail(t))
  <2>1. s.op = "similar" => r.note \in Ids0 /\ (r.note # 0 => <<"fix", r.note>> \in Known')
    BY <1>1, <1>2, <1>3, <1>5 DEF Teller, Grown
  <2>2. s.op # "noted"
    BY <1>1, <1>3 DEF Teller
  <2>3. s.op = "upsert" => Count(r.row) = Count(content'["consensus"][s.subject]) + 1
    BY <1>1, <1>3, <1>5 DEF Teller
  <2> QED
    BY <1>5, <2>1, <2>2, <2>3 DEF HeadIsTold, Acting
<1>7. Sound(r)'
  BY <1>3, <1>5, <1>6, RestIsTold
<1>8. ~Booting(r)
  BY <1>1, <1>3, <1>5 DEF Booting, Acting, Teller
<1>9. proc' = [proc EXCEPT ![p] = r]
  BY <1>0 DEF GoesOn
<1>10. /\ whole' \in [Files -> BOOLEAN] /\ budget' \in [commands : 0..MaxCommands, crashes : 0..MaxCrashes]
       /\ budget'.commands >= budget.commands /\ lost \subseteq lost' /\ lost' \subseteq Files
  BY DEF WorkInv, Shapes
<1> QED
  BY <1>3, <1>5, <1>7, <1>8, <1>9, <1>10, QuietStep DEF t
LEMMA RecordStep ==
    ASSUME WorkInv, NEW p \in Procs, Record(p)
    PROVE  WorkInv'
<1> DEFINE s == Now(p)
           t == proc[p].todo
           note == proc[p].note
<1>1. /\ s \in AllSteps /\ s = t[1] /\ 1 \in DOMAIN t /\ DOMAIN t \subseteq Nat \ {0}
      /\ t # <<>> /\ Supplied(t, Known) /\ HeadIsTold(proc[p])
      /\ note \in Nat /\ proc[p].row \in Rows
  BY Tails DEF WorkInv, Shapes, ProcIs, Sound, Record, Busy, Now
<1>2. s.op \in {"event", "noted"}
  BY <1>1, StepForms DEF Record
<1>3. PICK e : e = <<s.subject, IF s.op = "noted" THEN note ELSE s.value>>
  OBVIOUS
<1>4. CASE s.op = "event"
  <2>1. s.subject \in EventKinds /\ s.value \in Ids0 /\ e = <<s.subject, s.value>>
    BY <1>1, <1>3, <1>4, StepForms
  <2>2. s.subject \in FactKinds => e \in Known
    <3>1. Asks(t[1], s.subject, s.value)
      BY <1>1, <1>4 DEF Asks
    <3>2. \A j \in DOMAIN t : ~(j < 1)
      BY <1>1
    <3> QED
      BY <2>1, <3>1, <3>2, <1>1 DEF Supplied
  <2>3. e[1] = s.subject /\ e[1] \notin {"trust", "boot"}
    BY <2>1 DEF EventKinds
  <2> QED
    <3>1. \A x \in log' : x \in log \/ x = e
      BY <1>3 DEF Record
    <3> QED
      BY <1>1, <1>2, <2>2, <2>3, <3>1, PassStep DEF Record, Passes, Gives
<1>5. CASE s.op = "noted"
  <2>1. s.subject \in {"boot", "trust"} /\ e = <<s.subject, note>>
    BY <1>1, <1>3, <1>5, StepForms
  <2>2. /\ s.subject = "trust" /\ "trust" \notin lost => note <= Count(content["trust"])
        /\ s.subject = "boot" /\ "boots" \notin lost => note \in Range(content["boots"])
    BY <1>1, <1>5 DEF HeadIsTold, Acting, Now
  <2>3. e[1] = s.subject /\ e[2] = note /\ e[1] \notin FactKinds
    BY <2>1 DEF FactKinds
  <2> QED
    <3>1. \A x \in log' : x \in log \/ x = e
      BY <1>3 DEF Record
    <3> QED
      BY <1>1, <1>2, <1>5, <2>2, <2>3, <3>1, PassStep DEF Record, Passes, Gives
<1> QED
  BY <1>2, <1>4, <1>5

LEMMA WritePackStep ==
    ASSUME WorkInv, NEW p \in Procs, WritePack(p)
    PROVE  WorkInv'
<1> DEFINE s == Now(p)
<1>1. s \in AllSteps /\ proc[p].note \in Nat /\ proc[p].row \in Rows
  BY Tails DEF WorkInv, Shapes, ProcIs, WritePack, Busy, Now
<1>2. s.op = "pack" /\ s.subject \in packs' /\ packs \subseteq packs'
  BY DEF WritePack
<1>3. \A kind \in FactKinds, id \in Ids0 : Gives(s, kind, id) => <<kind, id>> \in Known'
  BY <1>2 DEF Gives, Known
<1> QED
  BY <1>1, <1>2, <1>3, PassStep DEF WritePack, Passes

LEMMA ReadStep ==
    ASSUME WorkInv, NEW p \in Procs, Read(p)
    PROVE  WorkInv'
<1> DEFINE s == Now(p)
           c == content[s.file]
           t == proc[p].todo
<1>1. /\ s \in AllSteps /\ proc[p].note \in Nat /\ proc[p].row \in Rows /\ s = Head(t)
      /\ ProcIs(proc[p]) /\ Sound(proc[p]) /\ t # <<>>
  BY Tails DEF WorkInv, Shapes, ProcIs, Read, Busy, Now
<1>2. /\ content' = content /\ packs' = packs /\ log' = log /\ lost' = lost /\ done' = done
      /\ whole' = whole /\ budget' = budget /\ lost \subseteq Files /\ s.op \in Reads /\ Busy(p)
      /\ budget \in [commands : 0..MaxCommands, crashes : 0..MaxCrashes]
  BY DEF Read, WorkInv, Shapes
<1>3. CASE Raises(p)
  BY <1>2, <1>3, RaiseStep
<1>4. \A kind, id : ~Gives(s, kind, id)
  BY <1>2 DEF Gives, Reads
<1>5. ASSUME NEW note \in Nat, NEW row \in Rows, GoesOn(p, note, row),
             s.op = "nearest" => note \in Ids0 /\ (note # 0 => <<"fix", note>> \in Known),
             s.op = "score" => Count(row) = Count(content["consensus"][s.subject]) + 1
      PROVE  WorkInv'
  BY <1>2, <1>4, <1>5, PassStep DEF Reads
<1>6. CASE s.op = "nearest" /\ Learns(p)
  <2>1. PICK near \in Nearest(content["fixes"], s.subject) : GoesOn(p, near, proc[p].row)
    BY <1>1, <1>6, StepForms DEF Learns
  <2>2. near \in {0} \cup content["fixes"]
    BY DEF Nearest
  <2>3. content["fixes"] \subseteq Made /\ Made \subseteq Ids
    <3>1. PICK n \in Nat : n = budget.commands /\ n <= MaxCommands
      BY DEF WorkInv, Shapes
    <3>2. Good("fixes", content["fixes"])
      BY DEF WorkInv, Files
    <3> QED
      BY <3>1, <3>2, WorkspaceConstants DEF Good, Made, Ids
  <2>4. near \in Ids0 /\ near \in Nat
    BY <2>2, <2>3, WorkspaceConstants DEF Ids0, Ids
  <2>5. near # 0 => <<"fix", near>> \in Known
    BY <2>2, <2>4 DEF Known, Has, Home, FactKinds
  <2> QED
    BY <1>1, <1>5, <1>6, <2>1, <2>4, <2>5
<1>7. CASE s.op = "best" /\ Learns(p)
  <2>1. PICK best \in Best(content["run"]) : GoesOn(p, best, proc[p].row)
    BY <1>1, <1>7, StepForms DEF Learns
  <2>2. Good("run", content["run"])
    BY DEF WorkInv, Files
  <2>3. best \in Nat
    BY <2>2 DEF Good, IsRun, Best, Made
  <2> QED
    BY <1>1, <1>5, <1>7, <2>1, <2>3
<1>8. CASE s.op = "score" /\ Learns(p)
  <2>1. s.file = "consensus" /\ s.subject \in Ids /\ s.value \in BOOLEAN
    BY <1>1, <1>8, StepForms
  <2>2. content["consensus"] \in [Ids -> Rows]
    <3>1. Good("consensus", content["consensus"])
      BY DEF WorkInv, Files
    <3> QED
      BY <3>1 DEF Good
  <2>3. PICK row \in Rows : row = content["consensus"][s.subject]
    BY <2>1, <2>2
  <2>4. PICK new : new = ConsensusRecord(row, s.value)
    OBVIOUS
  <2>5. new \in Rows /\ Count(new) = Count(row) + 1
    <3>1. PICK ok \in Nat, bad \in Nat : ok = row.ok /\ bad = row.bad
      BY DEF Rows
    <3>2. PICK a \in Nat : a = ok + (IF s.value THEN 1 ELSE 0)
      OBVIOUS
    <3>3. PICK b \in Nat : b = bad + (IF s.value THEN 0 ELSE 1)
      OBVIOUS
    <3>4. new = [tier |-> ConsensusTier(a, b), ok |-> a, bad |-> b]
      BY <2>4, <3>1, <3>2, <3>3 DEF ConsensusRecord
    <3>5. ConsensusTier(a, b) \in {"highly_trusted", "trusted", "quarantined", "experimental"}
      BY DEF ConsensusTier
    <3>6. a + b = ok + bad + 1
      BY <2>1, <3>2, <3>3
    <3> HIDE DEF ConsensusTier
    <3> QED
      BY <3>1, <3>4, <3>5, <3>6 DEF Rows, Count
  <2>6. GoesOn(p, proc[p].note, new)
    BY <1>8, <2>1, <2>3, <2>4 DEF Learns
  <2> QED
    BY <1>1, <1>5, <1>8, <2>3, <2>5, <2>6
<1>9. CASE s.op = "approve" /\ Learns(p)
  <2>1. Passes(p) \/ Raises(p)
    BY <1>9 DEF Learns
  <2> QED
    BY <1>1, <1>3, <1>5, <1>9, <2>1 DEF Passes
<1>10. CASE s.op \in {"read", "known", "chosen"} /\ Learns(p)
  <2>1. Passes(p)
    BY <1>10 DEF Learns
  <2> QED
    BY <1>1, <1>5, <1>10, <2>1 DEF Passes
<1>11. CASE s.op = "court" /\ Learns(p)
  <2>1. PICK approved \in BOOLEAN :
           proc' = [proc EXCEPT ![p].todo = AfterCourt(approved, s.value.id, s.value.cluster)]
    BY <1>11 DEF Learns, CourtAnswers
  <2>2. s.value.id \in Ids /\ s.value.cluster \in Clusters
    BY <1>1, <1>11, StepForms
  <2>3. PICK u : u = AfterCourt(approved, s.value.id, s.value.cluster)
    OBVIOUS
  <2>4. Composed(u, s.value.id, Known, {"add"})
    BY <2>2, <2>3, VerdictCommands
  <2>5. u \in Seq(AllSteps) /\ Supplied(u, Known) /\ Chained(u) /\ (u # <<>> => Teller(Head(u)) = "none")
    <3>1. u # <<>> => Head(u) = u[1]
      BY DEF Head
    <3> QED
      BY <2>4, <3>1 DEF Composed
  <2>6. PICK r : r = [proc[p] EXCEPT !.todo = u]
    OBVIOUS
  <2>7. proc[p].stage = "next"
    BY <1>1, <1>2 DEF Sound, CopyIsGood
  <2>8. ProcIs(r) /\ r.todo = u /\ r.stage = "next"
    BY <1>1, <2>5, <2>6, <2>7 DEF ProcIs
  <2>9. Sound(r)'
    <3>1. Supplied(u, Known')
      <4>1. Known' = Known
        BY <1>2 DEF Known, Has
      <4> QED
        BY <2>5, <4>1
    <3>2. HeadIsTold(r)'
      BY <2>5, <2>8 DEF HeadIsTold, Acting, Teller
    <3> QED
      BY <2>5, <2>8, <3>1, <3>2, RestIsTold
  <2>10. ~Booting(r)
    BY <2>5, <2>8 DEF Booting, Acting, Teller
  <2>11. Once(u) /\ \A item \in Items(u) : item \in Items(t)
    <3>1. Once(u) /\ \A item \in Items(u) : item[1] = "add" /\ item[2] = s.value.id
      BY <2>4, ComposedItems
    <3>2. \A item \in Items(u) : item \in NewKinds \X Ids
      BY DEF Items
    <3>3. Head(t) = t[1] /\ 1 \in DOMAIN t
      BY <1>1, Tails DEF ProcIs
    <3>4. \A item \in Items(u) : Brings(t[1], item[1], item[2])
      BY <1>1, <1>11, <3>1, <3>3 DEF Brings
    <3> QED
      BY <3>1, <3>2, <3>3, <3>4 DEF Items
  <2>12. proc' = [proc EXCEPT ![p] = r]
    BY <1>1, <2>1, <2>3, <2>6 DEF WorkInv, Shapes
  <2>13. whole' \in [Files -> BOOLEAN] /\ budget'.commands >= budget.commands
    BY <1>2 DEF WorkInv, Shapes
  <2> QED
    BY <1>2, <2>8, <2>9, <2>10, <2>11, <2>12, <2>13, QuietStep
<1> QED
  BY <1>2, <1>3, <1>6, <1>7, <1>8, <1>9, <1>10, <1>11 DEF Read, Reads
(* The least and the greatest of some naturals up to a bound.              *)
LEMMA MinMaxOfNaturals ==
    ASSUME NEW S \in SUBSET Nat, S # {}, NEW n \in Nat, \A s \in S : s <= n
    PROVE  /\ Min(S) \in S /\ \A s \in S : Min(S) <= s
           /\ Max(S) \in S /\ \A s \in S : s <= Max(S)
<1>1. ASSUME NEW T \in SUBSET Nat, T # {} PROVE \E m \in T : \A s \in T : m <= s
  <2>1. PICK m \in T : \A s \in T : ~(<<s, m>> \in OpToRel(<, Nat))
    BY <1>1, NatLessThanWellFounded, WFMin
  <2>2. \A s \in T : ~(s < m)
    BY <2>1 DEF OpToRel
  <2> QED
    BY <2>2
<1>2. PICK m \in S : \A s \in S : m <= s
  BY <1>1
<1>3. PICK k \in S : \A s \in S : s <= k
  <2> DEFINE T == {n - s : s \in S}
  <2>1. T \in SUBSET Nat /\ T # {}
    OBVIOUS
  <2>2. PICK d \in T : \A s \in T : d <= s
    BY <2>1, <1>1
  <2>3. PICK k \in S : d = n - k
    BY <2>2
  <2>4. \A s \in S : n - k <= n - s
    BY <2>2, <2>3
  <2>5. \A s \in S : s <= k
    BY <2>4
  <2> QED
    BY <2>5
<1>4. \A s \in S : k >= s
  BY <1>3
<1>5. Min(S) \in S /\ \A s \in S : Min(S) <= s
  BY <1>2 DEF Min
<1>6. Max(S) \in S /\ \A s \in S : Max(S) >= s
  BY <1>4 DEF Max
<1>7. \A s \in S : s <= Max(S)
  BY <1>6
<1> QED
  BY <1>5, <1>6, <1>7
(* The first and the last line of a symbol.                                *)
LEMMA SymbolIsFound ==
    ASSUME NEW code \in Seq(Lines), NEW symbol
    PROVE  FindSymbol(code, symbol) \in Nat \X Nat
<1> DEFINE at == {i \in DOMAIN code : code[i].symbol = symbol}
<1>1. at \subseteq Nat /\ \A i \in at : i <= Len(code) /\ Len(code) \in Nat
  BY LenProperties
<1>2. ASSUME at # {} PROVE Min(at) \in at /\ Max(at) \in at
  BY <1>1, <1>2, MinMaxOfNaturals
<1> QED
  BY <1>1, <1>2 DEF FindSymbol

(* A process that goes on with its update.                                 *)
LEMMA StageStep ==
    ASSUME WorkInv, NEW p \in Procs, Updates(p), NEW r, ProcIs(r), proc' = [proc EXCEPT ![p] = r],
           r.todo = proc[p].todo, r.note = proc[p].note, r.row = proc[p].row, r.raced = proc[p].raced,
           CopyIsGood(r), r.stage # "next",
           Booting(r) => r.copy[2] = content["boots"] \/ (proc[p].stage # "next" /\ r.copy = proc[p].copy),
           UNCHANGED <<content, packs, log, patches, trainer, budget, lost, done>>,
           whole' \in [Files -> BOOLEAN]
    PROVE  WorkInv'
<1>1. Grown
  BY QuietGrows DEF WorkInv, Shapes
<1>2. PICK o : o = proc[p]
  OBVIOUS
<1>3. ProcIs(o) /\ Sound(o) /\ Once(o.todo)
  BY <1>2 DEF WorkInv, Shapes, NewItems, ItemsAreNew
<1>4. Sound(r)
  BY <1>2, <1>3 DEF Sound, HeadIsTold, Acting
<1>5. Sound(r)'
  BY <1>1, <1>4, OtherIsSound
<1>6. Booting(r) => Booting(o) /\ Range(Listed(r)) \subseteq Range(Listed(o)) \cup Range(content["boots"])
  BY <1>2 DEF Booting, Acting, Listed
<1>7. /\ budget' \in [commands : 0..MaxCommands, crashes : 0..MaxCrashes]
      /\ budget'.commands >= budget.commands /\ lost \subseteq Files
  BY DEF WorkInv, Shapes
<1> QED
  BY <1>2, <1>3, <1>5, <1>6, <1>7, QuietStep

LEMMA LoadStep ==
    ASSUME WorkInv, NEW p \in Procs, Load(p)
    PROVE  WorkInv'
<1> DEFINE s == Now(p)
           o == proc[p]
           c == Loaded(s.file)
<1>1. /\ s \in AllSteps /\ o.note \in Nat /\ o.row \in Rows /\ s = Head(o.todo)
      /\ ProcIs(o) /\ Sound(o) /\ o.todo # <<>> /\ Updates(p) /\ o.stage = "next" /\ Busy(p)
      /\ s.file \notin {"log", "pack"} /\ s.op \notin Reads
  BY Tails DEF WorkInv, Shapes, ProcIs, Load, Updates, Busy, Now
<1>2. /\ content' = content /\ packs' = packs /\ log' = log /\ lost' = lost /\ done' = done
      /\ whole' = whole /\ budget' = budget /\ lost \subseteq Files /\ patches' = patches /\ trainer' = trainer
      /\ whole \in [Files -> BOOLEAN] /\ DOMAIN proc = Procs
      /\ budget \in [commands : 0..MaxCommands, crashes : 0..MaxCrashes]
  BY DEF Load, WorkInv, Shapes
<1>3. CASE Raises(p)
  BY <1>2, <1>3, RaiseStep
<1>4. CASE Passes(p) /\ (s.op = "similar" \/ NothingToSave(p, s, c))
  <2>1. s.op = "similar" \/ (s.op = "add" /\ s.file = "edges")
    BY <1>4 DEF NothingToSave
  <2> QED
    BY <1>1, <1>2, <1>4, <2>1, PassStep DEF Passes, Gives
<1>5. CASE /\ ~(s.op = "similar" /\ o.note = 0)
           /\ ~((~whole[s.file] /\ s.file # "code") \/ Refuses(s, c)) /\ ~NothingToSave(p, s, c)
           /\ proc' = [proc EXCEPT ![p].stage = "loaded", ![p].copy = <<s.file, c>>]
  <2>1. PICK r : r = [o EXCEPT !.stage = "loaded", !.copy = <<s.file, c>>]
    OBVIOUS
  <2>2. /\ ProcIs(r) /\ r.todo = o.todo /\ r.note = o.note /\ r.row = o.row /\ r.raced = o.raced
        /\ r.stage = "loaded" /\ r.copy[2] = c
    BY <1>1, <2>1 DEF ProcIs
  <2>3. s.file \in Files
    BY <1>1, StepForms
  <2>4. Good(s.file, c) /\ (s.file # "code" => c = content[s.file])
    <3>1. CASE whole[s.file]
      BY <2>3, <3>1 DEF WorkInv, Loaded
    <3>2. CASE ~whole[s.file]
      <4>1. s.file = "code" /\ c = <<>>
        BY <1>5, <3>2 DEF Loaded
      <4> HIDE DEF c
      <4>2. c \in Seq(Lines)
        BY <4>1
      <4> QED
        BY <4>1, <4>2 DEF Good
    <3> QED
      BY <3>1, <3>2
  <2>5. CopyIsGood(r)
    BY <1>1, <1>5, <2>2, <2>4 DEF CopyIsGood, Acting, NothingToSave
  <2>6. Booting(r) => r.copy[2] = content["boots"]
    BY <1>1, <2>2, <2>4, StepForms DEF Booting
  <2>7. proc' = [proc EXCEPT ![p] = r]
    BY <1>2, <1>5, <2>1
  <2>8. /\ Updates(p) /\ ProcIs(r) /\ r.stage # "next" /\ whole' \in [Files -> BOOLEAN]
        /\ UNCHANGED <<content, packs, log, patches, trainer, budget, lost, done>>
        /\ r.todo = proc[p].todo /\ r.note = proc[p].note /\ r.row = proc[p].row /\ r.raced = proc[p].raced
    BY <1>1, <1>2, <2>2
  <2>9. Booting(r) => r.copy[2] = content["boots"] \/ (proc[p].stage # "next" /\ r.copy = proc[p].copy)
    BY <2>6
  <2> HIDE DEF s, o, c
  <2> QED
    BY ONLY WorkInv, p \in Procs, <2>5, <2>7, <2>8, <2>9, StageStep
<1>6. IF s.op = "similar" /\ o.note = 0 THEN Passes(p)
      ELSE IF (~whole[s.file] /\ s.file # "code") \/ Refuses(s, c) THEN Raises(p)
      ELSE IF NothingToSave(p, s, c) THEN Passes(p)
      ELSE proc' = [proc EXCEPT ![p].stage = "loaded", ![p].copy = <<s.file, c>>]
  BY DEF Load
<1> DEFINE goes == proc' = [proc EXCEPT ![p].stage = "loaded", ![p].copy = <<s.file, c>>]
<1>7. CASE s.op = "similar" /\ o.note = 0
  BY <1>4, <1>6, <1>7
<1>8. CASE ~(s.op = "similar" /\ o.note = 0) /\ ((~whole[s.file] /\ s.file # "code") \/ Refuses(s, c))
  BY <1>3, <1>6, <1>8
<1>9. CASE /\ ~(s.op = "similar" /\ o.note = 0) /\ ~((~whole[s.file] /\ s.file # "code") \/ Refuses(s, c))
           /\ NothingToSave(p, s, c)
  BY <1>4, <1>6, <1>9
<1>10. CASE /\ ~(s.op = "similar" /\ o.note = 0) /\ ~((~whole[s.file] /\ s.file # "code") \/ Refuses(s, c))
            /\ ~NothingToSave(p, s, c)
  <2>1. goes
    BY <1>6, <1>10
  <2> QED
    BY <1>5, <1>10, <2>1
<1> QED
  BY <1>7, <1>8, <1>9, <1>10

LEMMA ResolveStep ==
    ASSUME WorkInv, NEW p \in Procs, ResolveLines(p)
    PROVE  WorkInv'
<1> DEFINE o == proc[p]
           at == FindSymbol(Loaded("code"), Now(p).subject.symbol)
<1>1. ProcIs(o) /\ Sound(o) /\ Updates(p) /\ o.stage = "loaded"
  BY DEF WorkInv, Shapes, ResolveLines
<1>2. /\ content' = content /\ packs' = packs /\ log' = log /\ lost' = lost /\ done' = done
      /\ whole' = whole /\ budget' = budget /\ lost \subseteq Files /\ patches' = patches /\ trainer' = trainer
      /\ whole \in [Files -> BOOLEAN] /\ DOMAIN proc = Procs
      /\ budget \in [commands : 0..MaxCommands, crashes : 0..MaxCrashes]
  BY DEF ResolveLines, WorkInv, Shapes
<1>3. CASE Raises(p)
  BY <1>2, <1>3, RaiseStep
<1>4. CASE at # <<0, 0>> /\ proc' = [proc EXCEPT ![p].stage = "resolved", ![p].at = at]
  <2>1. at \in Nat \X Nat
    <3>1. PICK code : code = Loaded("code")
      OBVIOUS
    <3>2. code \in Seq(Lines)
      <4>1. Good("code", content["code"])
        BY DEF WorkInv, Files
      <4>2. CASE whole["code"]
        BY <3>1, <4>1, <4>2 DEF Loaded, Good
      <4>3. CASE ~whole["code"]
        <5>1. code = <<>>
          BY <3>1, <4>3 DEF Loaded
        <5> QED
          BY <5>1
      <4> QED
        BY <4>2, <4>3
    <3> QED
      BY <3>1, <3>2, SymbolIsFound
  <2>2. PICK r : r = [o EXCEPT !.stage = "resolved", !.at = at]
    OBVIOUS
  <2> HIDE DEF at
  <2>3. /\ ProcIs(r) /\ r.todo = o.todo /\ r.note = o.note /\ r.row = o.row /\ r.raced = o.raced
        /\ r.stage = "resolved" /\ r.copy = o.copy
    BY <1>1, <2>1, <2>2 DEF ProcIs
  <2>4. CopyIsGood(r)
    BY <1>1, <2>3 DEF Sound, CopyIsGood, Acting
  <2>5. proc' = [proc EXCEPT ![p] = r]
    BY <1>2, <1>4, <2>2
  <2> QED
    BY <1>1, <1>2, <2>3, <2>4, <2>5, StageStep
<1> QED
  BY <1>3, <1>4 DEF ResolveLines

LEMMA OpenStep ==
    ASSUME WorkInv, NEW p \in Procs, Open(p)
    PROVE  WorkInv'
<1> DEFINE o == proc[p]
<1>1. ProcIs(o) /\ Sound(o) /\ Updates(p) /\ o.stage # "next" /\ DOMAIN proc = Procs
  BY DEF WorkInv, Shapes, Open
<1>2. PICK r : r = [o EXCEPT !.stage = "open"]
  OBVIOUS
<1>3. /\ ProcIs(r) /\ r.todo = o.todo /\ r.note = o.note /\ r.row = o.row /\ r.raced = o.raced
      /\ r.stage = "open" /\ r.copy = o.copy
  BY <1>1, <1>2 DEF ProcIs
<1>4. CopyIsGood(r)
  BY <1>1, <1>3 DEF Sound, CopyIsGood, Acting
<1>5. proc' = [proc EXCEPT ![p] = r]
  BY <1>1, <1>2 DEF Open
<1>6. whole' \in [Files -> BOOLEAN]
  BY DEF Open, WorkInv, Shapes
<1> QED
  BY <1>1, <1>3, <1>4, <1>5, <1>6, StageStep DEF Open

LEMMA CrashStep ==
    ASSUME WorkInv, NEW p \in Procs, Crash(p)
    PROVE  WorkInv'
<1>1. PICK n \in Nat, m \in Nat : n = budget.crashes /\ m = budget.commands /\ n < MaxCrashes /\ m <= MaxCommands
  BY WorkspaceConstants DEF WorkInv, Shapes, Crash
<1>2. budget' = [commands |-> m, crashes |-> n + 1]
  BY <1>1 DEF WorkInv, Shapes, Crash
<1>3. budget' \in [commands : 0..MaxCommands, crashes : 0..MaxCrashes] /\ budget'.commands = budget.commands
  BY <1>1, <1>2, WorkspaceConstants
<1>4. proc[p].stage = "open" => Now(p).file \in Files
  <2>1. ASSUME proc[p].stage = "open" PROVE Now(p).file \in Files
    <3>1. Acting(proc[p]) /\ Now(p).file \notin {"log", "pack"} /\ ProcIs(proc[p])
      BY <2>1 DEF WorkInv, Shapes, Sound, CopyIsGood, Now
    <3>2. Now(p) \in AllSteps
      BY <3>1, Tails DEF ProcIs, Acting, Now
    <3> QED
      BY <3>1, <3>2, StepForms
  <2> QED
    BY <2>1
<1>5. lost \subseteq lost' /\ lost' \subseteq Files
  BY <1>4 DEF Crash, WorkInv, Shapes
<1> QED
  BY <1>3, <1>5, RaiseStep DEF Crash

(* The trainer writes the log only.                                        *)
LEMMA TrainerStep ==
    ASSUME WorkInv, Evaluate \/ Train \/ CooldownPasses \/ UNCHANGED vars
    PROVE  WorkInv'
<1>1. /\ content' = content /\ packs' = packs /\ lost' = lost /\ done' = done /\ proc' = proc
      /\ whole' = whole /\ budget' = budget /\ (log' = log \/ log' = log \cup {<<"training", TrainingStatus>>})
  BY DEF Evaluate, Train, CooldownPasses, vars
<1>2. Known' = Known /\ Made' = Made
  BY <1>1 DEF Known, Has, Made
<1>3. LogIsTrue'
  <2>1. \A e \in log' : e \in log \/ e[1] = "training"
    BY <1>1
  <2> QED
    BY <1>1, <1>2, <2>1 DEF WorkInv, LogIsTrue, FactKinds
<1>4. ASSUME NEW f \in Files PROVE Good(f, content[f])'
  <2>1. Good(f, content[f])
    BY DEF WorkInv
  <2> QED
    BY <1>1, <1>2, <2>1 DEF Good, IsRun, DirectiveRows
<1>5. ASSUME NEW p \in Procs PROVE Sound(proc[p])'
  <2>1. PICK r : r = proc[p]
    OBVIOUS
  <2>2. Sound(r) /\ ProcIs(r)
    BY <2>1 DEF WorkInv, Shapes
  <2>3. Grown
    BY <1>1, QuietGrows DEF WorkInv, Shapes
  <2>4. Sound(r)'
    BY <1>1, <2>2, <2>3, OtherIsSound
  <2> QED
    BY <1>1, <2>1, <2>4
<1>6. NewItems'
  BY <1>1, <1>2 DEF WorkInv, NewItems, ItemsAreNew
<1>7. BootsAreNumbered' /\ RowsAreOne' /\ UpdatesSurvive' /\ Shapes'
  BY <1>1 DEF WorkInv, Shapes, BootsAreNumbered, RowsAreOne, UpdatesSurvive
<1> QED
  BY <1>3, <1>4, <1>5, <1>6, <1>7 DEF WorkInv
-----------------------------------------------------------------------------
(* What an update s makes of the copy c, by the process of record r.       *)

Writing(s, c, r) ==
    /\ s \in AllSteps /\ s.file \in Files /\ s.op \notin Reads /\ ProcIs(r)
    /\ Good(s.file, c) /\ ~Refuses(s, c)
    /\ s.op = "similar" =>
          r.note \in Ids0 /\ r.note # 0 /\ <<"fix", r.note>> \in Known /\ <<r.note, s.subject>> \notin c
    /\ s.op = "add" /\ s.file = "edges" => <<s.subject, s.value>> \notin c
    /\ s.op = "append" /\ "state" \notin lost => r.note <= content["state"].boots /\ r.note \notin Range(c)
    /\ s.op = "upsert" /\ ~r.raced => Count(r.row) = Count(content["consensus"][s.subject]) + 1
    /\ \A kind \in FactKinds, id \in Ids0 : Asks(s, kind, id) => <<kind, id>> \in Known
    /\ \A kind \in NewKinds, id \in Ids : Brings(s, kind, id) =>
          id \in Made /\ (Home(kind) \in lost \/ ~Has(kind, id, content[Home(kind)]))
    /\ ~r.raced /\ s.file # "code" => c = content[s.file]

Result(s, c, r, new) ==
    /\ s.op = "register" => new = RegisterDirective(c, s.subject, s.value)
    /\ s.op = "complete" => new = CompleteDirective(c, s.subject, s.value)
    /\ s.op = "outcome" => new = RecordOutcome(c, s.subject)
    /\ s.op = "notes" => new = UpsertTrust(c)
    /\ s.op = "record" => new = RecordCurriculum(c, s.subject, s.value)
    /\ s.op = "boot" => new = BootState(c, s.subject)
    /\ s.op = "heartbeat" => new = Heartbeat(c, s.subject)
    /\ s.op = "append" => new = Append(c, r.note)
    /\ s.op = "add" /\ s.file = "fixes" => new = c \cup {s.subject}
    /\ s.op = "add" /\ s.file = "edges" => new = AddEdge(c, s.subject, s.value)
    /\ s.op = "similar" => new = AddEdge(c, r.note, s.subject)
    /\ s.op = "upsert" => new = [c EXCEPT ![s.subject] = r.row]
    /\ s.op = "embed" => new = EmbedRow(c, s.subject)
    /\ s.op = "sync" => new = SyncRow(c, s.subject, s.value)
    /\ s.op = "patch" => new = AddPatch(c, s.subject, s.value.path, s.value.result = "ok")
    /\ s.op = "candidates" => new = AddCandidates(c, s.subject)
    /\ s.op = "scores" => new = SetScores(c)
    /\ s.op = "fault" => new = AddFault(c, s.subject)
    /\ s.op = "profile" => new = RegisterProfile(c, s.subject, s.value)
    /\ s.op = "activate" => new = [c EXCEPT !.active = s.subject]
    /\ s.file = "code" => \E lo, hi \in Nat : new = Replace(c, lo, hi, s.subject.text)

(* What the file keeps and what it gets.                                   *)
Effect(s, c, new) ==
    /\ Good(s.file, new)
    /\ \A kind \in NewKinds \cup {"directive", "fix"}, id \in Ids0 :
          Home(kind) = s.file /\ Has(kind, id, c) => Has(kind, id, new)
    /\ \A kind \in NewKinds, id \in Ids :
          Home(kind) = s.file /\ Has(kind, id, new) => Has(kind, id, c) \/ Brings(s, kind, id)
    /\ \A kind \in FactKinds, id \in Ids0 :
          Gives(s, kind, id) => Home(kind) = s.file /\ kind # "pack" /\ Has(kind, id, new)
    /\ s.file = "trust" => Count(c) \in Nat /\ Count(new) \in Nat /\ Count(c) <= Count(new)
    /\ s.file = "state" => c.boots \in Nat /\ new.boots \in Nat /\ c.boots <= new.boots
    /\ s.file = "boots" => Range(c) \subseteq Range(new)

Counted(s, c, new) ==
    /\ Size(s.file, c) \in Nat
    /\ Size(s.file, new) = Size(s.file, c) + (IF s.op \in Adds THEN 1 ELSE 0)

\* The file is as the process has read it.
Fresh(s, r) == ~r.raced /\ s.file \notin lost

LEMMA MadeIsFinite ==
    ASSUME WorkInv
    PROVE  IsFiniteSet(Made) /\ Made \subseteq Ids
<1>1. PICK n \in Nat : n = budget.commands /\ n <= MaxCommands
  BY WorkspaceConstants DEF WorkInv, Shapes
<1>2. IsFiniteSet(1..(n + 1))
  <2>1. PICK m \in Int : m = n + 1
    OBVIOUS
  <2>2. IsFiniteSet(1..m)
    BY FS_Interval
  <2> QED
    BY <2>1, <2>2
<1>3. 1..(n + 1) \subseteq 1..(MaxCommands + 1)
  BY <1>1, WorkspaceConstants
<1> QED
  BY <1>1, <1>2, <1>3 DEF Made, Ids

LEMMA TrustEffect ==
    ASSUME NEW s, NEW c, NEW r, NEW new, Writing(s, c, r), Result(s, c, r, new), s.file = "trust"
    PROVE  Effect(s, c, new) /\ (Fresh(s, r) => Counted(s, c, new))
<1>1. (s.op = "outcome" /\ s.subject \in BOOLEAN) \/ s.op = "notes"
  BY DEF Writing, AllSteps, LogSteps, LedgerSteps, FixSteps, RunSteps, CodeSteps, StepOf, Reads
<1>2. PICK ok \in Nat, bad \in Nat : ok = c.ok /\ bad = c.bad
  BY DEF Writing, Good
<1>3. \E a \in Nat, b \in Nat :
         /\ a = new.ok /\ b = new.bad
         /\ a + b = ok + bad + (IF s.op \in Adds THEN 1 ELSE 0)
  <2>1. CASE s.op = "outcome" /\ s.subject \in BOOLEAN
    <3>1. PICK a \in Nat : a = ok + (IF s.subject THEN 1 ELSE 0)
      OBVIOUS
    <3>2. PICK b \in Nat : b = bad + (IF s.subject THEN 0 ELSE 1)
      OBVIOUS
    <3>3. new.ok = a /\ new.bad = b
      BY <1>2, <2>1, <3>1, <3>2 DEF Result, RecordOutcome
    <3>4. a + b = ok + bad + 1
      BY <2>1, <3>1, <3>2
    <3> QED
      BY <2>1, <3>3, <3>4 DEF Adds
  <2>2. CASE s.op = "notes"
    BY <1>2, <2>2 DEF Result, UpsertTrust, Adds
  <2> QED
    BY <1>1, <2>1, <2>2
<1>4. PICK a \in Nat, b \in Nat :
         /\ a = new.ok /\ b = new.bad
         /\ a + b = ok + bad + (IF s.op \in Adds THEN 1 ELSE 0)
  BY <1>3
<1>5. Good("trust", new)
  BY <1>4 DEF Good
<1>6. Count(c) = ok + bad /\ Count(new) = a + b
  BY <1>2, <1>4 DEF Count
<1>7. Effect(s, c, new)
  BY <1>1, <1>4, <1>5, <1>6 DEF Effect, Home, Gives
<1>8. Size("trust", c) = ok + bad /\ Size("trust", new) = a + b
  BY <1>2, <1>4 DEF Size
<1> QED
  BY <1>4, <1>7, <1>8 DEF Counted

LEMMA CurriculumEffect ==
    ASSUME NEW s, NEW c, NEW r, NEW new, Writing(s, c, r), Result(s, c, r, new), s.file = "curriculum"
    PROVE  Effect(s, c, new) /\ (Fresh(s, r) => Counted(s, c, new))
<1>1. s.op = "record"
  BY DEF Writing, AllSteps, LogSteps, LedgerSteps, FixSteps, RunSteps, CodeSteps, StepOf, Reads
<1>2. PICK n \in Nat : n = c.seen
  BY DEF Writing, Good
<1>3. new.seen = n + 1
  BY <1>1, <1>2 DEF Result, RecordCurriculum
<1>4. Good("curriculum", new)
  BY <1>3 DEF Good
<1>5. Effect(s, c, new)
  BY <1>1, <1>4 DEF Effect, Home, Gives
<1>6. Size("curriculum", c) = n /\ Size("curriculum", new) = n + 1
  BY <1>2, <1>3 DEF Size
<1> QED
  BY <1>1, <1>5, <1>6 DEF Counted, Adds

LEMMA StateEffect ==
    ASSUME NEW s, NEW c, NEW r, NEW new, Writing(s, c, r), Result(s, c, r, new), s.file = "state"
    PROVE  /\ Effect(s, c, new) /\ (Fresh(s, r) => Counted(s, c, new))
           /\ new.boots = c.boots + (IF s.op = "boot" THEN 1 ELSE 0)
<1>1. s.op \in {"boot", "heartbeat"}
  BY DEF Writing, AllSteps, LogSteps, LedgerSteps, FixSteps, RunSteps, CodeSteps, StepOf, Reads
<1>2. PICK n \in Nat : n = c.boots /\ c = [boots |-> n, mode |-> c.mode]
  BY DEF Writing, Good
<1>3. PICK m \in Nat : m = n + (IF s.op = "boot" THEN 1 ELSE 0)
  OBVIOUS
<1>4. new = [boots |-> m, mode |-> s.subject]
  <2>1. CASE s.op = "boot"
    BY <1>2, <1>3, <2>1 DEF Result, BootState
  <2>2. CASE s.op = "heartbeat"
    <3>1. new = [c EXCEPT !.mode = s.subject]
      BY <2>2 DEF Result, Heartbeat
    <3> QED
      BY <1>2, <1>3, <2>2, <3>1
  <2> QED
    BY <1>1, <2>1, <2>2
<1>5. Good("state", new)
  BY <1>4 DEF Good
<1>6. Effect(s, c, new)
  BY <1>1, <1>2, <1>3, <1>4, <1>5 DEF Effect, Home, Gives
<1>7. Size("state", c) = n /\ Size("state", new) = m
  BY <1>2, <1>4 DEF Size
<1> QED
  BY <1>1, <1>2, <1>3, <1>4, <1>6, <1>7 DEF Counted, Adds

LEMMA BootsEffect ==
    ASSUME NEW s, NEW c, NEW r, NEW new, Writing(s, c, r), Result(s, c, r, new), s.file = "boots"
    PROVE  /\ Effect(s, c, new) /\ (Fresh(s, r) => Counted(s, c, new))
           /\ s.op = "append" /\ r.note \in Range(new) /\ Range(new) = Range(c) \cup {r.note}
<1>1. s.op = "append"
  BY DEF Writing, AllSteps, LogSteps, LedgerSteps, FixSteps, RunSteps, CodeSteps, StepOf, Reads
<1>2. c \in Seq(Nat) /\ r.note \in Nat /\ new = Append(c, r.note)
  BY <1>1 DEF Writing, Good, ProcIs, Result
<1>3. PICK n \in Nat : n = Len(c) /\ DOMAIN c = 1..n
  BY <1>2, LenProperties
<1>4. /\ new \in Seq(Nat) /\ DOMAIN new = 1..(n + 1) /\ Len(new) = n + 1
      /\ \A i \in 1..n : new[i] = c[i]
      /\ new[n + 1] = r.note
  BY <1>2, <1>3, AppendProperties
<1>5. Range(new) = Range(c) \cup {r.note}
  <2>1. n + 1 \in 1..(n + 1) /\ \A i \in 1..(n + 1) : i = n + 1 \/ i \in 1..n
    OBVIOUS
  <2>2. 1..n \subseteq 1..(n + 1)
    OBVIOUS
  <2> QED
    BY <1>3, <1>4, <2>1, <2>2 DEF Range
<1>6. ASSUME "state" \notin lost
      PROVE  IsInjective(new) /\ \A i \in DOMAIN new : new[i] <= content["state"].boots
  <2>1. /\ IsInjective(c) /\ \A i \in 1..n : c[i] <= content["state"].boots
        /\ r.note <= content["state"].boots /\ r.note \notin Range(c)
    BY <1>1, <1>3, <1>6 DEF Writing, Good
  <2>2. \A i \in 1..n : c[i] # r.note
    BY <1>3, <2>1 DEF Range
  <2>3. \A i \in 1..(n + 1) : i = n + 1 \/ i \in 1..n
    OBVIOUS
  <2>4. IsInjective(new)
    <3> SUFFICES ASSUME NEW i \in 1..(n + 1), NEW j \in 1..(n + 1), new[i] = new[j] PROVE i = j
      BY <1>4 DEF IsInjective
    <3>1. \A x, y \in 1..n : c[x] = c[y] => x = y
      BY <1>3, <2>1 DEF IsInjective
    <3> QED
      BY <1>4, <2>2, <2>3, <3>1
  <2> QED
    BY <1>4, <2>1, <2>3, <2>4
<1>7. Good("boots", new)
  BY <1>4, <1>6 DEF Good
<1>8. Effect(s, c, new)
  BY <1>1, <1>5, <1>7 DEF Effect, Home, Gives
<1>9. Size("boots", c) = n /\ Size("boots", new) = n + 1
  BY <1>3, <1>4 DEF Size
<1> QED
  BY <1>1, <1>5, <1>8, <1>9 DEF Counted, Adds
(* One more use of a fix is one more in the set of uses.                   *)
LEMMA OneMoreUse ==
    ASSUME NEW rows \in [Ids -> Rows], IsFiniteSet(Uses(rows)), NEW id \in Ids, NEW row \in Rows
    PROVE  LET new == [rows EXCEPT ![id] = row] IN
           /\ new \in [Ids -> Rows] /\ IsFiniteSet(Uses(new))
           /\ Count(row) = Count(rows[id]) + 1 =>
                 Cardinality(Uses(new)) = Cardinality(Uses(rows)) + 1
<1> DEFINE new == [rows EXCEPT ![id] = row]
<1>1. new \in [Ids -> Rows] /\ new[id] = row /\ \A x \in Ids : x # id => new[x] = rows[x]
  OBVIOUS
<1>2. \A x \in Rows : Count(x) \in Nat /\ Count(x) = x.ok + x.bad
  BY DEF Count, Rows
<1> HIDE DEF new
<1>3. ASSUME NEW v \in [Ids -> Rows], NEW u
      PROVE  u \in Uses(v) <=> \E x \in Ids : \E n \in 1..Count(v[x]) : u = <<x, n>>
  <2>1. u \in Uses(v) <=> \E x \in Ids : u \in {x} \X (1..(v[x].ok + v[x].bad))
    BY DEF Uses
  <2>2. \A x \in Ids : v[x].ok + v[x].bad = Count(v[x])
    BY DEF Count
  <2> QED
    BY <2>1, <2>2
<1>4. IsFiniteSet(Uses(new))
  <2>1. IsFiniteSet({id} \X (1..Count(row)))
    <3>1. PICK k \in Int : k = Count(row)
      BY <1>2
    <3>2. IsFiniteSet(1..k)
      BY FS_Interval
    <3>3. IsFiniteSet({id})
      BY FS_Singleton
    <3> QED
      BY <3>1, <3>2, <3>3, FS_Product
  <2>2. IsFiniteSet(Uses(rows) \cup ({id} \X (1..Count(row))))
    BY <2>1, FS_Union
  <2>3. ASSUME NEW u \in Uses(new) PROVE u \in Uses(rows) \cup ({id} \X (1..Count(row)))
    <3>1. PICK x \in Ids, n \in Nat : n \in 1..Count(new[x]) /\ u = <<x, n>>
      BY <1>1, <1>3
    <3>2. CASE x = id
      BY <1>1, <3>1, <3>2
    <3>3. CASE x # id
      BY <1>1, <1>3, <3>1, <3>3
    <3> QED
      BY <3>2, <3>3
  <2> QED
    BY <2>2, <2>3, FS_Subset
<1>5. ASSUME Count(row) = Count(rows[id]) + 1
      PROVE  Cardinality(Uses(new)) = Cardinality(Uses(rows)) + 1
  <2>1. PICK k \in Nat : k = Count(rows[id]) /\ Count(row) = k + 1
    BY <1>2, <1>5
  <2>2. <<id, k + 1>> \notin Uses(rows)
    <3> SUFFICES ASSUME <<id, k + 1>> \in Uses(rows) PROVE FALSE
      OBVIOUS
    <3>1. PICK x \in Ids, n \in Nat : n \in 1..Count(rows[x]) /\ <<id, k + 1>> = <<x, n>>
      BY <1>3
    <3>2. k + 1 \in 1..k
      BY <2>1, <3>1
    <3> QED
      BY <3>2
  <2>3. ASSUME NEW u PROVE u \in Uses(new) <=> u \in Uses(rows) \cup {<<id, k + 1>>}
    <3>1. \A n : n \in 1..(k + 1) <=> n \in 1..k \/ n = k + 1
      BY <2>1
    <3>2. ASSUME u \in Uses(new) PROVE u \in Uses(rows) \cup {<<id, k + 1>>}
      <4>1. PICK x \in Ids, n \in Nat : n \in 1..Count(new[x]) /\ u = <<x, n>>
        BY <1>1, <1>3, <3>2
      <4>2. CASE x = id
        <5>1. n \in 1..k \/ n = k + 1
          BY <1>1, <2>1, <3>1, <4>1, <4>2
        <5> QED
          BY <1>3, <2>1, <4>1, <4>2, <5>1
      <4>3. CASE x # id
        BY <1>1, <1>3, <4>1, <4>3
      <4> QED
        BY <4>2, <4>3
    <3>3. ASSUME u \in Uses(rows) PROVE u \in Uses(new)
      <4>1. PICK x \in Ids, n \in Nat : n \in 1..Count(rows[x]) /\ u = <<x, n>>
        BY <1>3, <3>3
      <4>2. n \in 1..Count(new[x])
        BY <1>1, <2>1, <3>1, <4>1
      <4> QED
        BY <1>1, <1>3, <4>1, <4>2
    <3>4. <<id, k + 1>> \in Uses(new)
      <4>1. k + 1 \in 1..Count(new[id])
        BY <1>1, <2>1, <3>1
      <4> QED
        BY <1>1, <1>3, <4>1
    <3> QED
      BY <3>2, <3>3, <3>4
  <2>4. Uses(new) = Uses(rows) \cup {<<id, k + 1>>}
    BY <2>3
  <2> QED
    BY <2>2, <2>4, FS_AddElement
<1> QED
  BY <1>1, <1>4, <1>5 DEF new

LEMMA ConsensusEffect ==
    ASSUME NEW s, NEW c, NEW r, NEW new, Writing(s, c, r), Result(s, c, r, new), s.file = "consensus"
    PROVE  Effect(s, c, new) /\ (Fresh(s, r) => Counted(s, c, new))
<1>1. s.op = "upsert" /\ s.subject \in Ids
  BY DEF Writing, AllSteps, LogSteps, LedgerSteps, FixSteps, RunSteps, CodeSteps, StepOf, Reads
<1>2. c \in [Ids -> Rows] /\ IsFiniteSet(Uses(c)) /\ r.row \in Rows
  BY DEF Writing, Good, ProcIs
<1>3. new = [c EXCEPT ![s.subject] = r.row]
  BY <1>1 DEF Result
<1>4. /\ new \in [Ids -> Rows] /\ IsFiniteSet(Uses(new))
      /\ Count(r.row) = Count(c[s.subject]) + 1 => Cardinality(Uses(new)) = Cardinality(Uses(c)) + 1
  BY <1>1, <1>2, <1>3, OneMoreUse
<1>5. Good("consensus", new)
  BY <1>4 DEF Good
<1>6. Effect(s, c, new)
  BY <1>1, <1>5 DEF Effect, Home, Gives
<1>7. Size("consensus", c) = Cardinality(Uses(c)) /\ Size("consensus", new) = Cardinality(Uses(new))
  BY DEF Size
<1>8. Fresh(s, r) => Count(r.row) = Count(c[s.subject]) + 1
  BY <1>1 DEF Fresh, Writing
<1>9. Cardinality(Uses(c)) \in Nat
  BY <1>2, FS_CardinalityType
<1> QED
  BY <1>1, <1>4, <1>6, <1>7, <1>8, <1>9 DEF Counted, Adds

LEMMA IndexEffect ==
    ASSUME NEW s, NEW c, NEW r, NEW new, Writing(s, c, r), Result(s, c, r, new), s.file = "index"
    PROVE  Effect(s, c, new)
<1>1. (s.op = "embed" /\ s.subject \in Ids0) \/ (s.op = "sync" /\ s.subject \in Ids /\ s.value \in {"live", "retired"})
  BY DEF Writing, AllSteps, LogSteps, LedgerSteps, FixSteps, RunSteps, CodeSteps, StepOf, Reads
<1>2. c \in [Ids -> IndexRows] /\ \A id \in Ids : c[id] # "absent" => id \in packs
  BY DEF Writing, Good
<1>3. s.subject \in Ids => s.subject \in packs
  <2>1. CASE s.op = "embed"
    <3>1. Asks(s, "pack", s.subject) /\ "pack" \in FactKinds
      BY <2>1 DEF Asks, FactKinds
    <3>2. <<"pack", s.subject>> \in Known
      BY <1>1, <2>1, <3>1 DEF Writing
    <3> QED
      BY <3>2 DEF Known
  <2>2. CASE s.op = "sync"
    <3>1. c[s.subject] # "absent"
      BY <2>2 DEF Writing, Refuses
    <3> QED
      BY <1>2, <3>1
  <2> QED
    BY <1>1, <2>1, <2>2
<1>4. PICK row \in IndexRows : new = [c EXCEPT ![s.subject] = row]
  BY <1>1 DEF Result, EmbedRow, SyncRow, IndexRows
<1>5. new \in [Ids -> IndexRows] /\ \A id \in Ids : new[id] = c[id] \/ (id = s.subject)
  BY <1>2, <1>4
<1>6. Good("index", new)
  BY <1>2, <1>3, <1>5 DEF Good
<1> QED
  BY <1>1, <1>6 DEF Effect, Home, Gives

LEMMA EdgesEffect ==
    ASSUME NEW s, NEW c, NEW r, NEW new, Writing(s, c, r), Result(s, c, r, new), s.file = "edges"
    PROVE  Effect(s, c, new) /\ (Fresh(s, r) => Counted(s, c, new))
<1>1. \/ s.op = "add" /\ s.subject \in Ids /\ s.value \in Ids
      \/ s.op = "similar" /\ s.subject \in Ids
  BY DEF Writing, AllSteps, LogSteps, LedgerSteps, FixSteps, RunSteps, CodeSteps, StepOf, Reads
<1>2. PICK x \in Ids, y \in Ids :
         new = c \cup {<<x, y>>} /\ <<x, y>> \notin c /\ <<"fix", x>> \in Known /\ <<"fix", y>> \in Known
  <2>1. CASE s.op = "add" /\ s.subject \in Ids /\ s.value \in Ids
    <3>1. Asks(s, "fix", s.subject) /\ Asks(s, "fix", s.value) /\ "fix" \in FactKinds
      BY <2>1 DEF Asks, FactKinds
    <3>2. <<"fix", s.subject>> \in Known /\ <<"fix", s.value>> \in Known
      BY <2>1, <3>1 DEF Writing, Ids0
    <3>3. new = c \cup {<<s.subject, s.value>>} /\ <<s.subject, s.value>> \notin c
      BY <2>1 DEF Result, AddEdge, Writing
    <3> QED
      BY <2>1, <3>2, <3>3
  <2>2. CASE s.op = "similar" /\ s.subject \in Ids
    <3>1. Asks(s, "fix", s.subject) /\ "fix" \in FactKinds
      BY <2>2 DEF Asks, FactKinds
    <3>2. <<"fix", s.subject>> \in Known /\ <<"fix", r.note>> \in Known /\ r.note \in Ids
      BY <2>2, <3>1 DEF Writing, Ids0
    <3>3. new = c \cup {<<r.note, s.subject>>} /\ <<r.note, s.subject>> \notin c
      BY <2>2 DEF Result, AddEdge, Writing
    <3> QED
      BY <2>2, <3>2, <3>3
  <2> QED
    BY <1>1, <2>1, <2>2
<1>3. c \subseteq Ids \X Ids /\ IsFiniteSet(c) /\ ("fixes" \notin lost => c \subseteq content["fixes"] \X content["fixes"])
  BY DEF Writing, Good
<1>4. "fixes" \notin lost => x \in content["fixes"] /\ y \in content["fixes"]
  BY <1>2 DEF Known, Home, Has
<1>5. /\ new \subseteq Ids \X Ids /\ IsFiniteSet(new) /\ Cardinality(new) = Cardinality(c) + 1
      /\ "fixes" \notin lost => new \subseteq content["fixes"] \X content["fixes"]
  BY <1>2, <1>3, <1>4, FS_AddElement
<1>6. Good("edges", new)
  BY <1>5 DEF Good
<1>7. Effect(s, c, new)
  BY <1>1, <1>6 DEF Effect, Home, Gives
<1>8. Size("edges", c) = Cardinality(c) /\ Size("edges", new) = Cardinality(c) + 1 /\ Cardinality(c) \in Nat
  BY <1>3, <1>5, FS_CardinalityType DEF Size
<1> QED
  BY <1>1, <1>7, <1>8 DEF Counted, Adds

LEMMA FixesEffect ==
    ASSUME NEW s, NEW c, NEW r, NEW new, Writing(s, c, r), Result(s, c, r, new), s.file = "fixes"
    PROVE  Effect(s, c, new) /\ (Fresh(s, r) => Counted(s, c, new))
<1>1. s.op = "add" /\ s.subject \in Ids
  BY DEF Writing, AllSteps, LogSteps, LedgerSteps, FixSteps, RunSteps, CodeSteps, StepOf, Reads
<1>2. Brings(s, "add", s.subject) /\ "add" \in NewKinds
  BY <1>1 DEF Brings, NewKinds
<1>3. s.subject \in Made /\ ("fixes" \in lost \/ s.subject \notin content["fixes"])
  BY <1>1, <1>2 DEF Writing, Home, Has
<1>4. c \subseteq Made /\ IsFiniteSet(c) /\ new = c \cup {s.subject}
  BY <1>1 DEF Writing, Good, Result
<1>5. /\ new \subseteq Made /\ IsFiniteSet(new)
      /\ s.subject \notin c => Cardinality(new) = Cardinality(c) + 1
  BY <1>3, <1>4, FS_AddElement
<1>6. Good("fixes", new)
  BY <1>5 DEF Good
<1>7. Effect(s, c, new)
  <2>1. \A kind, id : Home(kind) = "fixes" => kind \in {"add", "fix"} /\ (Has(kind, id, c) <=> id \in c)
                                            /\ (Has(kind, id, new) <=> id \in c \/ id = s.subject)
    BY <1>4 DEF Home, Has
  <2>2. \A kind \in FactKinds : \A id : Gives(s, kind, id) => kind = "fix" /\ id = s.subject
    BY <1>1 DEF Gives
  <2>3. Home("fix") = "fixes"
    BY DEF Home
  <2>4. "fix" \notin NewKinds
    BY DEF NewKinds
  <2>5. \A id : Brings(s, "add", id) <=> id = s.subject
    BY <1>1 DEF Brings
  <2> QED
    BY <1>6, <2>1, <2>2, <2>3, <2>4, <2>5 DEF Effect
<1>8. Size("fixes", c) = Cardinality(c) /\ Size("fixes", new) = Cardinality(new) /\ Cardinality(c) \in Nat
  BY <1>4, FS_CardinalityType DEF Size
<1>9. Fresh(s, r) => s.subject \notin c
  BY <1>3 DEF Fresh, Writing
<1> QED
  BY <1>1, <1>5, <1>7, <1>8, <1>9 DEF Counted, Adds

LEMMA ProfilesEffect ==
    ASSUME WorkInv, NEW s, NEW c, NEW r, NEW new, Writing(s, c, r), Result(s, c, r, new), s.file = "profiles"
    PROVE  Effect(s, c, new) /\ (Fresh(s, r) => Counted(s, c, new))
<1>1. (s.op = "profile" /\ s.subject \in Ids) \/ (s.op = "activate" /\ s.subject \in Ids0)
  BY DEF Writing, AllSteps, LogSteps, LedgerSteps, FixSteps, RunSteps, CodeSteps, StepOf, Reads
<1>2. c = [active |-> c.active, names |-> c.names] /\ c.names \subseteq Made /\ c.active \in c.names
  BY DEF Writing, Good
<1>3. IsFiniteSet(c.names)
  <2>1. IsFiniteSet(Made)
    BY MadeIsFinite
  <2> QED
    BY <1>2, <2>1, FS_Subset
<1>4. CASE s.op = "profile" /\ s.subject \in Ids
  <2>1. Brings(s, "profile", s.subject) /\ "profile" \in NewKinds
    BY <1>4 DEF Brings, NewKinds
  <2>2. s.subject \in Made /\ ("profiles" \in lost \/ s.subject \notin content["profiles"].names)
    BY <1>4, <2>1 DEF Writing, Home, Has
  <2>3. PICK active \in c.names \cup {s.subject} : new = [active |-> active, names |-> c.names \cup {s.subject}]
    BY <1>2, <1>4 DEF Result, RegisterProfile
  <2>4. Good("profiles", new)
    BY <1>2, <2>2, <2>3 DEF Good
  <2>5. Effect(s, c, new)
    BY <1>4, <2>3, <2>4 DEF Effect, Home, Gives, Has, Brings
  <2>6. /\ Size("profiles", c) = Cardinality(c.names) /\ Cardinality(c.names) \in Nat
        /\ Size("profiles", new) = Cardinality(c.names \cup {s.subject})
    BY <1>3, <2>3, FS_CardinalityType DEF Size
  <2>7. Fresh(s, r) => s.subject \notin c.names
    BY <2>2 DEF Fresh, Writing
  <2>8. s.subject \notin c.names => Cardinality(c.names \cup {s.subject}) = Cardinality(c.names) + 1
    BY <1>3, FS_AddElement
  <2> QED
    BY <1>4, <2>5, <2>6, <2>7, <2>8 DEF Counted, Adds
<1>5. CASE s.op = "activate" /\ s.subject \in Ids0
  <2>1. s.subject \in c.names
    BY <1>5 DEF Writing, Refuses
  <2>2. new = [active |-> s.subject, names |-> c.names]
    <3>1. new = [c EXCEPT !.active = s.subject]
      BY <1>5 DEF Result
    <3> QED
      BY <1>2, <3>1
  <2>3. Good("profiles", new)
    BY <1>2, <2>1, <2>2 DEF Good
  <2>4. Effect(s, c, new)
    BY <1>5, <2>2, <2>3 DEF Effect, Home, Gives, Has, Brings
  <2>5. /\ Size("profiles", c) = Cardinality(c.names) /\ Cardinality(c.names) \in Nat
        /\ Size("profiles", new) = Cardinality(c.names)
    BY <1>3, <2>2, FS_CardinalityType DEF Size
  <2> QED
    BY <1>5, <2>4, <2>5 DEF Counted, Adds
<1> QED
  BY <1>1, <1>4, <1>5
(* Rows changed one by one, which keep their ids.                          *)
LEMMA RowsChanged ==
    ASSUME NEW rows, IsFiniteSet(rows), NEW f, f = [r \in rows |-> f[r]], \A r \in rows : f[r].id = r.id
    PROVE  LET image == {f[r] : r \in rows} IN
           /\ IsFiniteSet(image)
           /\ \A id : (\E r \in image : r.id = id) <=> (\E r \in rows : r.id = id)
           /\ (\A r, t \in rows : r.id = t.id => r = t) =>
                 /\ Cardinality(image) = Cardinality(rows)
                 /\ \A r, t \in image : r.id = t.id => r = t
<1> DEFINE image == {f[r] : r \in rows}
<1>1. f \in Surjection(rows, image)
  BY DEF Surjection
<1>2. IsFiniteSet(image)
  BY <1>1, FS_Surjection
<1>3. ASSUME \A r, t \in rows : r.id = t.id => r = t
      PROVE  Cardinality(image) = Cardinality(rows) /\ \A r, t \in image : r.id = t.id => r = t
  <2>1. f \in Injection(rows, image)
    BY <1>1, <1>3 DEF Injection, Surjection, IsInjective
  <2>2. Cardinality(image) = Cardinality(rows)
    BY <1>1, <2>1, FS_Surjection
  <2> QED
    BY <1>3, <2>2
<1> QED
  BY <1>2, <1>3

LEMMA DirectivesEffect ==
    ASSUME NEW s, NEW c, NEW r, NEW new, Writing(s, c, r), Result(s, c, r, new), s.file = "directives"
    PROVE  /\ Effect(s, c, new)
           /\ Fresh(s, r) /\ RowsAreOne =>
                 Counted(s, c, new) /\ \A x, y \in new : x.id = y.id => x = y
<1>1. \/ s.op = "register" /\ s.subject \in Ids /\ s.value \in Ids0
      \/ s.op = "complete" /\ s.subject \in Ids0 /\ s.value \in {"complete", "superseded"}
  BY DEF Writing, AllSteps, LogSteps, LedgerSteps, FixSteps, RunSteps, CodeSteps, StepOf, Reads
<1>2. c \subseteq DirectiveRows /\ IsFiniteSet(c)
  BY DEF Writing, Good
<1>3. Fresh(s, r) /\ RowsAreOne => \A x, y \in c : x.id = y.id => x = y
  BY DEF Fresh, RowsAreOne, Writing
<1>4. \A x \in DirectiveRows : /\ x.id \in Made /\ x.status \in {"active", "superseded", "complete"}
                               /\ x.supersedes \in Ids0
                               /\ x = [id |-> x.id, status |-> x.status, supersedes |-> x.supersedes]
  BY DEF DirectiveRows
<1>5. ASSUME NEW x \in DirectiveRows, NEW status \in {"active", "superseded", "complete"}
      PROVE  [x EXCEPT !.status = status] \in DirectiveRows /\ [x EXCEPT !.status = status].id = x.id
  <2>1. [x EXCEPT !.status = status] = [id |-> x.id, status |-> status, supersedes |-> x.supersedes]
    BY <1>4
  <2> QED
    BY <1>4, <2>1 DEF DirectiveRows
<1>6. CASE s.op = "complete" /\ s.subject \in Ids0 /\ s.value \in {"complete", "superseded"}
  <2> DEFINE f == [x \in c |-> IF x.id = s.subject THEN [x EXCEPT !.status = s.value] ELSE x]
  <2>1. new = {f[x] : x \in c}
    BY <1>6 DEF Result, CompleteDirective
  <2>2. \A x \in c : f[x] \in DirectiveRows /\ f[x].id = x.id
    BY <1>2, <1>5, <1>6
  <2>3. f = [x \in c |-> f[x]]
    OBVIOUS
  <2> HIDE DEF f
  <2>4. /\ IsFiniteSet(new)
        /\ \A id : (\E x \in new : x.id = id) <=> (\E x \in c : x.id = id)
        /\ (\A x, y \in c : x.id = y.id => x = y) =>
              /\ Cardinality(new) = Cardinality(c)
              /\ \A x, y \in new : x.id = y.id => x = y
    BY <1>2, <2>1, <2>2, <2>3, RowsChanged
  <2>5. Good("directives", new)
    BY <2>1, <2>2, <2>4 DEF Good
  <2>6. \E x \in c : x.id = s.subject
    BY <1>6 DEF Writing, Refuses
  <2>7. Effect(s, c, new)
    BY <1>6, <2>4, <2>5, <2>6 DEF Effect, Home, Gives, Has, Brings
  <2>8. Size("directives", new) = Cardinality(new) /\ Size("directives", c) = Cardinality(c) /\ Cardinality(c) \in Nat
    BY <1>2, FS_CardinalityType DEF Size
  <2> QED
    BY <1>3, <1>6, <2>4, <2>7, <2>8 DEF Counted, Adds
<1>7. CASE s.op = "register" /\ s.subject \in Ids /\ s.value \in Ids0
  <2> DEFINE f == [x \in c |->
                     IF x.id = s.value /\ x.status = "active" THEN [x EXCEPT !.status = "superseded"] ELSE x]
             old == {f[x] : x \in c}
             row == [id |-> s.subject, status |-> "active", supersedes |-> s.value]
  <2>1. new = old \cup {row}
    BY <1>7 DEF Result, RegisterDirective
  <2>2. \A x \in c : f[x] \in DirectiveRows /\ f[x].id = x.id
    BY <1>2, <1>5
  <2>3. f = [x \in c |-> f[x]]
    OBVIOUS
  <2>4. Brings(s, "register", s.subject) /\ "register" \in NewKinds
    BY <1>7 DEF Brings, NewKinds
  <2>5. s.subject \in Made /\ ("directives" \in lost \/ \A x \in content["directives"] : x.id # s.subject)
    BY <1>7, <2>4 DEF Writing, Home, Has
  <2>6. row \in DirectiveRows /\ row.id = s.subject
    BY <1>7, <2>5 DEF DirectiveRows
  <2> HIDE DEF f, row
  <2>7. /\ IsFiniteSet(old)
        /\ \A id : (\E x \in old : x.id = id) <=> (\E x \in c : x.id = id)
        /\ (\A x, y \in c : x.id = y.id => x = y) =>
              /\ Cardinality(old) = Cardinality(c)
              /\ \A x, y \in old : x.id = y.id => x = y
    BY <1>2, <2>2, <2>3, RowsChanged
  <2>8. old \subseteq DirectiveRows
    BY <2>2
  <2> HIDE DEF old
  <2>9. IsFiniteSet(new) /\ (row \notin old => Cardinality(new) = Cardinality(old) + 1)
    BY <2>1, <2>7, FS_AddElement
  <2>10. Good("directives", new)
    BY <2>1, <2>6, <2>8, <2>9 DEF Good
  <2>11. \A id : (\E x \in new : x.id = id) <=> (\E x \in c : x.id = id) \/ id = s.subject
    BY <2>1, <2>6, <2>7
  <2>12. Effect(s, c, new)
    <3>1. \A kind, id : Home(kind) = "directives" =>
             /\ kind \in {"register", "directive"}
             /\ Has(kind, id, c) <=> \E x \in c : x.id = id
             /\ Has(kind, id, new) <=> (\E x \in c : x.id = id) \/ id = s.subject
      BY <2>11 DEF Home, Has
    <3>2. \A kind \in FactKinds : \A id : Gives(s, kind, id) => kind = "directive" /\ id = s.subject
      BY <1>7 DEF Gives
    <3>3. Home("directive") = "directives" /\ "directive" \notin NewKinds
      BY DEF Home, NewKinds
    <3>4. \A id : Brings(s, "register", id) <=> id = s.subject
      BY <1>7 DEF Brings
    <3> QED
      BY <2>10, <3>1, <3>2, <3>3, <3>4 DEF Effect
  <2>13. ASSUME Fresh(s, r), RowsAreOne
         PROVE  Counted(s, c, new) /\ \A x, y \in new : x.id = y.id => x = y
    <3>1. /\ Cardinality(old) = Cardinality(c)
          /\ \A x, y \in old : x.id = y.id => x = y
      BY <1>3, <2>7, <2>13
    <3>2. \A x \in c : x.id # s.subject
      BY <2>5, <2>13 DEF Fresh, Writing
    <3>3. \A x \in old : x.id # s.subject
      BY <2>7, <3>2
    <3>4. row \notin old
      BY <2>6, <3>3
    <3>5. \A x, y \in new : x.id = y.id => x = y
      BY <2>1, <2>6, <3>1, <3>3
    <3>6. Size("directives", new) = Cardinality(c) + 1 /\ Size("directives", c) = Cardinality(c)
      BY <2>9, <3>1, <3>4 DEF Size
    <3>7. Cardinality(c) \in Nat
      BY <1>2, FS_CardinalityType
    <3> QED
      BY <1>7, <3>5, <3>6, <3>7 DEF Counted, Adds
  <2> QED
    BY <2>12, <2>13
<1> QED
  BY <1>1, <1>6, <1>7

LEMMA RunEffect ==
    ASSUME WorkInv, NEW s, NEW c, NEW r, NEW new, Writing(s, c, r), Result(s, c, r, new), s.file = "run"
    PROVE  Effect(s, c, new) /\ (Fresh(s, r) => Counted(s, c, new))
<1>1. \/ s.op = "patch" /\ s.subject \in Ids
      \/ s.op \in {"fault", "candidates"} /\ s.subject \in Ids
      \/ s.op = "scores"
  BY DEF Writing, AllSteps, LogSteps, LedgerSteps, FixSteps, RunSteps, CodeSteps, StepOf, Reads
<1>2. IsRun(c)
  BY DEF Writing, Good
<1>3. /\ c = [patches |-> c.patches, candidates |-> c.candidates, scored |-> c.scored, faults |-> c.faults]
      /\ IsFiniteSet(c.patches) /\ IsFiniteSet(c.candidates) /\ IsFiniteSet(c.faults)
      /\ \A x \in c.patches : x.id \in Made
      /\ c.candidates \subseteq Made /\ c.faults \subseteq Made /\ c.scored \subseteq c.candidates
  <2>1. IsFiniteSet(Made)
    BY MadeIsFinite
  <2> QED
    BY <1>2, <2>1, FS_Subset DEF IsRun
<1>4. s.op \in {"patch", "fault", "candidates"} =>
         /\ s.subject \in Made
         /\ "run" \in lost \/ ~Has(s.op, s.subject, content["run"])
  <2>1. ASSUME s.op \in {"patch", "fault", "candidates"}
        PROVE  Brings(s, s.op, s.subject) /\ s.op \in NewKinds /\ Home(s.op) = "run" /\ s.subject \in Ids
    BY <1>1, <2>1 DEF Brings, NewKinds, Home
  <2> QED
    BY <2>1 DEF Writing
<1>5. \E p, d, q, x :
         /\ new = [patches |-> p, candidates |-> d, scored |-> q, faults |-> x]
         /\ s.op = "patch" =>
               /\ \E row : row.id = s.subject /\ p = c.patches \cup {row}
               /\ d = c.candidates /\ q = c.scored /\ x = c.faults
         /\ s.op = "candidates" =>
               p = c.patches /\ d = c.candidates \cup {s.subject} /\ q = c.scored /\ x = c.faults
         /\ s.op = "scores" => p = c.patches /\ d = c.candidates /\ q = c.candidates /\ x = c.faults
         /\ s.op = "fault" =>
               p = c.patches /\ d = c.candidates /\ q = c.scored /\ x = c.faults \cup {s.subject}
  <2>1. PICK p, d, q, x : p = c.patches /\ d = c.candidates /\ q = c.scored /\ x = c.faults
                          /\ c = [patches |-> p, candidates |-> d, scored |-> q, faults |-> x]
    BY <1>3
  <2>2. CASE s.op = "patch"
    <3>1. PICK row : row = [id |-> s.subject, path |-> s.value.path, ok |-> s.value.result = "ok"]
      OBVIOUS
    <3>2. new = [c EXCEPT !.patches = @ \cup {row}]
      BY <2>2, <3>1 DEF Result, AddPatch
    <3>3. new = [patches |-> p \cup {row}, candidates |-> d, scored |-> q, faults |-> x]
      BY <2>1, <3>2
    <3>4. row.id = s.subject
      BY <3>1
    <3> QED
      BY <2>1, <2>2, <3>3, <3>4
  <2>3. CASE s.op = "candidates"
    <3>1. new = [c EXCEPT !.candidates = @ \cup {s.subject}]
      BY <2>3 DEF Result, AddCandidates
    <3>2. new = [patches |-> p, candidates |-> d \cup {s.subject}, scored |-> q, faults |-> x]
      BY <2>1, <3>1
    <3> QED
      BY <2>1, <2>3, <3>2
  <2>4. CASE s.op = "scores"
    <3>1. new = [c EXCEPT !.scored = c.candidates]
      BY <2>4 DEF Result, SetScores
    <3>2. new = [patches |-> p, candidates |-> d, scored |-> d, faults |-> x]
      BY <2>1, <3>1
    <3> QED
      BY <2>1, <2>4, <3>2
  <2>5. CASE s.op = "fault"
    <3>1. new = [c EXCEPT !.faults = @ \cup {s.subject}]
      BY <2>5 DEF Result, AddFault
    <3>2. new = [patches |-> p, candidates |-> d, scored |-> q, faults |-> x \cup {s.subject}]
      BY <2>1, <3>1
    <3> QED
      BY <2>1, <2>5, <3>2
  <2> QED
    BY <1>1, <2>2, <2>3, <2>4, <2>5
<1>6. PICK p, d, q, x :
         /\ new = [patches |-> p, candidates |-> d, scored |-> q, faults |-> x]
         /\ s.op = "patch" =>
               /\ \E row : row.id = s.subject /\ p = c.patches \cup {row}
               /\ d = c.candidates /\ q = c.scored /\ x = c.faults
         /\ s.op = "candidates" =>
               p = c.patches /\ d = c.candidates \cup {s.subject} /\ q = c.scored /\ x = c.faults
         /\ s.op = "scores" => p = c.patches /\ d = c.candidates /\ q = c.candidates /\ x = c.faults
         /\ s.op = "fault" =>
               p = c.patches /\ d = c.candidates /\ q = c.scored /\ x = c.faults \cup {s.subject}
  BY <1>5
<1>7. new.patches = p /\ new.candidates = d /\ new.scored = q /\ new.faults = x
  BY <1>6
<1>8. PICK a \in Nat, b \in Nat, e \in Nat :
         a = Cardinality(c.patches) /\ b = Cardinality(c.candidates) /\ e = Cardinality(c.faults)
  BY <1>3, FS_CardinalityType
<1>9. Size("run", c) = a + b + e /\ Size("run", new) = Cardinality(p) + Cardinality(d) + Cardinality(x)
  BY <1>7, <1>8 DEF Size, Entries
<1>10. \A kind, id : Home(kind) = "run" /\ kind \in NewKinds \cup FactKinds =>
          /\ kind \in {"patch", "candidates", "fault", "pack"}
          /\ Has(kind, id, c) <=> \/ kind = "patch" /\ \E y \in c.patches : y.id = id
                                  \/ kind = "candidates" /\ id \in c.candidates
                                  \/ kind = "fault" /\ id \in c.faults
          /\ Has(kind, id, new) <=> \/ kind = "patch" /\ \E y \in p : y.id = id
                                    \/ kind = "candidates" /\ id \in d
                                    \/ kind = "fault" /\ id \in x
  BY <1>7 DEF Home, Has, NewKinds, FactKinds
<1>11. Home("patch") = "run" /\ FactKinds \subseteq NewKinds \cup {"directive", "fix", "pack"}
       /\ "pack" \notin NewKinds
  BY DEF Home, NewKinds, FactKinds
<1>12. CASE s.op = "patch"
  <2>1. PICK row : row.id = s.subject /\ p = c.patches \cup {row}
    BY <1>6, <1>12
  <2>2. d = c.candidates /\ q = c.scored /\ x = c.faults
    BY <1>6, <1>12
  <2>3. IsFiniteSet(p) /\ (row \notin c.patches => Cardinality(p) = a + 1)
    BY <1>3, <1>8, <2>1, FS_AddElement
  <2>4. Good("run", new)
    BY <1>3, <1>4, <1>6, <1>7, <1>12, <2>1, <2>2, <2>3 DEF Good, IsRun
  <2>5. Effect(s, c, new)
    <3>1. \A kind \in FactKinds : \A id : Gives(s, kind, id) => kind = "patch" /\ id = s.subject
      BY <1>12 DEF Gives
    <3>2. \A id : Brings(s, "patch", id) <=> id = s.subject
      BY <1>12 DEF Brings
    <3>3. Has("patch", s.subject, new)
      BY <1>7, <2>1 DEF Has
    <3>4. \A kind \in NewKinds \cup {"directive", "fix"}, id \in Ids0 :
             Home(kind) = "run" /\ Has(kind, id, c) => Has(kind, id, new)
      BY <1>10, <2>1, <2>2 DEF FactKinds
    <3>5. \A kind \in NewKinds, id \in Ids :
             Home(kind) = "run" /\ Has(kind, id, new) => Has(kind, id, c) \/ Brings(s, kind, id)
      BY <1>10, <2>1, <2>2, <3>2
    <3> QED
      BY <1>11, <2>4, <3>1, <3>3, <3>4, <3>5 DEF Effect
  <2>6. Fresh(s, r) => row \notin c.patches
    <3>1. Fresh(s, r) => ~Has("patch", s.subject, c)
      BY <1>4, <1>12 DEF Fresh, Writing
    <3> QED
      BY <2>1, <3>1 DEF Has
  <2> QED
    BY <1>8, <1>9, <1>12, <2>2, <2>3, <2>5, <2>6 DEF Counted, Adds
<1>13. CASE s.op = "candidates"
  <2>1. p = c.patches /\ d = c.candidates \cup {s.subject} /\ q = c.scored /\ x = c.faults
    BY <1>6, <1>13
  <2>2. s.subject \notin c.candidates => Cardinality(d) = b + 1
    BY <1>3, <1>8, <2>1, FS_AddElement
  <2>3. Good("run", new)
    BY <1>3, <1>4, <1>6, <1>7, <1>13, <2>1 DEF Good, IsRun
  <2>4. Effect(s, c, new)
    <3>1. \A kind \in FactKinds : \A id : ~Gives(s, kind, id)
      BY <1>13 DEF Gives
    <3>2. \A id : Brings(s, "candidates", id) <=> id = s.subject
      BY <1>13 DEF Brings
    <3>3. \A kind \in NewKinds \cup {"directive", "fix"}, id \in Ids0 :
             Home(kind) = "run" /\ Has(kind, id, c) => Has(kind, id, new)
      BY <1>10, <2>1 DEF FactKinds
    <3>4. \A kind \in NewKinds, id \in Ids :
             Home(kind) = "run" /\ Has(kind, id, new) => Has(kind, id, c) \/ Brings(s, kind, id)
      BY <1>10, <2>1, <3>2
    <3> QED
      BY <2>3, <3>1, <3>3, <3>4 DEF Effect
  <2>5. Fresh(s, r) => s.subject \notin c.candidates
    <3>1. Fresh(s, r) => ~Has("candidates", s.subject, c)
      BY <1>4, <1>13 DEF Fresh, Writing
    <3> QED
      BY <3>1 DEF Has
  <2> QED
    BY <1>8, <1>9, <1>13, <2>1, <2>2, <2>4, <2>5 DEF Counted, Adds
<1>14. CASE s.op = "fault"
  <2>1. p = c.patches /\ d = c.candidates /\ q = c.scored /\ x = c.faults \cup {s.subject}
    BY <1>6, <1>14
  <2>2. s.subject \notin c.faults => Cardinality(x) = e + 1
    BY <1>3, <1>8, <2>1, FS_AddElement
  <2>3. Good("run", new)
    BY <1>3, <1>4, <1>6, <1>7, <1>14, <2>1 DEF Good, IsRun
  <2>4. Effect(s, c, new)
    <3>1. \A kind \in FactKinds : \A id : ~Gives(s, kind, id)
      BY <1>14 DEF Gives
    <3>2. \A id : Brings(s, "fault", id) <=> id = s.subject
      BY <1>14 DEF Brings
    <3>3. \A kind \in NewKinds \cup {"directive", "fix"}, id \in Ids0 :
             Home(kind) = "run" /\ Has(kind, id, c) => Has(kind, id, new)
      BY <1>10, <2>1 DEF FactKinds
    <3>4. \A kind \in NewKinds, id \in Ids :
             Home(kind) = "run" /\ Has(kind, id, new) => Has(kind, id, c) \/ Brings(s, kind, id)
      BY <1>10, <2>1, <3>2
    <3> QED
      BY <2>3, <3>1, <3>3, <3>4 DEF Effect
  <2>5. Fresh(s, r) => s.subject \notin c.faults
    <3>1. Fresh(s, r) => ~Has("fault", s.subject, c)
      BY <1>4, <1>14 DEF Fresh, Writing
    <3> QED
      BY <3>1 DEF Has
  <2> QED
    BY <1>8, <1>9, <1>14, <2>1, <2>2, <2>4, <2>5 DEF Counted, Adds
<1>15. CASE s.op = "scores"
  <2>1. p = c.patches /\ d = c.candidates /\ q = c.candidates /\ x = c.faults
    BY <1>6, <1>15
  <2>2. Good("run", new)
    BY <1>3, <1>6, <1>7, <2>1 DEF Good, IsRun
  <2>3. Effect(s, c, new)
    <3>1. \A kind \in FactKinds : \A id : ~Gives(s, kind, id)
      BY <1>15 DEF Gives
    <3>2. \A kind \in NewKinds \cup {"directive", "fix"}, id \in Ids0 :
             Home(kind) = "run" /\ Has(kind, id, c) => Has(kind, id, new)
      BY <1>10, <2>1 DEF FactKinds
    <3>3. \A kind \in NewKinds, id \in Ids :
             Home(kind) = "run" /\ Has(kind, id, new) => Has(kind, id, c) \/ Brings(s, kind, id)
      BY <1>10, <2>1
    <3> QED
      BY <2>2, <3>1, <3>2, <3>3 DEF Effect
  <2> QED
    BY <1>8, <1>9, <1>15, <2>1, <2>3 DEF Counted, Adds
<1> QED
  BY <1>1, <1>12, <1>13, <1>14, <1>15
-----------------------------------------------------------------------------
(* A range of lines replaced.                                              *)
LEMMA ReplaceIsText ==
    ASSUME NEW c \in Seq(Lines), NEW text \in Seq(Lines), NEW lo \in Nat, NEW hi \in Nat
    PROVE  Replace(c, lo, hi, text) \in Seq(Lines)
<1>1. PICK n \in Nat : n = Len(c)
  BY LenProperties
<1>2. PICK m \in Int : m = Min({lo - 1, n}) /\ m <= n
  <2>1. CASE lo - 1 <= n
    <3>1. Min({lo - 1, n}) = lo - 1
      BY <2>1 DEF Min
    <3> QED
      BY <2>1, <3>1
  <2>2. CASE ~(lo - 1 <= n)
    <3>1. Min({lo - 1, n}) = n
      BY <2>2 DEF Min
    <3> QED
      BY <3>1
  <2> QED
    BY <2>1, <2>2
<1>3. PICK a : a = SubSeq(c, 1, m)
  OBVIOUS
<1>4. a \in Seq(Lines)
  <2>1. \A i \in 1..m : c[i] \in Lines
    <3>1. \A i \in 1..m : i \in 1..n
      BY <1>2
    <3> QED
      BY <1>1, <3>1, ElementOfSeq
  <2> QED
    BY <1>1, <1>2, <1>3, <2>1, 1 \in Int, m \in Int, SubSeqProperties
<1>5. PICK b : b = SubSeq(c, hi + 1, n)
  OBVIOUS
<1>6. b \in Seq(Lines)
  <2>1. \A i \in (hi + 1)..n : c[i] \in Lines
    <3>1. \A i \in (hi + 1)..n : i \in 1..n
      OBVIOUS
    <3> QED
      BY <1>1, <3>1, ElementOfSeq
  <2> QED
    BY <1>1, <1>5, <2>1, SubSeqProperties
<1>7. PICK joined : joined = a \o text \o b
  OBVIOUS
<1>8. joined \in Seq(Lines)
  BY <1>4, <1>6, <1>7, ConcatProperties
<1>9. <<Blank>> \in Seq(Lines)
  <2>1. Blank \in Lines
    BY DEF Lines
  <2> QED
    BY ONLY <2>1, ShortTexts
<1>10. Replace(c, lo, hi, text) = IF joined = <<>> /\ c # <<>> THEN <<Blank>> ELSE joined
  BY <1>1, <1>2, <1>3, <1>5, <1>7 DEF Replace, Before
<1> QED
  BY <1>8, <1>9, <1>10

LEMMA CodeEffect ==
    ASSUME NEW s, NEW c, NEW r, NEW new, Writing(s, c, r), Result(s, c, r, new), s.file = "code"
    PROVE  Effect(s, c, new)
<1>1. s.op \in {"range", "symbol"} /\ s.subject.text \in Seq(Lines)
  BY DEF Writing, AllSteps, LogSteps, LedgerSteps, FixSteps, RunSteps, CodeSteps, StepOf, Reads,
         LineRanges, SymbolTexts
<1>2. c \in Seq(Lines)
  BY DEF Writing, Good
<1>3. PICK lo \in Nat, hi \in Nat : new = Replace(c, lo, hi, s.subject.text)
  BY DEF Result
<1>4. Good("code", new)
  BY <1>1, <1>2, <1>3, ReplaceIsText DEF Good
<1> QED
  BY <1>1, <1>4 DEF Effect, Home, Gives
(* The steps that update a file, one by one.                               *)
LEMMA UpdatedIs ==
    ASSUME WorkInv, NEW p \in Procs, Updates(p)
    PROVE  Result(Now(p), proc[p].copy[2], proc[p], Updated(p))
<1> DEFINE s == Now(p)
           c == proc[p].copy[2]
           r == proc[p]
           new == Updated(p)
<1>1. s \in AllSteps /\ ProcIs(r)
  BY Tails DEF WorkInv, Shapes, ProcIs, Updates, Busy, Now
<1>2. /\ s.file = "code" <=> s.op \in {"range", "symbol"}
      /\ s.op \in {"register", "complete", "outcome", "notes", "record", "boot", "heartbeat", "append", "add",
                   "similar", "upsert", "embed", "sync", "patch", "candidates", "scores", "fault", "profile",
                   "activate", "range", "symbol"}
  <2> USE DEF StepOf
  <2>1. CASE s \in LogSteps
    BY <2>1 DEF LogSteps, Updates
  <2>2. CASE s \in LedgerSteps
    BY <2>2 DEF LedgerSteps, Updates, Reads
  <2>3. CASE s \in FixSteps
    BY <2>3 DEF FixSteps, Updates, Reads
  <2>4. CASE s \in RunSteps
    BY <2>4 DEF RunSteps, Updates, Reads
  <2>5. CASE s \in CodeSteps
    BY <2>5 DEF CodeSteps
  <2> QED
    BY <1>1, <2>1, <2>2, <2>3, <2>4, <2>5 DEF AllSteps
<1>3. s.file = "code" => new = Replace(c, Target(p)[1], Target(p)[2], s.subject.text)
  BY <1>2 DEF Updated
<1>4. s.file = "code" => Target(p)[1] \in Nat /\ Target(p)[2] \in Nat
  <2>1. CASE s.op = "symbol"
    BY <1>1, <2>1 DEF Target, ProcIs
  <2>2. CASE s.op = "range"
    <3>1. s.subject \in LineRanges
      BY <1>1, <2>2 DEF AllSteps, LogSteps, LedgerSteps, FixSteps, RunSteps, CodeSteps, StepOf
    <3> QED
      BY <2>2, <3>1 DEF Target, LineRanges
  <2> QED
    BY <1>2, <2>1, <2>2
<1>5. s.file = "code" => \E lo, hi \in Nat : new = Replace(c, lo, hi, s.subject.text)
  BY <1>3, <1>4
<1>6. /\ s.op = "register" => new = RegisterDirective(c, s.subject, s.value)
      /\ s.op = "complete" => new = CompleteDirective(c, s.subject, s.value)
      /\ s.op = "outcome" => new = RecordOutcome(c, s.subject)
      /\ s.op = "notes" => new = UpsertTrust(c)
      /\ s.op = "record" => new = RecordCurriculum(c, s.subject, s.value)
  BY <1>2 DEF Updated
<1>7. /\ s.op = "boot" => new = BootState(c, s.subject)
      /\ s.op = "heartbeat" => new = Heartbeat(c, s.subject)
      /\ s.op = "append" => new = Append(c, r.note)
      /\ s.op = "add" /\ s.file = "fixes" => new = c \cup {s.subject}
      /\ s.op = "add" /\ s.file = "edges" => new = AddEdge(c, s.subject, s.value)
      /\ s.op = "similar" => new = AddEdge(c, r.note, s.subject)
  BY <1>2 DEF Updated
<1>8. /\ s.op = "upsert" => new = [c EXCEPT ![s.subject] = r.row]
      /\ s.op = "embed" => new = EmbedRow(c, s.subject)
      /\ s.op = "sync" => new = SyncRow(c, s.subject, s.value)
      /\ s.op = "patch" => new = AddPatch(c, s.subject, s.value.path, s.value.result = "ok")
      /\ s.op = "candidates" => new = AddCandidates(c, s.subject)
  BY <1>2 DEF Updated
<1>9. /\ s.op = "scores" => new = SetScores(c)
      /\ s.op = "fault" => new = AddFault(c, s.subject)
      /\ s.op = "profile" => new = RegisterProfile(c, s.subject, s.value)
      /\ s.op = "activate" => new = [c EXCEPT !.active = s.subject]
  BY <1>2 DEF Updated
<1> HIDE DEF s, c, r, new
<1>10. Result(s, c, r, new)
  BY <1>5, <1>6, <1>7, <1>8, <1>9 DEF Result
<1> QED
  BY <1>10 DEF s, c, r, new

LEMMA WriterIs ==
    ASSUME WorkInv, NEW p \in Procs, Updates(p), proc[p].stage = "open"
    PROVE  Writing(Now(p), proc[p].copy[2], proc[p])
<1> DEFINE s == Now(p)
           t == proc[p].todo
           c == proc[p].copy[2]
           r == proc[p]
<1>1. /\ s \in AllSteps /\ s = t[1] /\ 1 \in DOMAIN t /\ DOMAIN t \subseteq Nat \ {0}
      /\ t # <<>> /\ Supplied(t, Known) /\ HeadIsTold(r) /\ CopyIsGood(r) /\ ProcIs(r) /\ Acting(r)
      /\ s = Head(t) /\ r.stage # "next"
  BY Tails DEF WorkInv, Shapes, ProcIs, Sound, Updates, Busy, Now, Acting
<1>2. /\ s.file \in Files /\ s.op \notin Reads /\ Good(s.file, c) /\ ~Refuses(s, c)
      /\ s.op = "similar" => r.note # 0 /\ <<r.note, s.subject>> \notin c
      /\ s.op = "add" /\ s.file = "edges" => <<s.subject, s.value>> \notin c
      /\ ~r.raced /\ s.file # "code" => c = content[s.file]
  BY <1>1, StepForms DEF CopyIsGood
<1>3. /\ s.op = "similar" => r.note \in Ids0 /\ (r.note # 0 => <<"fix", r.note>> \in Known)
      /\ s.op = "upsert" /\ ~r.raced => Count(r.row) = Count(content["consensus"][s.subject]) + 1
  BY <1>1 DEF HeadIsTold
<1>4. \A kind \in FactKinds, id \in Ids0 : Asks(s, kind, id) => <<kind, id>> \in Known
  <2>1. \A j \in DOMAIN t : ~(j < 1)
    BY <1>1
  <2> QED
    BY <2>1, <1>1 DEF Supplied
<1>5. ASSUME NEW kind \in NewKinds, NEW id \in Ids, Brings(s, kind, id)
      PROVE  id \in Made /\ (Home(kind) \in lost \/ ~Has(kind, id, content[Home(kind)]))
  <2>1. <<kind, id>> \in Items(t)
    BY <1>1, <1>5 DEF Items
  <2>2. ItemsAreNew(t)
    BY DEF WorkInv, NewItems
  <2> QED
    BY <2>1, <2>2 DEF ItemsAreNew
<1>6. s.op = "append" /\ "state" \notin lost => r.note <= content["state"].boots /\ r.note \notin Range(c)
  <2>1. s.op = "append" => Booting(r) /\ Listed(r) = c
    BY <1>1 DEF Booting, Listed
  <2> QED
    BY <2>1 DEF WorkInv, BootsAreNumbered
<1> HIDE DEF s, t, c, r
<1>7. Writing(s, c, r)
  BY <1>1, <1>2, <1>3, <1>4, <1>5, <1>6 DEF Writing
<1> QED
  BY <1>7 DEF s, c, r
(* What any update makes of its copy.                                      *)
LEMMA UpdateEffect ==
    ASSUME WorkInv, NEW s, NEW c, NEW r, NEW new, Writing(s, c, r), Result(s, c, r, new)
    PROVE  /\ Effect(s, c, new)
           /\ Fresh(s, r) /\ s.file \notin {"index", "code"} => Counted(s, c, new)
           /\ Fresh(s, r) /\ s.file = "directives" => \A x, y \in new : x.id = y.id => x = y
<1>1. s.file \in Files /\ RowsAreOne
  BY DEF Writing, WorkInv
<1>2. CASE s.file = "directives"
  BY <1>1, <1>2, DirectivesEffect
<1>3. CASE s.file \in {"trust", "curriculum", "state", "boots"}
  BY <1>3, TrustEffect, CurriculumEffect, StateEffect, BootsEffect
<1>4. CASE s.file \in {"fixes", "edges", "consensus", "index"}
  BY <1>4, FixesEffect, EdgesEffect, ConsensusEffect, IndexEffect
<1>5. CASE s.file \in {"code", "run", "profiles"}
  BY <1>5, CodeEffect, RunEffect, ProfilesEffect
<1> QED
  BY <1>1, <1>2, <1>3, <1>4, <1>5 DEF Files

\* One file is written, from the copy c, by step s of the process of record r.
Written(s, c, r, new) ==
    /\ Writing(s, c, r) /\ Result(s, c, r, new)
    /\ content' = [content EXCEPT ![s.file] = new]
    /\ lost' = IF r.raced THEN lost \cup {s.file} ELSE lost
    /\ done' = IF s.op \in Adds THEN [done EXCEPT ![s.file] = @ + 1] ELSE done
    /\ packs' = packs /\ log' = log /\ budget' = budget

LEMMA WrittenFacts ==
    ASSUME WorkInv, NEW s, NEW c, NEW r, NEW new, Written(s, c, r, new)
    PROVE  /\ Effect(s, c, new) /\ s.file \in Files
           /\ content'[s.file] = new /\ \A g \in Files : g # s.file => content'[g] = content[g]
           /\ DOMAIN content' = Files /\ content' = [g \in Files |-> content'[g]]
           /\ lost \subseteq lost' /\ lost' \subseteq Files /\ Made' = Made
           /\ s.file \notin lost' => Fresh(s, r)
           /\ Fresh(s, r) /\ s.file # "code" => c = content[s.file]
<1>1. Writing(s, c, r) /\ Result(s, c, r, new)
  BY DEF Written
<1>2. Effect(s, c, new)
  BY <1>1, UpdateEffect
<1>3. s.file \in Files /\ (~r.raced /\ s.file # "code" => c = content[s.file])
  BY <1>1 DEF Writing
<1>4. DOMAIN content = Files /\ content = [g \in Files |-> content[g]] /\ lost \subseteq Files
  BY DEF WorkInv, Shapes
<1>5. /\ content'[s.file] = new /\ \A g \in Files : g # s.file => content'[g] = content[g]
      /\ DOMAIN content' = Files /\ content' = [g \in Files |-> content'[g]]
  BY <1>3, <1>4 DEF Written
<1>6. /\ lost \subseteq lost' /\ lost' \subseteq Files /\ Made' = Made
      /\ s.file \notin lost' => Fresh(s, r)
      /\ Fresh(s, r) => ~r.raced
  BY <1>3, <1>4 DEF Written, Made, Fresh
<1> QED
  BY <1>2, <1>3, <1>5, <1>6

LEMMA WrittenGrows ==
    ASSUME WorkInv, NEW s, NEW c, NEW r, NEW new, Written(s, c, r, new)
    PROVE  Grown
<1> DEFINE f == s.file
<1>1. /\ Effect(s, c, new) /\ f \in Files
      /\ content'[f] = new /\ \A g \in Files : g # f => content'[g] = content[g]
      /\ lost \subseteq lost' /\ Made' = Made
      /\ f \notin lost' /\ f # "code" => c = content[f]
  BY WrittenFacts
<1>2. packs' = packs
  BY DEF Written
<1> HIDE DEF f
<1>3. Known \subseteq Known'
  <2> SUFFICES ASSUME NEW kind \in FactKinds, NEW id \in Ids0, <<kind, id>> \in Known
               PROVE  <<kind, id>> \in Known'
    BY DEF Known
  <2>1. CASE kind = "pack"
    BY <1>2, <2>1 DEF Known
  <2>2. CASE kind # "pack"
    <3>1. Home(kind) \in lost \/ Has(kind, id, content[Home(kind)])
      BY <2>2 DEF Known
    <3>2. Home(kind) \in Files /\ Home(kind) # "code" /\ kind \in NewKinds \cup {"directive", "fix"}
      BY <2>2 DEF FactKinds, Home, Files, NewKinds
    <3>3. PICK h : h = Home(kind)
      OBVIOUS
    <3>4. h \in lost' \/ Has(kind, id, content'[h])
      <4>1. CASE h # f
        BY <1>1, <3>1, <3>2, <3>3, <4>1
      <4>2. CASE h = f /\ f \notin lost'
        <5>1. Has(kind, id, c)
          BY <1>1, <3>1, <3>2, <3>3, <4>2
        <5> QED
          BY <1>1, <3>2, <3>3, <4>2, <5>1 DEF Effect, f
      <4> QED
        BY <4>1, <4>2
    <3>5. Has(kind, id, content'[h]) <=> Has(kind, id, content[h])'
      BY DEF Has
    <3> QED
      BY <2>2, <3>3, <3>4 DEF Known
  <2> QED
    BY <2>1, <2>2
<1>4. /\ Good("state", content["state"]) /\ Good("trust", content["trust"]) /\ Good("fixes", content["fixes"])
      /\ {"state", "trust", "fixes", "boots"} \subseteq Files
  BY DEF WorkInv, Files
<1>5. /\ content["state"].boots \in Nat /\ content'["state"].boots \in Nat
      /\ "state" \notin lost' => content["state"].boots <= content'["state"].boots
  <2>1. content["state"].boots \in Nat
    BY <1>4 DEF Good
  <2>2. CASE f = "state"
    <3>1. c.boots \in Nat /\ new.boots \in Nat /\ c.boots <= new.boots
      BY <1>1, <2>2 DEF Effect, f
    <3> QED
      BY <1>1, <2>1, <2>2, <3>1
  <2>3. CASE f # "state"
    BY <1>1, <1>4, <2>1, <2>3
  <2> QED
    BY <2>2, <2>3
<1>6. /\ Count(content["trust"]) \in Nat /\ Count(content'["trust"]) \in Nat
      /\ "trust" \notin lost' => Count(content["trust"]) <= Count(content'["trust"])
  <2>1. Count(content["trust"]) \in Nat
    BY <1>4 DEF Good, Count
  <2>2. CASE f = "trust"
    <3>1. Count(c) \in Nat /\ Count(new) \in Nat /\ Count(c) <= Count(new)
      BY <1>1, <2>2 DEF Effect, f
    <3> QED
      BY <1>1, <2>1, <2>2, <3>1
  <2>3. CASE f # "trust"
    BY <1>1, <1>4, <2>1, <2>3
  <2> QED
    BY <2>2, <2>3
<1>7. "fixes" \notin lost' => content["fixes"] \subseteq content'["fixes"]
  <2>1. CASE f = "fixes"
    <3>1. content["fixes"] \subseteq Ids0
      BY <1>4, MadeIsFinite DEF Good, Ids0
    <3>2. \A id \in Ids0 : Has("fix", id, c) => Has("fix", id, new)
      BY <1>1, <2>1 DEF Effect, Home, f
    <3>3. \A id : \A v : Has("fix", id, v) <=> id \in v
      BY DEF Has
    <3> QED
      BY <1>1, <2>1, <3>1, <3>2, <3>3
  <2>2. CASE f # "fixes"
    BY <1>1, <1>4, <2>2
  <2> QED
    BY <2>1, <2>2
<1>8. "boots" \notin lost' => Range(content["boots"]) \subseteq Range(content'["boots"])
  <2>1. CASE f = "boots"
    <3>1. Range(c) \subseteq Range(new)
      BY <1>1, <2>1 DEF Effect, f
    <3> QED
      BY <1>1, <2>1, <3>1
  <2>2. CASE f # "boots"
    BY <1>1, <1>4, <2>2
  <2> QED
    BY <2>1, <2>2
<1> QED
  BY <1>1, <1>2, <1>3, <1>5, <1>6, <1>7, <1>8 DEF Grown
(* What the files hold, once one of them is written.                       *)
LEMMA WrittenFiles ==
    ASSUME WorkInv, NEW s, NEW c, NEW r, NEW new, Written(s, c, r, new)
    PROVE  /\ \A f \in Files : Good(f, content[f])'
           /\ LogIsTrue' /\ RowsAreOne' /\ UpdatesSurvive' /\ done' \in [Files -> Nat]
<1>1. /\ Effect(s, c, new) /\ s.file \in Files
      /\ content'[s.file] = new /\ \A g \in Files : g # s.file => content'[g] = content[g]
      /\ lost \subseteq lost'
      /\ s.file \notin lost' => Fresh(s, r)
      /\ Fresh(s, r) /\ s.file # "code" => c = content[s.file]
  BY WrittenFacts
<1>2. Grown
  BY WrittenGrows
<1>3. ASSUME NEW f \in Files PROVE Good(f, content[f])'
  <2>1. PICK v : v = content'[f]
    OBVIOUS
  <2>2. Good(f, v)
    <3>1. CASE f = s.file
      BY <1>1, <2>1, <3>1 DEF Effect
    <3>2. CASE f # s.file
      BY <1>1, <2>1, <3>2 DEF WorkInv
    <3> QED
      BY <3>1, <3>2
  <2>3. Good(f, v)'
    BY <1>2, <2>2, GoodGrows
  <2> QED
    BY <2>1, <2>3
<1>4. LogIsTrue'
  BY <1>2, LogKept DEF Written, WorkInv
<1>5. /\ Writing(s, c, r) /\ Result(s, c, r, new) /\ done' = IF s.op \in Adds THEN [done EXCEPT ![s.file] = @ + 1] ELSE done
      /\ done \in [Files -> Nat]
  BY DEF Written, WorkInv, Shapes
<1>6. /\ Fresh(s, r) /\ s.file \notin {"index", "code"} => Counted(s, c, new)
      /\ Fresh(s, r) /\ s.file = "directives" => \A x, y \in new : x.id = y.id => x = y
  BY <1>5, UpdateEffect
<1>7. RowsAreOne'
  <2> SUFFICES ASSUME "directives" \notin lost'
               PROVE  \A x, y \in content'["directives"] : x.id = y.id => x = y
    BY DEF RowsAreOne
  <2>1. CASE s.file = "directives"
    BY <1>1, <1>6, <2>1
  <2>2. CASE s.file # "directives"
    BY <1>1, <2>2 DEF Files, WorkInv, RowsAreOne
  <2> QED
    BY <2>1, <2>2
<1>8. PICK n \in Nat : n = done[s.file]
  BY <1>1, <1>5
<1>9. /\ done' \in [Files -> Nat] /\ \A g \in Files : g # s.file => done'[g] = done[g]
      /\ done'[s.file] = n + (IF s.op \in Adds THEN 1 ELSE 0)
  <2>1. CASE s.op \in Adds
    <3>1. done' = [done EXCEPT ![s.file] = n + 1]
      BY <1>5, <1>8, <2>1
    <3> QED
      BY <1>1, <1>5, <2>1, <3>1
  <2>2. CASE s.op \notin Adds
    BY <1>1, <1>5, <1>8, <2>2
  <2> QED
    BY <2>1, <2>2
<1>10. UpdatesSurvive'
  <2> SUFFICES ASSUME NEW f \in Files, f \notin {"index", "code"}, f \notin lost'
               PROVE  Size(f, content'[f]) = done'[f]
    BY DEF UpdatesSurvive
  <2>1. Size(f, content[f]) = done[f]
    BY <1>1 DEF WorkInv, UpdatesSurvive
  <2>2. CASE f = s.file
    <3>1. Counted(s, c, new) /\ c = content[f]
      BY <1>1, <1>6, <2>2
    <3>2. Size(f, new) = n + (IF s.op \in Adds THEN 1 ELSE 0)
      BY <1>8, <2>1, <2>2, <3>1 DEF Counted
    <3> QED
      BY <1>1, <1>9, <2>2, <3>2
  <2>3. CASE f # s.file
    BY <1>1, <1>9, <2>1, <2>3
  <2> QED
    BY <2>2, <2>3
<1> QED
  BY <1>3, <1>4, <1>7, <1>9, <1>10

\* The record q of a process that has done step s of t.
GoesOnAs(q, s, t, new) ==
    /\ ProcIs(q) /\ q.stage = "next" /\ q.todo = Tail(t) /\ Once(q.todo)
    /\ Items(q.todo) \subseteq Items(t)
    /\ \A item \in Items(q.todo) : ~Brings(s, item[1], item[2])
    /\ Booting(q) => s.op = "boot" /\ q.note = new.boots

(* The process that has written.                                           *)
LEMMA WriterIsSound ==
    ASSUME WorkInv, NEW p \in Procs, Busy(p), NEW s, s = Now(p), NEW c, NEW new, Written(s, c, proc[p], new),
           NEW q, q = AfterStep(p, Told(p, new), proc[p].row)
    PROVE  GoesOnAs(q, s, proc[p].todo, new) /\ Sound(q)'
<1> DEFINE t == proc[p].todo
           r == proc[p]
<1>1. /\ Effect(s, c, new) /\ s.file \in Files
      /\ content'[s.file] = new
      /\ Writing(s, c, r) /\ Result(s, c, r, new) /\ s.op \notin Reads /\ s \in AllSteps
      /\ ProcIs(r) /\ s = Head(t) /\ t # <<>> /\ t \in Seq(AllSteps)
      /\ Supplied(t, Known) /\ Chained(t) /\ Once(t)
  BY WrittenFacts DEF Written, Writing, Busy, Now, WorkInv, Shapes, ProcIs, Sound, NewItems, ItemsAreNew
<1>2. Grown
  BY WrittenGrows
<1>3. PICK note : note = Told(p, new)
  OBVIOUS
<1>4. /\ s.op = "outcome" => note = Count(new) /\ s.file = "trust"
      /\ s.op = "boot" => note = new.boots /\ s.file = "state"
      /\ s.op = "append" => note = r.note /\ s.file = "boots"
      /\ s.op \notin {"outcome", "boot"} => note = r.note
  <2>1. /\ s.op = "outcome" => s.file = "trust"
        /\ s.op = "boot" => s.file = "state"
        /\ s.op = "append" => s.file = "boots"
    BY <1>1 DEF AllSteps, LogSteps, LedgerSteps, FixSteps, RunSteps, CodeSteps, StepOf
  <2> QED
    BY <1>3, <2>1 DEF Told, Count
<1>5. note \in Nat
  <2>1. s.op = "outcome" => Count(new) \in Nat
    BY <1>1, <1>4 DEF Effect
  <2>2. s.op = "boot" => new.boots \in Nat
    BY <1>1, <1>4 DEF Effect
  <2> QED
    BY <1>1, <1>4, <2>1, <2>2 DEF ProcIs
<1>6. /\ Tail(t) \in Seq(AllSteps) /\ Supplied(Tail(t), Known') /\ Chained(Tail(t)) /\ Once(Tail(t))
      /\ Items(Tail(t)) \subseteq Items(t)
      /\ \A item \in Items(Tail(t)) : ~Brings(s, item[1], item[2])
      /\ Tail(t) # <<>> =>
            LET h == Head(Tail(t)) IN
            Teller(h) # "none" => s.op = Teller(h) /\ (h.op = "upsert" => h.subject = s.subject)
  <2>1. ASSUME NEW kind \in FactKinds, NEW id \in Ids0, Gives(s, kind, id) PROVE <<kind, id>> \in Known'
    <3>1. Home(kind) = s.file /\ kind # "pack" /\ Has(kind, id, new)
      BY <1>1, <2>1 DEF Effect
    <3> QED
      BY <1>1, <3>1 DEF Known, Has
  <2>2. Known \subseteq Known'
    BY <1>2 DEF Grown
  <2> HIDE DEF t
  <2> QED
    BY <1>1, <2>1, <2>2, RestIsSound
<1>7. /\ q.todo = Tail(t) /\ q.note = note /\ q.stage = "next" /\ q.row = r.row
      /\ q.copy = IdleProc.copy /\ q.at = <<0, 0>> /\ q.raced = FALSE
      /\ q = [todo |-> q.todo, stage |-> q.stage, copy |-> q.copy, note |-> q.note,
              row |-> q.row, at |-> q.at, raced |-> q.raced]
  BY <1>3 DEF IdleProc, AfterStep
<1>8. ProcIs(q)
  <2>1. r.row \in Rows /\ q.at \in Nat \X Nat /\ q.raced \in BOOLEAN
    <3>1. r.row \in Rows
      BY <1>1 DEF ProcIs
    <3>2. <<0, 0>> \in Nat \X Nat
      OBVIOUS
    <3> QED
      BY <1>7, <3>1, <3>2
  <2> HIDE DEF r, t
  <2>2. /\ q.todo \in Seq(AllSteps) /\ q.stage \in {"next", "loaded", "resolved", "open"}
        /\ q.note \in Nat /\ q.row \in Rows
    BY <1>5, <1>6, <1>7, <2>1
  <2> QED
    BY <1>7, <2>1, <2>2 DEF ProcIs
<1> HIDE DEF t, r
<1>9. ASSUME q.todo # <<>>, NEW h, h = Head(q.todo)
      PROVE  /\ h \in AllSteps
             /\ h.op # "similar" /\ h.op # "upsert"
             /\ h.op = "noted" /\ h.subject = "trust" => s.op = "outcome"
             /\ h.op = "noted" /\ h.subject = "boot" => s.op = "append"
             /\ h.op = "append" => s.op = "boot"
  <2>1. h \in AllSteps
    BY <1>6, <1>7, <1>9, Tails
  <2>2. Teller(h) # "none" => s.op = Teller(h)
    BY <1>6, <1>7, <1>9
  <2> QED
    BY <1>1, <2>1, <2>2 DEF Teller, Reads
<1>10. HeadIsTold(q)'
  <2> SUFFICES ASSUME q.todo # <<>> PROVE HeadIsTold(q)'
    BY DEF HeadIsTold, Acting
  <2>1. PICK h : h = Head(q.todo)
    OBVIOUS
  <2>2. s.op = "append" => note \in Range(content'["boots"])
    BY <1>1, <1>4, BootsEffect
  <2>3. /\ h.op = "noted" /\ h.subject = "trust" => q.note <= Count(content'["trust"])
        /\ h.op = "noted" /\ h.subject = "boot" => q.note \in Range(content'["boots"])
    <3>1. ASSUME h.op = "noted", h.subject = "trust" PROVE q.note <= Count(content'["trust"])
      <4>1. s.op = "outcome"
        BY <1>9, <2>1, <3>1
      <4> QED
        BY <4>1, <1>1, <1>4, <1>5, <1>7
    <3> QED
      BY <3>1, <1>9, <2>1, <2>2, <1>4, <1>7
  <2>4. h.op # "similar" /\ h.op # "upsert"
    BY <1>9, <2>1
  <2> QED
    BY <2>1, <2>3, <2>4 DEF HeadIsTold, Acting
<1>11. Sound(q)'
  BY <1>6, <1>7, <1>10 DEF Sound, CopyIsGood
<1>12. Booting(q) => s.op = "boot" /\ q.note = new.boots
  BY <1>4, <1>7, <1>9 DEF Booting, Acting
<1> QED
  BY <1>6, <1>7, <1>8, <1>11, <1>12 DEF t, GoesOnAs
(* The numbers of boots, after a write; the record q is the writer's next. *)
LEMMA WrittenBoots ==
    ASSUME WorkInv, NEW p \in Procs, Busy(p), NEW s, s = Now(p), NEW c, NEW new,
           c = proc[p].copy[2], proc[p].stage = "open", Written(s, c, proc[p], new),
           NEW q, proc'[p] = q, q.stage = "next", Booting(q) => s.op = "boot" /\ q.note = new.boots,
           \A o \in Procs \ {p} : /\ proc'[o].todo = proc[o].todo /\ proc'[o].note = proc[o].note
                                  /\ proc'[o].stage = proc[o].stage /\ proc'[o].copy = proc[o].copy
    PROVE  BootsAreNumbered'
<1> SUFFICES ASSUME "state" \notin lost'
             PROVE  /\ \A o \in Procs : Booting(proc'[o]) =>
                          /\ proc'[o].note <= content'["state"].boots
                          /\ proc'[o].note \notin Range(content'["boots"])
                    /\ \A o, x \in Procs : Booting(proc'[o]) /\ Booting(proc'[x]) =>
                          /\ proc'[o].note \notin Range(Listed(proc'[x]))
                          /\ x # o => proc'[x].note # proc'[o].note
  BY DEF BootsAreNumbered
<1>1. /\ Effect(s, c, new) /\ s.file \in Files
      /\ content'[s.file] = new /\ \A g \in Files : g # s.file => content'[g] = content[g]
      /\ lost \subseteq lost'
      /\ s.file \notin lost' => Fresh(s, proc[p])
      /\ Fresh(s, proc[p]) /\ s.file # "code" => c = content[s.file]
      /\ Writing(s, c, proc[p]) /\ Result(s, c, proc[p], new) /\ s \in AllSteps
  <2>1. Writing(s, c, proc[p]) /\ Result(s, c, proc[p], new) /\ s \in AllSteps
    BY DEF Written, Writing
  <2> QED
    BY <2>1, WrittenFacts
<1>2. /\ \A o \in Procs : Booting(proc[o]) =>
            /\ proc[o].note <= content["state"].boots
            /\ proc[o].note \notin Range(content["boots"])
      /\ \A o, x \in Procs : Booting(proc[o]) /\ Booting(proc[x]) =>
            /\ proc[o].note \notin Range(Listed(proc[x]))
            /\ x # o => proc[x].note # proc[o].note
  BY <1>1 DEF WorkInv, BootsAreNumbered
<1>3. ASSUME NEW o \in Procs \ {p}
      PROVE  /\ Booting(proc'[o]) <=> Booting(proc[o])
             /\ Listed(proc'[o]) = Listed(proc[o]) /\ proc'[o].note = proc[o].note
  BY DEF Booting, Acting, Listed
<1>4. PICK k \in Nat, m \in Nat : k = content["state"].boots /\ m = content'["state"].boots /\ k <= m
  BY WrittenGrows DEF Grown
<1>5. \A o \in Procs : proc[o].note \in Nat
  BY DEF WorkInv, Shapes, ProcIs
<1>6. \A v : v \in Seq(Nat) /\ (\A i \in DOMAIN v : v[i] <= k) => Range(v) \subseteq 0..k
  <2> SUFFICES ASSUME NEW v \in Seq(Nat), \A i \in DOMAIN v : v[i] <= k, NEW i \in DOMAIN v PROVE v[i] \in 0..k
    BY DEF Range
  <2>1. v[i] \in Nat
    BY LenProperties, ElementOfSeq
  <2> QED
    BY <2>1
<1>7. Range(content["boots"]) \subseteq 0..k
  <2>1. Good("boots", content["boots"])
    BY DEF WorkInv, Files
  <2> QED
    BY <1>1, <1>4, <1>6, <2>1 DEF Good
<1>8. ASSUME NEW o \in Procs, Booting(proc[o]) PROVE Range(Listed(proc[o])) \subseteq 0..k
  <2>1. CASE proc[o].stage = "next"
    BY <2>1 DEF Listed, Range
  <2>2. CASE proc[o].stage # "next"
    <3>1. CopyIsGood(proc[o]) /\ ProcIs(proc[o]) /\ proc[o].todo # <<>>
      BY <1>8 DEF WorkInv, Sound, Shapes, Booting, Acting
    <3>2. Head(proc[o].todo) \in AllSteps
      BY <3>1, Tails DEF ProcIs
    <3>3. Head(proc[o].todo).file = "boots"
      BY <1>8, <3>2, StepForms DEF Booting
    <3>4. Good("boots", proc[o].copy[2])
      BY <2>2, <3>1, <3>3 DEF CopyIsGood
    <3>5. Listed(proc[o]) = proc[o].copy[2]
      BY <2>2 DEF Listed
    <3> QED
      BY <1>1, <1>4, <1>6, <3>4, <3>5 DEF Good
  <2> QED
    BY <2>1, <2>2
<1>9. Range(Listed(q)) = {}
  BY DEF Listed, Range
<1>10. s.file = "boots" => /\ Booting(proc[p]) /\ Listed(proc[p]) = c
                           /\ Range(content'["boots"]) = Range(c) \cup {proc[p].note}
  <2> SUFFICES ASSUME s.file = "boots"
               PROVE  /\ Booting(proc[p]) /\ Listed(proc[p]) = c
                      /\ Range(content'["boots"]) = Range(c) \cup {proc[p].note}
    OBVIOUS
  <2>1. s.op = "append" /\ Range(new) = Range(c) \cup {proc[p].note}
    BY <1>1, BootsEffect
  <2> QED
    BY <1>1, <2>1 DEF Booting, Acting, Listed, Busy, Now
<1>11. Booting(q) =>
          /\ q.note = k + 1 /\ m = k + 1
          /\ content'["boots"] = content["boots"]
  <2> SUFFICES ASSUME Booting(q) PROVE q.note = k + 1 /\ m = k + 1 /\ content'["boots"] = content["boots"]
    OBVIOUS
  <2>1. s.op = "boot" /\ q.note = new.boots
    OBVIOUS
  <2>2. s.file = "state"
    BY <1>1, <2>1 DEF AllSteps, LogSteps, LedgerSteps, FixSteps, RunSteps, CodeSteps, StepOf
  <2>3. new.boots = c.boots + 1
    BY <1>1, <2>1, <2>2, StateEffect
  <2>4. c = content["state"]
    BY <1>1, <2>2
  <2> QED
    BY <1>1, <1>4, <2>1, <2>2, <2>3, <2>4 DEF Files
<1> HIDE DEF Booting, Listed
<1>12. ASSUME NEW o \in Procs, Booting(proc'[o])
       PROVE  proc'[o].note <= m /\ proc'[o].note \notin Range(content'["boots"])
  <2>1. CASE o = p
    <3>1. k + 1 \notin Range(content["boots"])
      BY <1>7
    <3> QED
      BY <1>11, <1>12, <2>1, <3>1
  <2>2. CASE o # p
    <3>1. Booting(proc[o]) /\ proc'[o].note = proc[o].note
      BY <1>3, <1>12, <2>2
    <3>2. proc[o].note <= k /\ proc[o].note \notin Range(content["boots"])
      BY <1>2, <1>4, <3>1
    <3>3. CASE s.file = "boots"
      <4>1. proc[o].note \notin Range(Listed(proc[p])) /\ proc[p].note # proc[o].note
        BY <1>2, <1>10, <2>2, <3>1, <3>3
      <4> QED
        BY <1>4, <1>5, <1>10, <3>1, <3>2, <3>3, <4>1
    <3>4. CASE s.file # "boots"
      BY <1>1, <1>4, <1>5, <3>1, <3>2, <3>4 DEF Files
    <3> QED
      BY <3>3, <3>4
  <2> QED
    BY <2>1, <2>2
<1>13. ASSUME NEW o \in Procs, NEW x \in Procs, Booting(proc'[o]), Booting(proc'[x])
       PROVE  /\ proc'[o].note \notin Range(Listed(proc'[x]))
              /\ x # o => proc'[x].note # proc'[o].note
  <2>1. CASE o # p /\ x # p
    <3>1. /\ Booting(proc[o]) /\ proc'[o].note = proc[o].note /\ Booting(proc[x])
          /\ proc'[x].note = proc[x].note /\ Listed(proc'[x]) = Listed(proc[x])
      BY <1>3, <1>13, <2>1
    <3> QED
      BY <1>2, <3>1
  <2>2. CASE o # p /\ x = p
    <3>1. Booting(proc[o]) /\ proc'[o].note = proc[o].note /\ proc'[x].note = k + 1
      BY <1>3, <1>11, <1>13, <2>2
    <3>2. proc[o].note <= k /\ proc[o].note \in Nat
      BY <1>2, <1>4, <1>5, <3>1
    <3>3. proc[o].note # k + 1
      BY <3>2
    <3> QED
      BY <1>9, <2>2, <3>1, <3>3
  <2>3. CASE o = p /\ x # p
    <3>1. /\ Booting(proc[x]) /\ proc'[x].note = proc[x].note /\ proc'[o].note = k + 1
          /\ Listed(proc'[x]) = Listed(proc[x])
      BY <1>3, <1>11, <1>13, <2>3
    <3>2. proc[x].note <= k /\ proc[x].note \in Nat
      BY <1>2, <1>4, <1>5, <3>1
    <3>3. k + 1 \notin Range(Listed(proc[x])) /\ proc[x].note # k + 1
      BY <1>8, <3>1, <3>2
    <3> QED
      BY <3>1, <3>3
  <2>4. CASE o = p /\ x = p
    BY <1>9, <2>4
  <2> QED
    BY <2>1, <2>2, <2>3, <2>4
<1> QED
  BY <1>4, <1>12, <1>13

LEMMA WriteStep ==
    ASSUME WorkInv, NEW p \in Procs, Write(p)
    PROVE  WorkInv'
<1>1. PICK s : s = Now(p)
  OBVIOUS
<1>2. PICK r : r = proc[p]
  OBVIOUS
<1>3. PICK c : c = r.copy[2]
  OBVIOUS
<1>4. PICK new : new = Updated(p)
  OBVIOUS
<1>5. Updates(p) /\ Busy(p) /\ r.stage = "open"
  BY <1>2 DEF Write, Updates
<1>6. Written(s, c, r, new)
  <2>1. Writing(s, c, r)
    BY <1>1, <1>2, <1>3, <1>5, WriterIs
  <2>2. Result(s, c, r, new)
    BY <1>1, <1>2, <1>3, <1>4, <1>5, UpdatedIs
  <2>3. /\ content' = [content EXCEPT ![s.file] = new]
        /\ lost' = IF r.raced THEN lost \cup {s.file} ELSE lost
        /\ done' = IF s.op \in Adds THEN [done EXCEPT ![s.file] = @ + 1] ELSE done
        /\ packs' = packs /\ log' = log /\ budget' = budget
    BY <1>1, <1>2, <1>4 DEF Write
  <2> QED
    BY <2>1, <2>2, <2>3 DEF Written
<1>7. PICK q : q = AfterStep(p, Told(p, new), proc[p].row)
  OBVIOUS
<1>8. /\ ProcIs(q) /\ q.stage = "next" /\ q.todo = Tail(r.todo) /\ Once(q.todo) /\ Sound(q)'
      /\ Items(q.todo) \subseteq Items(r.todo)
      /\ \A item \in Items(q.todo) : ~Brings(s, item[1], item[2])
      /\ Booting(q) => s.op = "boot" /\ q.note = new.boots
  <2>1. WorkInv /\ Busy(p) /\ s = Now(p) /\ Written(s, c, proc[p], new)
    BY <1>1, <1>2, <1>5, <1>6
  <2>2. GoesOnAs(q, s, proc[p].todo, new) /\ Sound(q)'
    BY ONLY <1>7, <2>1, p \in Procs, WriterIsSound
  <2> QED
    BY <1>2, <2>2 DEF GoesOnAs
<1>9. /\ s \in AllSteps /\ s.file \in Files /\ s = Head(r.todo) /\ r.todo # <<>> /\ ProcIs(r)
  BY <1>1, <1>2, <1>5, <1>6 DEF Written, Writing, Busy, Now
<1>10. proc' = [o \in Procs |->
             IF o = p THEN q
             ELSE IF Busy(o) /\ Now(o).file = s.file /\ (proc[o].stage # "next" \/ Now(o).op = "upsert")
             THEN [proc[o] EXCEPT !.raced = TRUE]
             ELSE proc[o]]
  BY <1>1, <1>4, <1>7 DEF Write
<1>11. ASSUME NEW o \in Procs \ {p}
       PROVE  /\ proc'[o] = proc[o] \/ proc'[o] = [proc[o] EXCEPT !.raced = TRUE]
              /\ (/\ Acting(proc[o]) /\ ~proc'[o].raced /\ Head(proc[o].todo).file = s.file
                  /\ proc[o].stage # "next" \/ Head(proc[o].todo).op = "upsert") => FALSE
  <2>1. ProcIs(proc[o])
    BY DEF WorkInv, Shapes
  <2>2. CASE Busy(o) /\ Now(o).file = s.file /\ (proc[o].stage # "next" \/ Now(o).op = "upsert")
    <3>1. proc'[o] = [proc[o] EXCEPT !.raced = TRUE]
      BY <1>10, <2>2
    <3>2. proc'[o].raced = TRUE
      BY <2>1, <3>1 DEF ProcIs
    <3> QED
      BY <3>1, <3>2
  <2>3. CASE ~(Busy(o) /\ Now(o).file = s.file /\ (proc[o].stage # "next" \/ Now(o).op = "upsert"))
    BY <1>10, <2>3 DEF Busy, Now, Acting
  <2> QED
    BY <2>2, <2>3
<1>12. proc'[p] = q /\ DOMAIN proc' = Procs /\ proc' = [o \in Procs |-> proc'[o]]
  BY <1>10
<1>13. ASSUME NEW o \in Procs \ {p}
       PROVE  /\ proc'[o].todo = proc[o].todo /\ proc'[o].note = proc[o].note /\ ProcIs(proc'[o])
              /\ proc'[o].stage = proc[o].stage /\ proc'[o].copy = proc[o].copy
  <2>1. PICK x : x = proc[o]
    OBVIOUS
  <2>2. PICK y : y = proc'[o]
    OBVIOUS
  <2>3. ProcIs(x) /\ (y = x \/ y = [x EXCEPT !.raced = TRUE])
    BY <1>11, <2>1, <2>2 DEF WorkInv, Shapes
  <2>4. y.todo = x.todo /\ y.note = x.note /\ ProcIs(y) /\ y.stage = x.stage /\ y.copy = x.copy
    BY <2>3 DEF ProcIs
  <2> QED
    BY <2>1, <2>2, <2>4
<1>14. /\ content'[s.file] = new /\ \A g \in Files : g # s.file => content'[g] = content[g]
       /\ DOMAIN content' = Files /\ content' = [g \in Files |-> content'[g]]
       /\ lost \subseteq lost' /\ lost' \subseteq Files /\ Made' = Made
       /\ s.file \notin lost' => Fresh(s, r)
       /\ Fresh(s, r) /\ s.file # "code" => c = content[s.file]
       /\ Effect(s, c, new)
  BY <1>6, WrittenFacts
<1>15. Grown
  BY <1>6, WrittenGrows
<1>16. /\ \A f \in Files : Good(f, content[f])'
       /\ LogIsTrue' /\ RowsAreOne' /\ UpdatesSurvive' /\ done' \in [Files -> Nat]
  BY <1>6, WrittenFiles
<1>17. BootsAreNumbered'
  <2>1. Written(s, c, proc[p], new) /\ c = proc[p].copy[2] /\ proc[p].stage = "open"
    BY <1>2, <1>3, <1>5, <1>6
  <2>2. /\ WorkInv /\ Busy(p) /\ s = Now(p) /\ proc'[p] = q /\ q.stage = "next"
        /\ Booting(q) => s.op = "boot" /\ q.note = new.boots
        /\ \A o \in Procs \ {p} : /\ proc'[o].todo = proc[o].todo /\ proc'[o].note = proc[o].note
                                  /\ proc'[o].stage = proc[o].stage /\ proc'[o].copy = proc[o].copy
    BY <1>1, <1>5, <1>8, <1>12, <1>13
  <2> QED
    BY ONLY <2>1, <2>2, p \in Procs, WrittenBoots
<1>18. ASSUME NEW o \in Procs PROVE Sound(proc[o])'
  <2>1. CASE o = p
    <3>1. Sound(q)'
      BY <1>8
    <3> QED
      BY <1>12, <2>1, <3>1
  <2>2. CASE o # p
    <3>1. PICK x : x = proc[o]
      OBVIOUS
    <3>2. PICK y : y = proc'[o]
      OBVIOUS
    <3>3. ProcIs(x) /\ Sound(x)
      BY <3>1 DEF WorkInv, Shapes
    <3>4. y = x \/ y = [x EXCEPT !.raced = TRUE]
      BY <1>11, <2>2, <3>1, <3>2
    <3>5. (/\ Acting(x) /\ ~y.raced /\ Head(x.todo).file # "code"
           /\ x.stage # "next" \/ Head(x.todo).op = "upsert")
             => content'[Head(x.todo).file] = content[Head(x.todo).file]
      <4> SUFFICES ASSUME Acting(x), ~y.raced, x.stage # "next" \/ Head(x.todo).op = "upsert"
                   PROVE  content'[Head(x.todo).file] = content[Head(x.todo).file]
        OBVIOUS
      <4>1. Head(x.todo).file # s.file
        BY <1>11, <2>2, <3>1, <3>2
      <4>2. Head(x.todo) \in AllSteps
        BY <3>3, Tails DEF ProcIs, Acting
      <4>3. x.stage # "next" => Head(x.todo).file \notin {"log", "pack"}
        BY <3>3 DEF Sound, CopyIsGood
      <4>4. Head(x.todo).file \in Files
        BY <4>2, <4>3, StepForms DEF Files
      <4> QED
        BY <1>14, <4>1, <4>4
    <3>6. Sound(y)'
      BY <1>15, <3>3, <3>4, <3>5, OtherIsSound
    <3> QED
      BY <3>2, <3>6
  <2> QED
    BY <2>1, <2>2
<1>19. NewItems'
  <2>1. ASSUME NEW item \in NewKinds \X Ids, Home(item[1]) \notin lost',
               Has(item[1], item[2], content'[Home(item[1])])
        PROVE  \/ Has(item[1], item[2], content[Home(item[1])])
               \/ item \in Items(r.todo) /\ item \notin Items(q.todo)
    <3>1. PICK h : h = Home(item[1])
      OBVIOUS
    <3>2. h \in Files /\ h # "code"
      BY <3>1 DEF Home, Files
    <3>3. CASE h # s.file
      BY <1>14, <2>1, <3>1, <3>2, <3>3
    <3>4. CASE h = s.file
      <4>1. Has(item[1], item[2], new) /\ c = content[h]
        BY <1>14, <2>1, <3>1, <3>2, <3>4
      <4>2. item[1] \in NewKinds /\ item[2] \in Ids
        OBVIOUS
      <4>3. Has(item[1], item[2], c) \/ Brings(s, item[1], item[2])
        BY <1>14, <3>1, <3>4, <4>1, <4>2 DEF Effect
      <4>4. Brings(s, item[1], item[2]) => item \in Items(r.todo) /\ item \notin Items(q.todo)
        <5>1. r.todo \in Seq(AllSteps)
          BY <1>9 DEF ProcIs
        <5>2. 1 \in DOMAIN r.todo /\ s = r.todo[1]
          BY <1>9, <5>1, Tails
        <5> QED
          BY <1>8, <5>2 DEF Items
      <4> QED
        BY <3>1, <4>1, <4>3, <4>4
    <3> QED
      BY <3>3, <3>4
  <2>2. PICK t : t = q.todo
    OBVIOUS
  <2>3. /\ NewItems /\ lost \subseteq lost' /\ Made \subseteq Made' /\ proc'[p].todo = t /\ Once(t)
        /\ \A o \in Procs \ {p} : proc'[o].todo = proc[o].todo
        /\ \A item \in Items(t) : item \in Items(proc[p].todo)
        /\ \A item \in NewKinds \X Ids :
              Home(item[1]) \notin lost' /\ Has(item[1], item[2], content'[Home(item[1])]) =>
                 \/ Has(item[1], item[2], content[Home(item[1])])
                 \/ item \in Items(proc[p].todo) /\ item \notin Items(t)
    BY <1>2, <1>8, <1>12, <1>13, <1>14, <2>1, <2>2 DEF WorkInv
  <2> QED
    BY ONLY <2>3, p \in Procs, ItemsKept
<1>20. Shapes'
  <2>1. \A o \in Procs : ProcIs(proc'[o])
    BY <1>8, <1>12, <1>13
  <2>2. whole' \in [Files -> BOOLEAN]
    <3>1. PICK w \in BOOLEAN : whole' = [whole EXCEPT ![s.file] = w]
      BY <1>1 DEF Write
    <3> QED
      BY <1>9, <3>1 DEF WorkInv, Shapes
  <2>3. budget' \in [commands : 0..MaxCommands, crashes : 0..MaxCrashes]
    BY DEF Write, WorkInv, Shapes
  <2> QED
    BY <1>12, <1>14, <1>16, <2>1, <2>2, <2>3 DEF Shapes, ProcIs
<1> QED
  BY <1>16, <1>17, <1>18, <1>19, <1>20 DEF WorkInv
-----------------------------------------------------------------------------
LEMMA IdleIs ==
    ProcIs(IdleProc) /\ IdleProc.todo = <<>> /\ IdleProc.stage = "next"
<1>1. IdleProc.todo = <<>> /\ IdleProc.stage = "next" /\ IdleProc.note = 0 /\ IdleProc.raced = FALSE
  BY DEF IdleProc
<1>2. IdleProc.row = NewConsensus /\ IdleProc.at = <<0, 0>>
  BY DEF IdleProc
<1>3. IdleProc = [todo |-> IdleProc.todo, stage |-> IdleProc.stage, copy |-> IdleProc.copy,
                  note |-> IdleProc.note, row |-> IdleProc.row, at |-> IdleProc.at, raced |-> IdleProc.raced]
  BY DEF IdleProc
<1>4. NewConsensus \in Rows /\ <<0, 0>> \in Nat \X Nat /\ <<>> \in Seq(AllSteps)
  BY DEF NewConsensus, Rows
<1> QED
  BY <1>1, <1>2, <1>3, <1>4 DEF ProcIs

(* The workspace that a session has used before.                           *)
LEMMA InitIsWell ==
    ASSUME Init PROVE WorkInv
<1>1. /\ Made = {1} /\ 1 \in Ids /\ Made \subseteq Ids0 /\ MaxCommands \in Nat
  BY WorkspaceConstants DEF Init, Made, Ids, Ids0
<1>2. /\ lost = {} /\ packs = {1} /\ budget = [commands |-> 0, crashes |-> 0]
      /\ log = {<<"directive", 1>>, <<"trust", 1>>, <<"boot", 1>>, <<"fix", 1>>, <<"embedded", 1>>,
                <<"candidates", 1>>}
      /\ DOMAIN content = Files /\ content = [f \in Files |-> content[f]]
  BY DEF Init, Files
<1>3. /\ content["directives"] = {[id |-> 1, status |-> "active", supersedes |-> 0]}
      /\ content["trust"].ok = 1 /\ content["trust"].bad = 0
      /\ content["curriculum"].seen = 0
      /\ content["state"] = [boots |-> 1, mode |-> "primary"] /\ content["boots"] = <<1>>
  BY DEF Init, RegisterDirective, RecordOutcome, NewTrust, NewCurriculum, BootState, NewState
<1>4. /\ content["fixes"] = {1} /\ content["edges"] = {}
      /\ content["consensus"] = [id \in Ids |-> NewConsensus]
      /\ content["index"] = [id \in Ids |-> IF id = 1 THEN "embedded" ELSE "absent"]
      /\ content["code"] = InitCode
  BY <1>1 DEF Init, EmbedRow, NewIndex
<1>5. /\ content["run"] = [patches |-> {}, candidates |-> {1}, scored |-> {1}, faults |-> {}]
      /\ content["profiles"] = [active |-> 1, names |-> {1}]
  BY DEF Init, SetScores, AddCandidates, NewRun, RegisterProfile, NewProfiles
<1>6. \A f \in Files : done[f] = IF f \in {"curriculum", "edges", "consensus", "index", "code"} THEN 0 ELSE 1
  BY DEF Init
<1>7. IsFiniteSet({1}) /\ Cardinality({1}) = 1 /\ IsFiniteSet({}) /\ Cardinality({}) = 0
  BY FS_Singleton, FS_EmptySet
<1>8. Uses(content["consensus"]) = {} /\ content["consensus"] \in [Ids -> Rows]
  BY <1>4 DEF Uses, NewConsensus, Rows
<1>9. <<1>> \in Seq(Nat) /\ Len(<<1>>) = 1 /\ DOMAIN <<1>> = {1} /\ <<1>>[1] = 1 /\ Range(<<1>>) = {1}
  BY DEF Range
<1>10. ASSUME NEW p \in Procs
       PROVE  /\ proc[p] = IdleProc /\ ProcIs(proc[p]) /\ Sound(proc[p]) /\ proc[p].todo = <<>>
              /\ Once(proc[p].todo) /\ Items(proc[p].todo) = {} /\ ~Booting(proc[p])
  <2>1. PICK r : r = IdleProc /\ r = proc[p]
    BY DEF Init
  <2>2. r.todo = <<>> /\ r.stage = "next" /\ ProcIs(r)
    BY <2>1, IdleIs
  <2>4. DOMAIN r.todo = {}
    BY <2>2
  <2> QED
    BY <2>1, <2>2, <2>4 DEF Sound, Supplied, Chained, HeadIsTold, CopyIsGood, Acting, Once, Items, Booting
<1>11. Shapes
  <2>1. DOMAIN proc = Procs /\ proc = [p \in Procs |-> proc[p]] /\ whole \in [Files -> BOOLEAN]
    BY DEF Init
  <2>2. budget \in [commands : 0..MaxCommands, crashes : 0..MaxCrashes]
    BY <1>2, WorkspaceConstants
  <2>3. done \in [Files -> Nat]
    BY DEF Init
  <2> QED
    BY <1>2, <1>10, <2>1, <2>2, <2>3 DEF Shapes
<1>12. /\ Good("directives", content["directives"]) /\ Good("trust", content["trust"])
       /\ Good("curriculum", content["curriculum"]) /\ Good("state", content["state"])
  <2>1. content["directives"] \subseteq DirectiveRows /\ IsFiniteSet(content["directives"])
    <3>1. 0 \in Ids0 /\ 1 \in Made
      BY <1>1 DEF Ids0
    <3>2. [id |-> 1, status |-> "active", supersedes |-> 0] \in DirectiveRows
      BY <3>1 DEF DirectiveRows
    <3> QED
      BY <1>3, <3>2, FS_Singleton
  <2> QED
    BY <1>3, <2>1 DEF Good
<1>13. Good("boots", content["boots"])
  BY <1>3, <1>9 DEF Good, IsInjective
<1>14. Good("fixes", content["fixes"]) /\ Good("edges", content["edges"])
  BY <1>1, <1>4, <1>7 DEF Good
<1>15. Good("consensus", content["consensus"])
  BY <1>7, <1>8 DEF Good
<1>16. Good("index", content["index"])
  BY <1>2, <1>4 DEF Good, IndexRows
<1>17. Good("code", content["code"])
  <2>1. InitCode \in Seq(Lines)
    <3>1. Range(InitCode) \subseteq Lines
      BY DEF Lines
    <3> QED
      BY <3>1, WorkspaceConstants
  <2> QED
    BY <1>4, <2>1 DEF Good
<1>18. Good("run", content["run"]) /\ Good("profiles", content["profiles"])
  BY <1>1, <1>5, <1>7 DEF Good, IsRun
<1>19. \A f \in Files : Good(f, content[f])
  BY <1>12, <1>13, <1>14, <1>15, <1>16, <1>17, <1>18 DEF Files
<1>20. NewItems /\ BootsAreNumbered
  BY <1>10 DEF NewItems, ItemsAreNew, BootsAreNumbered
<1>21. LogIsTrue
  <2>1. <<"directive", 1>> \in Known /\ <<"fix", 1>> \in Known
    <3>1. <<"directive", 1>> \in FactKinds \X Ids0 /\ <<"fix", 1>> \in FactKinds \X Ids0
      BY <1>1 DEF FactKinds
    <3>2. Has("directive", 1, content["directives"]) /\ Has("fix", 1, content["fixes"])
      BY <1>3, <1>4 DEF Has
    <3>3. Home("directive") = "directives" /\ Home("fix") = "fixes"
      BY DEF Home
    <3> QED
      BY <3>1, <3>2, <3>3 DEF Known
  <2>2. Count(content["trust"]) = 1
    BY <1>3 DEF Count
  <2> QED
    BY <1>2, <1>3, <1>9, <2>1, <2>2 DEF LogIsTrue, FactKinds
<1>22. RowsAreOne
  BY <1>3 DEF RowsAreOne
<1>23. UpdatesSurvive
  <2> SUFFICES ASSUME NEW f \in Files, f \notin {"index", "code"} PROVE Size(f, content[f]) = done[f]
    BY DEF UpdatesSurvive
  <2>1. CASE f = "directives"
    BY <1>3, <1>6, <2>1, FS_Singleton DEF Size
  <2>2. CASE f = "fixes" \/ f = "edges"
    BY <1>4, <1>6, <1>7, <2>2 DEF Size
  <2>3. CASE f = "trust"
    BY <1>3, <1>6, <2>3 DEF Size
  <2>6. CASE f = "curriculum"
    BY <1>3, <1>6, <2>6 DEF Size
  <2>7. CASE f = "state"
    BY <1>3, <1>6, <2>7 DEF Size
  <2>8. CASE f = "boots"
    BY <1>3, <1>6, <1>9, <2>8 DEF Size
  <2>9. CASE f = "profiles"
    BY <1>5, <1>6, <1>7, <2>9 DEF Size
  <2>4. CASE f = "consensus"
    BY <1>6, <1>7, <1>8, <2>4 DEF Size
  <2>5. CASE f = "run"
    <3>1. Size("run", content["run"]) = Cardinality({}) + Cardinality({1}) + Cardinality({})
      BY <1>5 DEF Size, Entries
    <3> QED
      BY <1>6, <1>7, <2>5, <3>1
  <2> QED
    BY <2>1, <2>2, <2>3, <2>4, <2>5, <2>6, <2>7, <2>8, <2>9 DEF Files
<1> QED
  BY <1>10, <1>11, <1>19, <1>20, <1>21, <1>22, <1>23 DEF WorkInv

LEMMA WorkspaceStep ==
    ASSUME WorkInv, [Next]_vars PROVE WorkInv'
<1>1. ASSUME NEW p \in Procs, Commands(p) PROVE WorkInv'
  BY <1>1, CommandStep
<1>2. ASSUME NEW p \in Procs, Steps(p) PROVE WorkInv'
  BY <1>2, RecordStep, ReadStep, WritePackStep, LoadStep, ResolveStep, OpenStep, WriteStep DEF Steps
<1>3. ASSUME NEW p \in Procs, Crash(p) PROVE WorkInv'
  BY <1>3, CrashStep
<1>4. CASE Evaluate \/ Train \/ CooldownPasses \/ UNCHANGED vars
  BY <1>4, TrainerStep
<1> QED
  BY <1>1, <1>2, <1>3, <1>4 DEF Next

\* WorkInv holds, whatever the processes do.
THEOREM WorkspaceIsSound == Spec => []WorkInv
<1>1. Init => WorkInv
  BY InitIsWell
<1>2. WorkInv /\ [Next]_vars => WorkInv'
  BY WorkspaceStep
<1> QED
  BY <1>1, <1>2, PTL DEF Spec

\* What a command wrote into a file is not undone by a later one, unless two
\* updates overlapped or a crash left the file empty (the load-change-save of
\* the stores of the workspace).
THEOREM WritesSurvive == Spec => []UpdatesSurvive
<1>1. WorkInv => UpdatesSurvive
  BY DEF WorkInv
<1> QED
  BY <1>1, WorkspaceIsSound, PTL

\* Events of the log tell of what is in the files: each command records its
\* event after it has written, and no two boots are told of by one number.
THEOREM EventsBacked == Spec => []EventsAreBacked
<1>1. ASSUME WorkInv PROVE EventsAreBacked
  <2>1. ASSUME NEW e \in log, e[1] \in {"directive", "fix", "patch"}
        PROVE  Home(e[1]) \in lost \/ Has(e[1], e[2], content[Home(e[1])])
    BY <1>1, <2>1 DEF WorkInv, LogIsTrue, FactKinds, Known
  <2>2. ASSUME NEW e \in log
        PROVE  /\ e[1] = "trust" /\ "trust" \notin lost => e[2] <= Size("trust", content["trust"])
               /\ e[1] = "boot" /\ "boots" \notin lost => e[2] \in Range(content["boots"])
    BY <1>1 DEF WorkInv, LogIsTrue, Count, Size
  <2>3. "state" \notin lost => IsInjective(content["boots"])
    <3>1. Good("boots", content["boots"])
      BY <1>1 DEF WorkInv, Files
    <3> QED
      BY <3>1 DEF Good
  <2>4. ASSUME NEW e \in log
        PROVE  /\ e[1] = "directive" /\ "directives" \notin lost => \E r \in content["directives"] : r.id = e[2]
               /\ e[1] = "fix" /\ "fixes" \notin lost => e[2] \in content["fixes"]
               /\ e[1] = "patch" /\ "run" \notin lost => \E r \in content["run"].patches : r.id = e[2]
    BY <2>1 DEF Home, Has
  <2> QED
    BY <2>2, <2>3, <2>4 DEF EventsAreBacked
<1> QED
  BY <1>1, WorkspaceIsSound, PTL

\* What one file refers to is in the other, also after a crash between the
\* writes: a pack is written before its index row, a fix before its edges, and
\* the active profile and the scored candidates are among those there are.
THEOREM ReferencesKept == Spec => []ReferencesAreWhole
<1>1. ASSUME WorkInv PROVE ReferencesAreWhole
  <2>1. Good("index", content["index"]) /\ Good("profiles", content["profiles"]) /\ Good("run", content["run"])
        /\ Good("edges", content["edges"])
    BY <1>1 DEF WorkInv, Files
  <2>2. \A id \in Ids : content["index"][id] # "absent" => id \in packs
    BY <2>1 DEF Good
  <2>3. content["profiles"].active \in content["profiles"].names
    BY <2>1 DEF Good
  <2>4. content["run"].scored \subseteq content["run"].candidates
    BY <2>1 DEF Good, IsRun
  <2>5. "fixes" \notin lost => content["edges"] \subseteq content["fixes"] \X content["fixes"]
    BY <2>1 DEF Good
  <2> QED
    BY <2>2, <2>3, <2>4, <2>5 DEF ReferencesAreWhole
<1> QED
  BY <1>1, WorkspaceIsSound, PTL
-----------------------------------------------------------------------------
(* Patches and their undo records.                                         *)

LEMMA LesserIs ==
    ASSUME NEW a \in Int, NEW b \in Int
    PROVE  /\ Min({a, b}) = IF a <= b THEN a ELSE b
           /\ Max({a, b}) = IF a <= b THEN b ELSE a
<1>1. CASE a <= b
  BY <1>1 DEF Min, Max
<1>2. CASE ~(a <= b)
  BY <1>2 DEF Min, Max
<1> QED
  BY <1>1, <1>2

LEMMA ThreeParts ==
    ASSUME NEW L, NEW a \in Seq(L), NEW b \in Seq(L), NEW c \in Seq(L)
    PROVE  /\ a \o b \o c \in Seq(L) /\ Len(a \o b \o c) = Len(a) + Len(b) + Len(c)
           /\ \A i \in 1..Len(a) : (a \o b \o c)[i] = a[i]
           /\ \A i \in 1..Len(b) : (a \o b \o c)[Len(a) + i] = b[i]
           /\ \A i \in 1..Len(c) : (a \o b \o c)[Len(a) + Len(b) + i] = c[i]
<1>1. PICK x \in Nat, y \in Nat, z \in Nat : x = Len(a) /\ y = Len(b) /\ z = Len(c)
  BY LenProperties
<1>2. PICK ab : ab = a \o b
  OBVIOUS
<1>3. ab \in Seq(L) /\ Len(ab) = x + y /\ \A i \in 1..(x + y) : ab[i] = IF i <= x THEN a[i] ELSE b[i - x]
  BY <1>1, <1>2, ConcatProperties
<1>4. PICK all : all = ab \o c
  OBVIOUS
<1>5. /\ all \in Seq(L) /\ Len(all) = x + y + z
      /\ \A i \in 1..(x + y + z) : all[i] = IF i <= x + y THEN ab[i] ELSE c[i - (x + y)]
  <2>1. /\ all \in Seq(L) /\ Len(all) = Len(ab) + Len(c)
        /\ \A i \in 1..(Len(ab) + Len(c)) : all[i] = IF i <= Len(ab) THEN ab[i] ELSE c[i - Len(ab)]
    BY <1>3, <1>4, ConcatProperties
  <2> QED
    BY <1>1, <1>3, <2>1
<1>6. \A i \in 1..x : all[i] = a[i]
  BY <1>3, <1>5
<1>7. ASSUME NEW i \in 1..y PROVE all[x + i] = b[i]
  <2>1. x + i \in 1..(x + y + z) /\ x + i \in 1..(x + y) /\ x + i <= x + y /\ ~(x + i <= x) /\ (x + i) - x = i
    OBVIOUS
  <2> QED
    BY <1>3, <1>5, <2>1
<1>8. ASSUME NEW i \in 1..z PROVE all[x + y + i] = c[i]
  <2>1. x + y + i \in 1..(x + y + z) /\ ~(x + y + i <= x + y) /\ (x + y + i) - (x + y) = i
    OBVIOUS
  <2> QED
    BY <1>5, <2>1
<1>9. a \o b \o c = all
  BY <1>2, <1>4
<1> QED
  BY <1>1, <1>5, <1>6, <1>7, <1>8, <1>9

(* A part of a sequence; what lies beyond its ends is not there.           *)
LEMMA PartIs ==
    ASSUME NEW L, NEW s \in Seq(L), NEW m \in Nat \ {0}, NEW n \in Int, n <= Len(s)
    PROVE  /\ SubSeq(s, m, n) \in Seq(L) /\ Len(SubSeq(s, m, n)) = IF m <= n THEN n - m + 1 ELSE 0
           /\ \A i \in 1..(n - m + 1) : SubSeq(s, m, n)[i] = s[m + i - 1]
<1>1. PICK k \in Nat : k = Len(s)
  BY LenProperties
<1>2. \A i \in m..n : i \in 1..k
  BY <1>1
<1>3. \A i \in m..n : s[i] \in L
  BY <1>1, <1>2, ElementOfSeq
<1>4. m \in Int
  OBVIOUS
<1> QED
  BY <1>3, <1>4, SubSeqProperties

(* Text put between the first and the last part can be cut out again.      *)
LEMMA PartsAreCut ==
    ASSUME NEW L, NEW a \in Seq(L), NEW b \in Seq(L), NEW c \in Seq(L), NEW s, s = a \o b \o c
    PROVE  SubSeq(s, 1, Len(a)) = a /\ SubSeq(s, Len(a) + Len(b) + 1, Len(s)) = c
<1>1. PICK x \in Nat, y \in Nat, z \in Nat : x = Len(a) /\ y = Len(b) /\ z = Len(c)
  BY LenProperties
<1>2. /\ s \in Seq(L) /\ Len(s) = x + y + z
      /\ \A i \in 1..x : s[i] = a[i]
      /\ \A i \in 1..z : s[x + y + i] = c[i]
  BY <1>1, ThreeParts
<1>3. SubSeq(s, 1, x) = a
  <2>1. x <= Len(s) /\ 1 \in Nat \ {0} /\ x \in Int
    BY <1>2
  <2>2. /\ SubSeq(s, 1, x) \in Seq(L) /\ Len(SubSeq(s, 1, x)) = IF 1 <= x THEN x - 1 + 1 ELSE 0
        /\ \A i \in 1..(x - 1 + 1) : SubSeq(s, 1, x)[i] = s[1 + i - 1]
    BY <1>2, <2>1, PartIs
  <2>3. Len(SubSeq(s, 1, x)) = x /\ x - 1 + 1 = x /\ \A i \in 1..x : 1 + i - 1 = i
    BY <2>2
  <2>4. \A i \in 1..x : SubSeq(s, 1, x)[i] = a[i]
    BY <1>2, <2>2, <2>3
  <2> QED
    BY <1>1, <2>2, <2>3, <2>4, SeqEqual
<1>4. SubSeq(s, x + y + 1, x + y + z) = c
  <2> DEFINE t == SubSeq(s, x + y + 1, x + y + z)
  <2>1. x + y + z <= Len(s) /\ x + y + 1 \in Nat \ {0} /\ x + y + z \in Int
    BY <1>2
  <2>2. /\ t \in Seq(L)
        /\ Len(t) = IF x + y + 1 <= x + y + z THEN (x + y + z) - (x + y + 1) + 1 ELSE 0
        /\ \A i \in 1..((x + y + z) - (x + y + 1) + 1) : t[i] = s[(x + y + 1) + i - 1]
    BY <1>2, <2>1, PartIs
  <2> HIDE DEF t
  <2>3. Len(t) = z /\ (x + y + z) - (x + y + 1) + 1 = z /\ \A i \in 1..z : (x + y + 1) + i - 1 = x + y + i
    BY <2>2
  <2>4. \A i \in 1..z : t[i] = c[i]
    BY <1>2, <2>2, <2>3
  <2> QED
    BY <1>1, <2>2, <2>3, <2>4, SeqEqual DEF t
<1> QED
  BY <1>1, <1>2, <1>3, <1>4

(* A sequence is the join of its parts before, in and after a range.       *)
LEMMA PartsAreJoined ==
    ASSUME NEW L, NEW s \in Seq(L), NEW lo \in Nat \ {0}, NEW hi \in Nat, NEW m \in Int,
           lo <= Len(s) + 1, lo <= hi + 1, m = IF hi <= Len(s) THEN hi ELSE Len(s)
    PROVE  SubSeq(s, 1, lo - 1) \o SubSeq(s, lo, m) \o SubSeq(s, hi + 1, Len(s)) = s
<1>1. PICK n \in Nat : n = Len(s)
  BY LenProperties
<1> DEFINE a == SubSeq(s, 1, lo - 1)
           b == SubSeq(s, lo, m)
           c == SubSeq(s, hi + 1, n)
<1>2. /\ a \in Seq(L) /\ Len(a) = lo - 1 /\ \A i \in 1..(lo - 1) : a[i] = s[i]
  <2>1. lo - 1 <= Len(s) /\ 1 \in Nat \ {0} /\ lo - 1 \in Int
    BY <1>1
  <2>2. /\ a \in Seq(L) /\ Len(a) = IF 1 <= lo - 1 THEN (lo - 1) - 1 + 1 ELSE 0
        /\ \A i \in 1..((lo - 1) - 1 + 1) : a[i] = s[1 + i - 1]
    BY <2>1, PartIs
  <2> HIDE DEF a
  <2>3. Len(a) = lo - 1 /\ (lo - 1) - 1 + 1 = lo - 1 /\ \A i \in 1..(lo - 1) : 1 + i - 1 = i
    BY <2>2
  <2> QED
    BY <2>2, <2>3
<1>3. /\ b \in Seq(L) /\ Len(b) = m - lo + 1 /\ \A i \in 1..(m - lo + 1) : b[i] = s[lo - 1 + i]
  <2>1. m <= Len(s) /\ m >= lo - 1
    BY <1>1
  <2>2. /\ b \in Seq(L) /\ Len(b) = IF lo <= m THEN m - lo + 1 ELSE 0
        /\ \A i \in 1..(m - lo + 1) : b[i] = s[lo + i - 1]
    BY <2>1, PartIs
  <2> HIDE DEF b
  <2>3. Len(b) = m - lo + 1 /\ \A i \in 1..(m - lo + 1) : lo + i - 1 = lo - 1 + i
    BY <2>1, <2>2
  <2> QED
    BY <2>2, <2>3
<1>4. /\ c \in Seq(L) /\ Len(c) = n - m /\ \A i \in 1..(n - m) : c[i] = s[m + i]
  <2>1. n <= Len(s) /\ hi + 1 \in Nat \ {0} /\ n \in Int
    BY <1>1
  <2>2. /\ c \in Seq(L) /\ Len(c) = IF hi + 1 <= n THEN n - (hi + 1) + 1 ELSE 0
        /\ \A i \in 1..(n - (hi + 1) + 1) : c[i] = s[(hi + 1) + i - 1]
    BY <2>1, PartIs
  <2> HIDE DEF c
  <2>3. CASE hi <= n
    <3>1. m = hi /\ Len(c) = n - m /\ n - (hi + 1) + 1 = n - m /\ \A i \in 1..(n - m) : (hi + 1) + i - 1 = m + i
      BY <1>1, <2>2, <2>3
    <3> QED
      BY <2>2, <3>1
  <2>4. CASE ~(hi <= n)
    BY <1>1, <2>2, <2>4
  <2> QED
    BY <2>3, <2>4
<1> HIDE DEF a, b, c
<1>5. PICK x \in Nat, y \in Nat, z \in Nat : x = lo - 1 /\ y = m - lo + 1 /\ z = n - m
  <2>1. m <= n /\ m >= lo - 1
    BY <1>1
  <2>2. lo - 1 \in Nat /\ m - lo + 1 \in Nat /\ n - m \in Nat
    BY <2>1
  <2> QED
    BY <2>2
<1>6. x + y = m /\ x + y + z = n
  BY <1>5
<1>7. PICK t : t = a \o b \o c
  OBVIOUS
<1>8. /\ t \in Seq(L) /\ Len(t) = n
      /\ \A i \in 1..x : t[i] = a[i]
      /\ \A i \in 1..y : t[x + i] = b[i]
      /\ \A i \in 1..z : t[m + i] = c[i]
  <2>1. Len(a) = x /\ Len(b) = y /\ Len(c) = z
    BY <1>2, <1>3, <1>4, <1>5
  <2>3. a \in Seq(L) /\ b \in Seq(L) /\ c \in Seq(L)
    BY <1>2, <1>3, <1>4
  <2>4. /\ a \o b \o c \in Seq(L) /\ Len(a \o b \o c) = Len(a) + Len(b) + Len(c)
        /\ \A i \in 1..Len(a) : (a \o b \o c)[i] = a[i]
        /\ \A i \in 1..Len(b) : (a \o b \o c)[Len(a) + i] = b[i]
        /\ \A i \in 1..Len(c) : (a \o b \o c)[Len(a) + Len(b) + i] = c[i]
    BY ONLY <2>3, ThreeParts
  <2>2. /\ t \in Seq(L) /\ Len(t) = Len(a) + Len(b) + Len(c)
        /\ \A i \in 1..Len(a) : t[i] = a[i]
        /\ \A i \in 1..Len(b) : t[Len(a) + i] = b[i]
        /\ \A i \in 1..Len(c) : t[Len(a) + Len(b) + i] = c[i]
    BY ONLY <1>7, <2>4
  <2> QED
    BY <1>6, <2>1, <2>2
<1>9. ASSUME NEW i \in 1..n PROVE t[i] = s[i]
  <2>1. CASE i <= x
    <3>1. i \in 1..x /\ i \in 1..(lo - 1)
      BY <1>5, <2>1
    <3> QED
      BY <1>2, <1>8, <3>1
  <2>2. CASE x < i /\ i <= m
    <3>1. PICK j \in Nat : j = i - x
      BY <1>5, <2>2
    <3>2. j \in 1..y /\ x + j = i /\ j \in 1..(m - lo + 1) /\ lo - 1 + j = i
      BY <1>5, <1>6, <2>2, <3>1
    <3>3. b[j] = s[lo - 1 + j]
      BY <1>3, <3>2
    <3>4. t[x + j] = b[j]
      BY <1>8, <3>2
    <3> QED
      BY <3>2, <3>3, <3>4
  <2>3. CASE m < i
    <3>0. m \in Nat /\ i \in Nat /\ i - m \in Nat
      BY <1>5, <1>6, <2>3
    <3>1. PICK j \in Nat : j = i - m
      BY <3>0
    <3>2. j \in 1..z /\ m + j = i /\ j \in 1..(n - m)
      BY <1>5, <1>6, <2>3, <3>1
    <3> QED
      BY <1>4, <1>8, <3>2
  <2> QED
    BY <1>5, <1>6, <2>1, <2>2, <2>3
<1>10. t = s
  BY <1>1, <1>8, <1>9, SeqEqual
<1> QED
  BY <1>1, <1>7, <1>10 DEF a, b, c

(* The undo record of a patch puts back what the patch took out.           *)
LEMMA UndoRestores ==
    ASSUME NEW L, NEW lines \in Seq(L), NEW text \in Seq(L), lines # <<>>, text # <<>>,
           NEW lo \in Nat \ {0}, NEW hi \in Nat, lo <= Len(lines) + 1, lo <= hi + 1,
           Rejoined(Slice(lines, lo, hi)) = Slice(lines, lo, hi)
    PROVE  LET undo == Undo(lines, lo, hi, text) IN
           Replace(Replace(lines, lo, hi, text), undo.lo, undo.hi, undo.text) = lines
<1>1. PICK n \in Nat, k \in Nat : n = Len(lines) /\ k = Len(text) /\ k >= 1
  BY LenProperties, EmptySeq
<1>2. PICK m \in Int : m = (IF hi <= n THEN hi ELSE n) /\ m = Min({hi, n}) /\ m <= n
  BY LesserIs
<1>3. PICK a : a = SubSeq(lines, 1, lo - 1)
  OBVIOUS
<1>4. PICK b : b = SubSeq(lines, lo, m)
  OBVIOUS
<1>5. PICK c : c = SubSeq(lines, hi + 1, n)
  OBVIOUS
<1>6. /\ a \in Seq(L) /\ b \in Seq(L) /\ c \in Seq(L) /\ Len(a) = lo - 1
  <2>1. lo - 1 <= Len(lines) /\ 1 \in Nat \ {0} /\ lo - 1 \in Int
    BY <1>1
  <2>2. a \in Seq(L) /\ Len(a) = IF 1 <= lo - 1 THEN (lo - 1) - 1 + 1 ELSE 0
    BY <1>3, <2>1, PartIs
  <2>3. b \in Seq(L)
    BY <1>1, <1>2, <1>4, PartIs
  <2>4. hi + 1 \in Nat \ {0} /\ n \in Int /\ n <= Len(lines)
    BY <1>1
  <2>5. c \in Seq(L)
    BY <1>5, <2>4, PartIs
  <2> QED
    BY <2>2, <2>3, <2>5
<1>7. a \o b \o c = lines
  BY <1>1, <1>2, <1>3, <1>4, <1>5, PartsAreJoined
<1>8. PICK after : after = a \o text \o c
  OBVIOUS
<1>9. after \in Seq(L) /\ Len(after) = (lo - 1) + k + Len(c) /\ after # <<>> /\ Len(c) \in Nat
  <2>1. after \in Seq(L) /\ Len(after) = Len(a) + Len(text) + Len(c) /\ Len(c) \in Nat
    <3>1. /\ a \o text \o c \in Seq(L)
          /\ Len(a \o text \o c) = Len(a) + Len(text) + Len(c)
      <4>1. a \in Seq(L) /\ text \in Seq(L) /\ c \in Seq(L)
        BY <1>6
      <4> QED
        BY ONLY <4>1, ThreeParts
    <3> QED
      BY <1>6, <1>8, <3>1, LenProperties
  <2>2. Len(after) # 0
    BY <1>1, <1>6, <2>1
  <2>3. Len(<<>>) = 0
    BY EmptySeq
  <2> QED
    BY <1>1, <1>6, <2>1, <2>2, <2>3
<1>10. Replace(lines, lo, hi, text) = after
  <2>1. Min({lo - 1, n}) = lo - 1
    BY <1>1, LesserIs
  <2> QED
    BY <1>1, <1>3, <1>5, <1>8, <1>9, <2>1 DEF Replace, Before
<1>11. PICK undo : undo = Undo(lines, lo, hi, text)
  OBVIOUS
<1>12. undo.lo = lo /\ undo.hi = lo + k - 1 /\ undo.text = b
  <2>1. Max({k, 1}) = k
    <3>1. Max({k, 1}) = IF k <= 1 THEN 1 ELSE k
      <4>1. k \in Int /\ 1 \in Int
        OBVIOUS
      <4> QED
        BY ONLY <4>1, LesserIs
    <3> QED
      BY <1>1, <3>1
  <2>2. Slice(lines, lo, hi) = b
    BY <1>1, <1>2, <1>4 DEF Slice
  <2> QED
    BY <1>1, <1>11, <2>1, <2>2 DEF Undo
<1>13. SubSeq(after, 1, lo - 1) = a /\ SubSeq(after, (lo + k - 1) + 1, Len(after)) = c
  <2>1. SubSeq(after, 1, Len(a)) = a /\ SubSeq(after, Len(a) + Len(text) + 1, Len(after)) = c
    <3>1. a \in Seq(L) /\ text \in Seq(L) /\ c \in Seq(L)
      BY <1>6
    <3>2. /\ SubSeq(a \o text \o c, 1, Len(a)) = a
          /\ SubSeq(a \o text \o c, Len(a) + Len(text) + 1, Len(a \o text \o c)) = c
      BY ONLY <3>1, PartsAreCut
    <3> QED
      BY ONLY <1>8, <3>2
  <2>2. Len(a) = lo - 1 /\ Len(a) + Len(text) + 1 = (lo + k - 1) + 1
    BY <1>1, <1>6
  <2> QED
    BY <2>1, <2>2
<1>14. Min({lo - 1, Len(after)}) = lo - 1
  <2>1. lo - 1 \in Int /\ Len(after) \in Int /\ lo - 1 <= Len(after)
    BY <1>1, <1>9
  <2> QED
    BY <2>1, LesserIs
<1>15. Replace(after, lo, lo + k - 1, b) = lines
  <2>1. Before(after, lo) = a
    BY <1>13, <1>14 DEF Before
  <2> QED
    BY <1>7, <1>9, <1>13, <2>1 DEF Replace
<1> QED
  BY <1>10, <1>11, <1>12, <1>15
-----------------------------------------------------------------------------
(***************************************************************************)
(* Patches of the code file.  What a process has loaded is the file as it  *)
(* is, or nothing where another had emptied it, until the file is written; *)
(* and it knows the lines of the symbol in that.                           *)
(***************************************************************************)
CodeIsRead(r, code, isWhole) ==
    r.stage # "next" /\ Head(r.todo).file = "code" =>
        LET s == Head(r.todo)  c == r.copy[2] IN
        /\ ~r.raced => c = code \/ (c = <<>> /\ ~isWhole)
        /\ s.op = "symbol" /\ r.stage # "loaded" =>
              /\ r.at[1] # 0
              /\ ~r.raced => r.at = FindSymbol(c, s.subject.symbol)

PatchIs(r) ==
    /\ r.before \in Seq(Lines) /\ r.text \in Seq(Lines) /\ r.lo \in Nat \ {0} /\ r.hi \in Nat
    /\ r.after = Replace(r.before, r.lo, r.hi, r.text)
    /\ r.undo = Undo(r.before, r.lo, r.hi, r.text)
    /\ r.symbol # "" /\ ~r.raced => <<r.lo, r.hi>> = FindSymbol(r.before, r.symbol)

CodeInv ==
    /\ \A p \in Procs : CodeIsRead(proc[p], content["code"], whole["code"])
    /\ \A r \in patches : PatchIs(r)

(* A process moves and no file is written.                                 *)
LEMMA CodeIsKept ==
    ASSUME WorkInv, CodeInv, NEW p \in Procs, NEW r, proc' = [proc EXCEPT ![p] = r],
           content' = content, patches' = patches, whole'["code"] => whole["code"],
           CodeIsRead(r, content["code"], whole'["code"])
    PROVE  CodeInv'
<1>1. DOMAIN proc = Procs
  BY DEF WorkInv, Shapes
<1>2. PICK w : w = whole'["code"]
  OBVIOUS
<1>3. ASSUME NEW q \in Procs PROVE CodeIsRead(proc'[q], content["code"], w)
  <2>1. CASE q = p
    BY <1>1, <1>2, <2>1
  <2>2. CASE q # p
    <3>1. proc'[q] = proc[q] /\ CodeIsRead(proc[q], content["code"], whole["code"])
      BY <1>1, <2>2 DEF CodeInv
    <3> QED
      BY <1>2, <3>1 DEF CodeIsRead
  <2> QED
    BY <2>1, <2>2
<1>4. \A q \in Procs : CodeIsRead(proc'[q], content'["code"], whole'["code"])
  BY <1>2, <1>3
<1>5. \A x \in patches' : PatchIs(x)
  BY DEF CodeInv
<1> QED
  BY <1>4, <1>5 DEF CodeInv

(* A process whose update is over, or has not begun.                       *)
LEMMA BetweenUpdates ==
    ASSUME WorkInv, CodeInv, NEW p \in Procs,
           \/ Raises(p)
           \/ \E note, row : GoesOn(p, note, row)
           \/ proc[p].stage = "next" /\ \E t : proc' = [proc EXCEPT ![p].todo = t],
           content' = content, patches' = patches, whole'["code"] => whole["code"]
    PROVE  CodeInv'
<1>1. DOMAIN proc = Procs /\ ProcIs(proc[p])
  BY DEF WorkInv, Shapes
<1>2. \E r : r.stage = "next" /\ proc' = [proc EXCEPT ![p] = r]
  <2>1. CASE Raises(p)
    <3>1. PICK r : r = IdleProc
      OBVIOUS
    <3>2. r.stage = "next"
      BY <3>1, IdleIs
    <3> QED
      BY <2>1, <3>1, <3>2 DEF Raises
  <2>2. ASSUME NEW note, NEW row, GoesOn(p, note, row)
        PROVE  \E r : r.stage = "next" /\ proc' = [proc EXCEPT ![p] = r]
    <3>1. PICK r : r = AfterStep(p, note, row)
      OBVIOUS
    <3>2. r = [todo |-> Tail(proc[p].todo), stage |-> "next", copy |-> <<"", {}>>, note |-> note,
               row |-> row, at |-> <<0, 0>>, raced |-> FALSE]
      BY <3>1 DEF AfterStep, IdleProc
    <3>3. r.stage = "next"
      BY <3>2
    <3> QED
      BY <2>2, <3>1, <3>3 DEF GoesOn
  <2>3. ASSUME NEW t, proc[p].stage = "next", proc' = [proc EXCEPT ![p].todo = t]
        PROVE  \E r : r.stage = "next" /\ proc' = [proc EXCEPT ![p] = r]
    <3>1. PICK o : o = proc[p]
      OBVIOUS
    <3>2. PICK r : r = [o EXCEPT !.todo = t]
      OBVIOUS
    <3>3. r.stage = "next"
      BY <1>1, <2>3, <3>1, <3>2 DEF ProcIs
    <3>4. proc' = [proc EXCEPT ![p] = r]
      BY <1>1, <2>3, <3>1, <3>2
    <3> QED
      BY <3>3, <3>4
  <2> QED
    BY <2>1, <2>2, <2>3
<1>3. PICK r : r.stage = "next" /\ proc' = [proc EXCEPT ![p] = r]
  BY <1>2
<1>4. CodeIsRead(r, content["code"], whole'["code"])
  BY <1>3 DEF CodeIsRead
<1> QED
  BY <1>3, <1>4, CodeIsKept

(* Whatever command is given, the process had none.                        *)
LEMMA GiveKeepsCode ==
    ASSUME WorkInv, CodeInv, NEW p \in Procs, Commands(p)
    PROVE  CodeInv'
<1>1. ASSUME NEW kind, NEW t, Give(p, kind, t) PROVE CodeInv'
  <2>1. /\ proc' = [proc EXCEPT ![p].todo = t] /\ content' = content /\ patches' = patches
        /\ whole' = whole /\ proc[p].todo = <<>>
    BY <1>1 DEF Give
  <2>2. proc[p].stage = "next"
    BY <2>1 DEF WorkInv, Sound, CopyIsGood, Acting
  <2> QED
    BY <2>1, <2>2, BetweenUpdates
<1>2. CASE DirectiveCommand(p) \/ ContinuityCommand(p) \/ TrustCommand(p) \/ CurriculumCommand(p)
  BY <1>1, <1>2 DEF DirectiveCommand, ContinuityCommand, TrustCommand, CurriculumCommand
<1>3. CASE FixNetCommand(p)
  BY <1>1, <1>3 DEF FixNetCommand
<1>4. CASE VerdictCommand(p) \/ ProfileCommand(p)
  BY <1>1, <1>4 DEF VerdictCommand, ProfileCommand
<1>5. CASE RunCommand(p)
  BY <1>1, <1>5 DEF RunCommand
<1>6. CASE CodeCommand(p)
  BY <1>1, <1>6 DEF CodeCommand
<1> QED
  BY <1>2, <1>3, <1>4, <1>5, <1>6 DEF Commands

LEMMA ReadKeepsCode ==
    ASSUME WorkInv, CodeInv, NEW p \in Procs, Record(p) \/ Read(p) \/ WritePack(p) \/ Crash(p)
    PROVE  CodeInv'
<1>1. content' = content /\ patches' = patches /\ whole' = whole
  BY DEF Record, Read, WritePack, Crash
<1>2. CASE Record(p) \/ WritePack(p)
  <2>1. \E note, row : GoesOn(p, note, row)
    BY <1>2 DEF Record, WritePack, Passes
  <2> QED
    BY <1>1, <2>1, BetweenUpdates
<1>3. CASE Crash(p)
  <2>1. Raises(p)
    BY <1>3 DEF Crash
  <2> QED
    BY <1>1, <2>1, BetweenUpdates
<1>4. CASE Read(p)
  <2> DEFINE s == Now(p)
  <2>1. s.op \in Reads /\ (Raises(p) \/ Learns(p)) /\ Busy(p)
    BY <1>4 DEF Read
  <2>2. proc[p].stage = "next"
    <3>1. Sound(proc[p]) /\ s = Head(proc[p].todo)
      BY DEF WorkInv, Now
    <3> QED
      BY <2>1, <3>1 DEF Sound, CopyIsGood
  <2>3. CASE Raises(p)
    BY <1>1, <2>3, BetweenUpdates
  <2>4. CASE s.op \in {"nearest", "best", "score"} /\ Learns(p)
    <3>1. \E note, row : GoesOn(p, note, row)
      BY <2>4 DEF Learns
    <3> QED
      BY <1>1, <3>1, BetweenUpdates
  <2>5. CASE s.op \in {"read", "known", "chosen", "approve"} /\ Learns(p)
    <3>1. Passes(p) \/ Raises(p)
      BY <2>5 DEF Learns
    <3>2. Raises(p) \/ \E note, row : GoesOn(p, note, row)
      BY <3>1 DEF Passes
    <3> QED
      BY <1>1, <3>2, BetweenUpdates
  <2>6. CASE s.op = "court" /\ Learns(p)
    <3>1. \E t : proc' = [proc EXCEPT ![p].todo = t]
      BY <2>6 DEF Learns
    <3> QED
      BY <1>1, <2>2, <3>1, BetweenUpdates
  <2> QED
    BY <2>1, <2>3, <2>4, <2>5, <2>6 DEF Reads
<1> QED
  BY <1>2, <1>3, <1>4

LEMMA LoadKeepsCode ==
    ASSUME WorkInv, CodeInv, NEW p \in Procs, Load(p)
    PROVE  CodeInv'
<1> DEFINE s == Now(p)
           c == Loaded(s.file)
<1>1. content' = content /\ patches' = patches /\ whole' = whole
  BY DEF Load
<1>2. CASE Raises(p) \/ Passes(p)
  <2>1. Raises(p) \/ \E note, row : GoesOn(p, note, row)
    BY <1>2 DEF Passes
  <2> QED
    BY <1>1, <2>1, BetweenUpdates
<1>3. CASE proc' = [proc EXCEPT ![p].stage = "loaded", ![p].copy = <<s.file, c>>]
  <2>1. PICK o : o = proc[p]
    OBVIOUS
  <2>2. PICK r : r = [o EXCEPT !.stage = "loaded", !.copy = <<s.file, c>>]
    OBVIOUS
  <2>3. ProcIs(o) /\ DOMAIN proc = Procs /\ s = Head(o.todo)
    BY <2>1 DEF WorkInv, Shapes, Now
  <2>4. r.todo = o.todo /\ r.stage = "loaded" /\ r.copy[2] = c
    BY <2>2, <2>3 DEF ProcIs
  <2>5. proc' = [proc EXCEPT ![p] = r]
    BY <1>3, <2>1, <2>2, <2>3
  <2>6. s.file = "code" => c = content["code"] \/ (c = <<>> /\ ~whole["code"])
    BY DEF Loaded
  <2> HIDE DEF s, c
  <2>7. CodeIsRead(r, content["code"], whole["code"])
    BY <2>3, <2>4, <2>6 DEF CodeIsRead
  <2> QED
    BY <1>1, <2>5, <2>7, CodeIsKept
<1> QED
  BY <1>2, <1>3 DEF Load

LEMMA ResolveKeepsCode ==
    ASSUME WorkInv, CodeInv, NEW p \in Procs, ResolveLines(p)
    PROVE  CodeInv'
<1> DEFINE symbol == Now(p).subject.symbol
           at == FindSymbol(Loaded("code"), symbol)
<1>1. content' = content /\ patches' = patches /\ whole' = whole /\ proc[p].stage = "loaded"
  BY DEF ResolveLines
<1>2. CASE Raises(p)
  BY <1>1, <1>2, BetweenUpdates
<1>3. CASE at # <<0, 0>> /\ proc' = [proc EXCEPT ![p].stage = "resolved", ![p].at = at]
  <2>1. PICK code : code = Loaded("code")
    OBVIOUS
  <2>2. code # <<>> /\ whole["code"] /\ code = content["code"]
    <3>1. FindSymbol(<<>>, symbol) = <<0, 0>>
      BY DEF FindSymbol
    <3> QED
      BY <1>3, <2>1, <3>1 DEF Loaded
  <2>3. at[1] # 0
    <3>1. code \in Seq(Lines)
      <4>1. Good("code", content["code"])
        BY DEF WorkInv, Files
      <4> QED
        BY <2>2, <4>1 DEF Good
    <3> DEFINE lines == {i \in DOMAIN code : code[i].symbol = symbol}
    <3>2. lines \subseteq Nat \ {0} /\ \A i \in lines : i <= Len(code) /\ Len(code) \in Nat
      BY <3>1, LenProperties
    <3>3. lines # {} /\ at = <<Min(lines), Max(lines)>>
      BY <1>3, <2>1 DEF FindSymbol
    <3> HIDE DEF lines
    <3>4. Min(lines) \in lines
      BY <3>2, <3>3, MinMaxOfNaturals
    <3> QED
      BY <3>2, <3>3, <3>4
  <2>4. PICK o : o = proc[p]
    OBVIOUS
  <2>5. PICK r : r = [o EXCEPT !.stage = "resolved", !.at = at]
    OBVIOUS
  <2>6. ProcIs(o) /\ DOMAIN proc = Procs /\ Now(p) = Head(o.todo)
    BY <2>4 DEF WorkInv, Shapes, Now
  <2>7. at = FindSymbol(content["code"], Head(o.todo).subject.symbol)
    BY <2>1, <2>2, <2>6
  <2> HIDE DEF at
  <2>8. r.todo = o.todo /\ r.copy = o.copy /\ r.raced = o.raced /\ r.at = at
    BY <2>5, <2>6 DEF ProcIs
  <2>9. proc' = [proc EXCEPT ![p] = r]
    BY <1>3, <2>4, <2>5, <2>6
  <2>10. CodeIsRead(o, content["code"], whole["code"])
    BY <2>4 DEF CodeInv
  <2>11. CodeIsRead(r, content["code"], whole["code"])
    BY <1>1, <2>2, <2>3, <2>4, <2>7, <2>8, <2>10 DEF CodeIsRead
  <2> QED
    BY <1>1, <2>9, <2>11, CodeIsKept
<1> QED
  BY <1>2, <1>3 DEF ResolveLines

LEMMA OpenKeepsCode ==
    ASSUME WorkInv, CodeInv, NEW p \in Procs, Open(p)
    PROVE  CodeInv'
<1>1. PICK o : o = proc[p]
  OBVIOUS
<1>2. PICK r : r = [o EXCEPT !.stage = "open"]
  OBVIOUS
<1>3. ProcIs(o) /\ DOMAIN proc = Procs /\ Now(p) = Head(o.todo)
  BY <1>1 DEF WorkInv, Shapes, Now
<1>4. r.todo = o.todo /\ r.copy = o.copy /\ r.raced = o.raced /\ r.at = o.at
  BY <1>2, <1>3 DEF ProcIs
<1>5. /\ proc' = [proc EXCEPT ![p] = r] /\ content' = content /\ patches' = patches
      /\ o.stage = IF Head(o.todo).op = "symbol" THEN "resolved" ELSE "loaded"
  BY <1>1, <1>2, <1>3 DEF Open
<1>6. PICK w : w = whole'["code"]
  OBVIOUS
<1>7. w => whole["code"]
  <2>1. PICK f : f = Now(p).file
    OBVIOUS
  <2>2. whole' = [whole EXCEPT ![f] = FALSE]
    BY <2>1 DEF Open
  <2>3. DOMAIN whole = Files /\ "code" \in Files
    BY DEF WorkInv, Shapes, Files
  <2>4. CASE f = "code"
    <3>1. whole'["code"] = FALSE
      BY <2>2, <2>3, <2>4
    <3> QED
      BY <1>6, <3>1
  <2>5. CASE f # "code"
    <3>1. whole'["code"] = whole["code"]
      BY <2>2, <2>3, <2>5
    <3> QED
      BY <1>6, <3>1
  <2> QED
    BY <2>4, <2>5
<1>8. CodeIsRead(o, content["code"], whole["code"])
  BY <1>1 DEF CodeInv
<1>9. CodeIsRead(r, content["code"], w)
  BY <1>4, <1>5, <1>7, <1>8 DEF CodeIsRead
<1> QED
  BY <1>5, <1>6, <1>7, <1>9, CodeIsKept

LEMMA WriteKeepsCode ==
    ASSUME WorkInv, CodeInv, NEW p \in Procs, Write(p)
    PROVE  CodeInv'
<1>1. PICK s : s = Now(p)
  OBVIOUS
<1>2. PICK o : o = proc[p]
  OBVIOUS
<1>3. PICK new : new = Updated(p)
  OBVIOUS
<1>4. /\ ProcIs(o) /\ s = Head(o.todo) /\ DOMAIN proc = Procs /\ DOMAIN content = Files
      /\ Updates(p) /\ o.stage = "open" /\ whole \in [Files -> BOOLEAN]
  BY <1>1, <1>2 DEF WorkInv, Shapes, Write, Updates, Now
<1>5. Writing(s, o.copy[2], o) /\ Result(s, o.copy[2], o, new)
  BY <1>1, <1>2, <1>3, <1>4, WriterIs, UpdatedIs
<1>6. PICK q : q = AfterStep(p, Told(p, new), proc[p].row)
  OBVIOUS
<1>7. q.stage = "next"
  <2>1. PICK note, row : note = Told(p, new) /\ row = proc[p].row
    OBVIOUS
  <2>2. q = [todo |-> Tail(proc[p].todo), stage |-> "next", copy |-> <<"", {}>>, note |-> note,
             row |-> row, at |-> <<0, 0>>, raced |-> FALSE]
    BY <1>6, <2>1 DEF AfterStep, IdleProc
  <2> QED
    BY <2>2
<1>8. /\ proc'[p] = q
      /\ \A x \in Procs \ {p} :
            proc'[x] = IF Busy(x) /\ Now(x).file = s.file /\ (proc[x].stage # "next" \/ Now(x).op = "upsert")
                       THEN [proc[x] EXCEPT !.raced = TRUE] ELSE proc[x]
  BY <1>1, <1>3, <1>6 DEF Write
<1>9. PICK code, w : code = content'["code"] /\ w = whole'["code"]
  OBVIOUS
<1>10. s.file # "code" => code = content["code"] /\ w = whole["code"]
  <2>1. PICK f : f = s.file
    OBVIOUS
  <2>2. content' = [content EXCEPT ![f] = new]
    BY <1>1, <1>3, <2>1 DEF Write
  <2>3. PICK v \in BOOLEAN : whole' = [whole EXCEPT ![f] = v]
    BY <1>1, <2>1 DEF Write
  <2>4. DOMAIN whole = Files /\ "code" \in Files
    BY <1>4 DEF Files
  <2>5. f # "code" => content'["code"] = content["code"]
    BY <1>4, <2>2, <2>4
  <2>6. ASSUME f # "code" PROVE whole'["code"] = whole["code"]
    BY <2>3, <2>4, <2>6
  <2> QED
    BY <1>9, <2>1, <2>5, <2>6
<1>11. ASSUME NEW x \in Procs PROVE CodeIsRead(proc'[x], code, w)
  <2>1. CASE x = p
    BY <1>7, <1>8, <2>1 DEF CodeIsRead
  <2>2. CASE x # p
    <3>1. PICK r : r = proc[x]
      OBVIOUS
    <3>2. PICK t : t = proc'[x]
      OBVIOUS
    <3>3. ProcIs(r) /\ CopyIsGood(r) /\ CodeIsRead(r, content["code"], whole["code"])
      BY <3>1 DEF WorkInv, Shapes, Sound, CodeInv
    <3>4. t = IF r.todo # <<>> /\ Head(r.todo).file = s.file /\ (r.stage # "next" \/ Head(r.todo).op = "upsert")
              THEN [r EXCEPT !.raced = TRUE] ELSE r
      BY <1>8, <2>2, <3>1, <3>2 DEF Busy, Now
    <3>5. t.todo = r.todo /\ t.stage = r.stage /\ t.copy = r.copy /\ t.at = r.at /\ (t.raced \/ t = r)
      BY <3>3, <3>4 DEF ProcIs
    <3>6. CASE s.file = "code"
      <4>1. r.stage # "next" /\ Head(r.todo).file = "code" => t.raced
        <5>1. r.stage # "next" => r.todo # <<>>
          BY <3>3 DEF CopyIsGood, Acting
        <5>2. ASSUME r.stage # "next", Head(r.todo).file = "code" PROVE t = [r EXCEPT !.raced = TRUE]
          BY <3>4, <3>6, <5>1, <5>2
        <5> QED
          BY <3>3, <5>2 DEF ProcIs
      <4> QED
        BY <3>2, <3>3, <3>5, <4>1 DEF CodeIsRead
    <3>7. CASE s.file # "code"
      BY <1>10, <3>2, <3>3, <3>5, <3>7 DEF CodeIsRead
    <3> QED
      BY <3>6, <3>7
  <2> QED
    BY <2>1, <2>2
<1>12. CASE s.file # "code"
  <2>1. patches' = patches
    BY <1>1, <1>12 DEF Write
  <2> QED
    BY <1>9, <1>11, <2>1 DEF CodeInv
<1>13. CASE s.file = "code"
  <2>1. PICK c : c = o.copy[2]
    OBVIOUS
  <2>2. PICK text : text = s.subject.text
    OBVIOUS
  <2>3. s \in AllSteps /\ c \in Seq(Lines)
    BY <1>5, <1>13, <2>1 DEF Writing, Good
  <2>4. s \in CodeSteps
    BY <1>13, <2>3 DEF AllSteps, LogSteps, LedgerSteps, FixSteps, RunSteps, StepOf
  <2>5. /\ s.op \in {"range", "symbol"} /\ text \in Seq(Lines)
        /\ s.op = "range" => s.subject.lo \in Nat \ {0} /\ s.subject.hi \in Nat
        /\ s.op = "symbol" => s.subject.symbol \in Symbols
    BY <2>2, <2>4 DEF CodeSteps, StepOf, LineRanges, SymbolTexts
  <2>6. CodeIsRead(o, content["code"], whole["code"])
    BY <1>2 DEF CodeInv
  <2>7. s.op = "symbol" => o.at[1] # 0 /\ (~o.raced => o.at = FindSymbol(c, s.subject.symbol))
    BY <1>4, <1>13, <2>1, <2>6 DEF CodeIsRead
  <2>8. o.at \in Nat \X Nat
    BY <1>4 DEF ProcIs
  <2>9. PICK lo, hi : lo = Target(p)[1] /\ hi = Target(p)[2]
    OBVIOUS
  <2>10. /\ lo \in Nat \ {0} /\ hi \in Nat
         /\ s.op = "symbol" => <<lo, hi>> = o.at
    BY <1>1, <1>2, <2>5, <2>7, <2>8, <2>9 DEF Target
  <2>11. new = Replace(c, lo, hi, text)
    BY <1>1, <1>2, <1>3, <1>13, <2>1, <2>2, <2>5, <2>9 DEF Updated
  <2>12. PICK r : r = PatchResult(p, new)
    OBVIOUS
  <2>13. PICK symbol : symbol = IF s.op = "symbol" THEN s.subject.symbol ELSE ""
    OBVIOUS
  <2>14. PICK undo : undo = Undo(c, lo, hi, text)
    OBVIOUS
  <2>15. r = [before |-> c, after |-> new, lo |-> lo, hi |-> hi, text |-> text, undo |-> undo,
              symbol |-> symbol, raced |-> o.raced]
    BY <1>1, <1>2, <2>1, <2>2, <2>9, <2>12, <2>13, <2>14 DEF PatchResult
  <2>16. /\ r.before = c /\ r.after = new /\ r.lo = lo /\ r.hi = hi /\ r.text = text /\ r.undo = undo
         /\ r.symbol = symbol /\ r.raced = o.raced
    BY <2>15
  <2>17. symbol # "" /\ ~o.raced => <<lo, hi>> = FindSymbol(c, symbol)
    BY <2>7, <2>10, <2>13
  <2>18. PatchIs(r)
    BY <2>3, <2>5, <2>10, <2>11, <2>14, <2>16, <2>17 DEF PatchIs
  <2>19. patches' = patches \cup {r}
    BY <1>1, <1>3, <1>13, <2>12 DEF Write
  <2>20. \A x \in patches' : PatchIs(x)
    BY <2>18, <2>19 DEF CodeInv
  <2> QED
    BY <1>9, <1>11, <2>20 DEF CodeInv
<1> QED
  BY <1>12, <1>13

LEMMA CodeStep ==
    ASSUME WorkInv, CodeInv, [Next]_vars
    PROVE  CodeInv'
<1>1. ASSUME NEW p \in Procs, Commands(p) PROVE CodeInv'
  BY <1>1, GiveKeepsCode
<1>2. ASSUME NEW p \in Procs, Steps(p) \/ Crash(p) PROVE CodeInv'
  BY <1>2, ReadKeepsCode, LoadKeepsCode, ResolveKeepsCode, OpenKeepsCode, WriteKeepsCode DEF Steps
<1>3. CASE Evaluate \/ Train \/ CooldownPasses \/ UNCHANGED vars
  <2>1. proc' = proc /\ content' = content /\ whole' = whole /\ patches' = patches
    BY <1>3 DEF Evaluate, Train, CooldownPasses, vars
  <2> QED
    BY <2>1 DEF CodeInv
<1> QED
  BY <1>1, <1>2, <1>3 DEF Next

\* A patch can be undone by its own record, and a patch of a symbol is one of
\* all the lines the symbol had in what the patch was made from (the patch
\* engine and the undo record it returns), whoever else works on the file.
THEOREM PatchesExact == Spec => []PatchesAreExact
<1>1. Init => CodeInv
  <2> SUFFICES ASSUME Init PROVE CodeInv
    OBVIOUS
  <2>1. ASSUME NEW p \in Procs PROVE CodeIsRead(proc[p], content["code"], whole["code"])
    <3>1. PICK r : r = IdleProc /\ r = proc[p]
      BY DEF Init
    <3>2. r.stage = "next"
      BY <3>1, IdleIs
    <3> QED
      BY <3>1, <3>2 DEF CodeIsRead
  <2>2. patches = {}
    BY DEF Init
  <2> QED
    BY <2>1, <2>2 DEF CodeInv
<1>2. WorkInv /\ CodeInv /\ [Next]_vars => CodeInv'
  BY CodeStep
<1>3. CodeInv => PatchesAreExact
  <2> SUFFICES ASSUME CodeInv, NEW r \in patches
               PROVE  /\ /\ r.text # <<>> /\ r.before # <<>>
                         /\ r.lo <= Len(r.before) + 1 /\ r.lo <= r.hi + 1
                         /\ Rejoined(Slice(r.before, r.lo, r.hi)) = Slice(r.before, r.lo, r.hi)
                         => Replace(r.after, r.undo.lo, r.undo.hi, r.undo.text) = r.before
                      /\ r.symbol # "" /\ ~r.raced => <<r.lo, r.hi>> = FindSymbol(r.before, r.symbol)
    BY DEF PatchesAreExact
  <2>1. PICK before, text, lo, hi, undo :
           before = r.before /\ text = r.text /\ lo = r.lo /\ hi = r.hi /\ undo = r.undo
    OBVIOUS
  <2>2. PatchIs(r)
    BY DEF CodeInv
  <2>3. /\ before \in Seq(Lines) /\ text \in Seq(Lines) /\ lo \in Nat \ {0} /\ hi \in Nat
        /\ r.after = Replace(before, lo, hi, text) /\ undo = Undo(before, lo, hi, text)
        /\ r.symbol # "" /\ ~r.raced => <<r.lo, r.hi>> = FindSymbol(r.before, r.symbol)
    BY <2>1, <2>2 DEF PatchIs
  <2>4. ASSUME text # <<>>, before # <<>>, lo <= Len(before) + 1, lo <= hi + 1,
               Rejoined(Slice(before, lo, hi)) = Slice(before, lo, hi)
        PROVE  Replace(r.after, undo.lo, undo.hi, undo.text) = before
    <3>1. Replace(Replace(before, lo, hi, text), undo.lo, undo.hi, undo.text) = before
      BY <2>3, <2>4, UndoRestores
    <3> QED
      BY <2>3, <3>1
  <2> QED
    BY <2>1, <2>3, <2>4
<1> QED
  BY <1>1, <1>2, <1>3, WorkspaceIsSound, PTL DEF Spec
=============================================================================
