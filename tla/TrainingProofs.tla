--------------------------- MODULE TrainingProofs ----------------------------
(***************************************************************************)
(* Theorems about the training programs, for any numbers of epochs, of     *)
(* model directories, of programs and of crashes, and any interval between *)
(* checkpoints.                                                            *)
(*                                                                         *)
(* Each of the properties speaks of what is on disk between programs; the  *)
(* invariants say, for a program that is saving, which files of its target *)
(* are written already (SavingInv), and what is true of every directory    *)
(* that no program is writing to (CountInv, CheckpointComplete).           *)
(***************************************************************************)
EXTENDS TrainingProps, SequenceTheorems, WellFoundedInduction, NaturalsInduction, TLAPS

Version == Nat \cup {None}

(* A table is written as a whole before rows of it are replaced.           *)
Table == {r \in [Parts -> Version] : r = NoRows \/ \A p \in Parts : r[p] # None}

Files == [emb : Table, state : Table, model : Version, optim : Version, meta : Version]

Names == {Root(k) : k \in Models}
           \cup {Checkpoint(k, n) : k \in Models, n \in Nat}
           \cup {Temporary(k, n) : k \in Models, n \in Nat}

StepNames == {"mkdir", "copy", "emb", "model", "optim", "state", "meta", "rename"}

Slots == FileNames \cup {"dir"}

Programs ==
    [pc : {"idle", "copy", "load", "epoch", "save", "done", "failed"},
     kind : {"none", "fresh", "resume", "from", "eval"}, k : Models,
     from : Names \cup {<<>>}, new : BOOLEAN, save : BOOLEAN,
     epoch : 0..NumEpochs, processed : Nat, count : Version, model : Version,
     optim : Version, emb : Table, state : Table, todo : Seq(StepNames),
     target : Names \cup {<<>>}, copying : SUBSET (Names \X Slots),
     listing : Listings \cup {<<>>}]

Results == [count : Version, model : Version, optim : Version, emb : Table, state : Table]

(* A directory is in a model directory that exists.                        *)
TypeInv ==
    /\ settings \in [backend : {"memory", "buffer"}, saveState : BOOLEAN]
    /\ disk \in [DOMAIN disk -> Files]
    /\ DOMAIN disk \subseteq Names
    /\ \A k \in Models, n \in Nat :
          Checkpoint(k, n) \in DOMAIN disk \/ Temporary(k, n) \in DOMAIN disk => Exists(Root(k))
    /\ prog \in Programs
    /\ started \in Nat /\ started <= MaxPrograms /\ crashes \in Nat
    /\ result \in [Models -> Results]
    /\ torn \in BOOLEAN

Running == prog.pc \in {"copy", "load", "epoch", "save"}
Beginner == prog.pc \in {"copy", "load"}
Busy    == prog.pc \in {"epoch", "save"}
Mine    == disk[Root(prog.k)]

(* A directory that a program can start from.                              *)
IsModel(d) == Len(d) = 1 \/ IsCheckpoint(d)

(* Only a program that trains and has been trained comes to a save, and by *)
(* then there are tables in its directory.                                 *)
ProgInv ==
    /\ Running => prog.kind # "none" /\ (Busy \/ prog.kind # "resume" => Exists(Root(prog.k)))
    /\ Beginner \/ prog.pc = "epoch" => (prog.epoch = 0 => prog.emb = NoRows)
    /\ prog.kind \notin {"none", "fresh"} => prog.save
    /\ prog.kind = "resume" => prog.from = <<>>
    /\ Beginner => prog.epoch = 0 /\ prog.processed = 0
    /\ Beginner /\ prog.from # <<>> => Exists(prog.from) /\ IsModel(prog.from)
    /\ prog.pc = "epoch" => prog.epoch < NumEpochs
    /\ prog.pc = "save" => prog.epoch > 0 /\ prog.count = prog.processed
    /\ Busy => prog.kind # "eval" /\ prog.model # None /\ prog.optim # None
    /\ Busy /\ prog.epoch > 0 =>
          /\ Mine.emb # NoRows /\ Mine.state # NoRows
          /\ settings.backend = "memory" => prog.emb # NoRows /\ prog.state # NoRows

(* No version is larger than the number n of epochs begun and not given    *)
(* up.  A partition that is written back in an epoch is ahead of the model *)
(* by this epoch.                                                          *)
UpTo(r, n) == \A p \in Parts : r[p] <= n

Ahead == prog.pc = "epoch" /\ settings.backend = "buffer"

DiskWithin(n) ==
    \A d \in DOMAIN disk :
        /\ UpTo(disk[d].emb, n) \/ (Ahead /\ UpTo(disk[d].emb, n + 1))
        /\ UpTo(disk[d].state, n)
        /\ disk[d].model <= n /\ disk[d].optim <= n /\ disk[d].meta <= n

ProgWithin(n) ==
    /\ prog.model <= n /\ prog.optim <= n /\ prog.processed <= n
    /\ prog.count <= n /\ UpTo(prog.emb, n) /\ UpTo(prog.state, n)

ToCome == IF Running THEN NumEpochs - prog.epoch ELSE 0

LimitInv ==
    \E n \in Nat : DiskWithin(n) /\ ProgWithin(n) /\ NumEpochs * started = n + ToCome

(* What is still to be done is the rest of one of the two sequences; its   *)
(* length says which files have been written.                              *)
Rest(steps, n) == [j \in 1..n |-> steps[Len(steps) - n + j]]
Left == Len(prog.todo)
IsRestOf(steps) == \E n \in 0..Len(steps) : Left = n /\ prog.todo = Rest(steps, n)

CheckpointInv ==
    LET d == prog.target IN
    /\ d = Temporary(prog.k, prog.processed) /\ prog.epoch < NumEpochs
    /\ prog.save /\ IsRestOf(CheckpointSteps)
    /\ Left \in 1..7 => Exists(d)
    /\ Left \in 1..6 => disk[d].emb # NoRows /\ (settings.saveState => disk[d].state # NoRows)
    /\ Left \in 1..4 => disk[d].model = prog.model
    /\ Left \in 1..3 => disk[d].optim = prog.optim
    /\ Left = 1 => disk[d].meta = prog.count

FinalInv ==
    /\ prog.target = Root(prog.k) /\ IsRestOf(SaveSteps)
    /\ settings.backend = "memory" /\ Left <= 4 => Mine.emb = prog.emb
    /\ settings.backend = "memory" /\ Left <= 1 => Mine.state = prog.state
    /\ Left <= 3 => Mine.model = prog.model
    /\ Left <= 2 => Mine.optim = prog.optim
    /\ Left = 0 => Mine.meta = prog.count

SavingInv == prog.pc = "save" => CheckpointInv \/ FinalInv

(* Counts agree wherever no save is under way, and until the first file is *)
(* written.                                                                *)
Agrees(f) == f.meta = f.model /\ f.optim = f.model

Beginning == prog.target = Root(prog.k) /\ Left >= 4

CountInv ==
    ~torn =>
        /\ \A d \in Settled : Agrees(disk[d])
        /\ Busy => prog.processed = prog.model /\ prog.optim = prog.model
        /\ prog.pc = "save" /\ Beginning => Agrees(Mine)

(* A result is that of the directory, and no program that trains in the    *)
(* directory runs.                                                         *)
ResultInv ==
    /\ \A k \in Models : result[k] # NoResult => Exists(Root(k))
    /\ Running /\ prog.kind # "eval" => result[prog.k] = NoResult

(* A copy has copied what is not left of it, and what it copies from is    *)
(* what was there before, also where it copies a model directory to itself.*)
Complete(f, n) ==
    /\ f.meta = n /\ f.model # None /\ f.optim # None
    /\ f.emb # NoRows /\ (settings.saveState => f.state # NoRows)

CopyInv ==
    prog.pc = "copy" =>
        /\ prog.kind = "from" /\ prog.from # <<>> /\ prog.copying \subseteq Entries(prog.from)
        /\ \A d \in Tree(prog.from), f \in FileNames :
              disk[d][f] # EmptyDir[f] /\ <<d, f>> \notin prog.copying =>
                  Holds(Copy(prog, d))[f] = disk[d][f]
        /\ \A d \in Tree(prog.from) : IsCheckpoint(d) /\ d \notin partly => Complete(disk[d], d[3])
        /\ ~torn => \A d \in Tree(prog.from) : IsModel(d) =>
              Agrees(disk[d]) /\ (disk[d].model = None => Agrees(Holds(Copy(prog, d))))

(* A program that goes on from a checkpoint in a new directory finds what  *)
(* it needs, and nothing in its way.                                       *)
Restart ==
    /\ prog.kind = "from" /\ IsCheckpoint(prog.from) /\ prog.from \notin partly
    /\ prog.new /\ settings.saveState

RestartInv ==
    Restart =>
        /\ prog.pc # "failed"
        /\ Running /\ prog.pc # "copy" => Mine.emb # NoRows /\ Mine.state # NoRows
        /\ Running => \A n \in Nat :
              /\ Exists(Temporary(prog.k, n)) =>
                    prog.pc = "save" /\ prog.target = Temporary(prog.k, n) /\ Left \in 1..7
              /\ Exists(Checkpoint(prog.k, n)) =>
                    /\ ~Beginner /\ n <= prog.processed
                    /\ n = prog.processed => 
                          ~(prog.pc = "save" /\ prog.target = Temporary(prog.k, n) /\ Left > 0)

TrainingInv ==
    /\ TypeInv /\ ProgInv /\ LimitInv /\ SavingInv /\ CountInv /\ CopyInv /\ ResultInv /\ RestartInv
    /\ CheckpointComplete /\ ResultSaved

-----------------------------------------------------------------------------
(* Names of directories. *)
LEMMA NamesDiffer ==
    ASSUME NEW j, NEW k, NEW m, NEW n
    PROVE  /\ Root(k) # <<>> /\ Checkpoint(k, n) # <<>> /\ Temporary(k, n) # <<>>
           /\ Root(j) = Root(k) => j = k
           /\ Root(j) # Checkpoint(k, n) /\ Root(j) # Temporary(k, n)
           /\ Checkpoint(j, m) # Temporary(k, n)
           /\ Checkpoint(j, m) = Checkpoint(k, n) => j = k /\ m = n
           /\ Temporary(j, m) = Temporary(k, n) => j = k /\ m = n
           /\ Len(Root(k)) = 1 /\ Len(Checkpoint(k, n)) = 3 /\ Len(Temporary(k, n)) = 3
           /\ ~IsCheckpoint(Root(k)) /\ IsCheckpoint(Checkpoint(k, n))
           /\ ~IsCheckpoint(Temporary(k, n)) /\ ~IsCheckpoint(<<>>)
           /\ Checkpoint(k, n)[3] = n /\ Temporary(k, n)[3] = n
BY DEF Root, Checkpoint, Temporary, IsCheckpoint

LEMMA RootsDiffer == \A j, k : Root(j) = Root(k) => j = k
BY NamesDiffer

LEMMA RootsApart == \A j, k, n : Root(j) # Temporary(k, n) /\ Root(j) # Checkpoint(k, n)
BY NamesDiffer

LEMMA TemporariesDiffer ==
    \A j, k, m, n : Temporary(j, m) = Temporary(k, n) => j = k /\ m = n
BY NamesDiffer

LEMMA CheckpointsDiffer ==
    \A j, k, m, n : Checkpoint(j, m) = Checkpoint(k, n) => j = k /\ m = n
BY NamesDiffer

LEMMA NameOfCheckpoint ==
    ASSUME NEW d \in Names
    PROVE  /\ IsCheckpoint(d) => \E k \in Models, n \in Nat : d = Checkpoint(k, n)
           /\ Len(d) = 1 => \E k \in Models : d = Root(k)
           /\ Len(d) = 1 \/ Len(d) = 3
<1>1. PICK k \in Models, n \in Nat : d \in {Root(k), Checkpoint(k, n), Temporary(k, n)}
  BY DEF Names
<1>2. QED BY <1>1, NamesDiffer

(* What follows the name of the directory below which another one is.      *)
LEMMA FirstOfThree ==
    ASSUME NEW j, NEW s, NEW n
    PROVE  SubSeq(<<j, s, n>>, 1, 1) = <<j>>
<1> DEFINE first == SubSeq(<<j, s, n>>, 1, 1)
           one   == <<j>>
           S     == {j, s, n}
<1>1. one \in Seq(S) /\ Len(one) = 1 /\ one[1] = j
  OBVIOUS
<1>2. <<j, s, n>> \in Seq(S)
  OBVIOUS
<1>3. first \in Seq(S) /\ Len(first) = 1 /\ first[1] = j
  BY <1>2
<1> HIDE DEF first, one, S
<1>4. first = one
  BY <1>1, <1>3, SeqEqual
<1>5. QED BY <1>4 DEF first, one

LEMMA OneAndTwo ==
    ASSUME NEW k, NEW s, NEW n
    PROVE  <<k>> \o <<s, n>> = <<k, s, n>>
<1> DEFINE joined == <<k>> \o <<s, n>>
           three  == <<k, s, n>>
           S      == {k, s, n}
<1>1. <<k>> \in Seq(S) /\ <<s, n>> \in Seq(S)
  OBVIOUS
<1>2. three \in Seq(S) /\ Len(three) = 3 /\ three[1] = k /\ three[2] = s /\ three[3] = n
  OBVIOUS
<1>3. joined \in Seq(S) /\ Len(joined) = 3
  BY <1>1, ConcatProperties
<1>4. joined[1] = k /\ joined[2] = s /\ joined[3] = n
  BY <1>1, ConcatProperties
<1> HIDE DEF joined, three, S
<1>5. joined = three
  BY <1>2, <1>3, <1>4, SeqEqual
<1>6. QED BY <1>5 DEF joined, three

LEMMA NamesBelow ==
    ASSUME NEW j, NEW k, NEW n
    PROVE  /\ SubSeq(Checkpoint(j, n), 1, 1) = Root(j) /\ SubSeq(Temporary(j, n), 1, 1) = Root(j)
           /\ Root(k) \o Tail(Checkpoint(j, n)) = Checkpoint(k, n)
           /\ Root(k) \o Tail(Temporary(j, n)) = Temporary(k, n)
<1>1. Tail(<<j, "checkpoint", n>>) = <<"checkpoint", n>> /\ Tail(<<j, "tmp", n>>) = <<"tmp", n>>
  OBVIOUS
<1>2. QED BY <1>1, FirstOfThree, OneAndTwo DEF Root, Checkpoint, Temporary

(* The name of d below another directory. *)
Moved(d, to) == to \o Tail(d)

LEMMA MovedIs ==
    /\ \A j, k, n : Moved(Checkpoint(j, n), Root(k)) = Checkpoint(k, n)
    /\ \A j, k, n : Moved(Temporary(j, n), Root(k)) = Temporary(k, n)
<1>1. ASSUME NEW j, NEW k, NEW n
      PROVE  Moved(Checkpoint(j, n), Root(k)) = Checkpoint(k, n)
  BY NamesBelow DEF Moved
<1>2. ASSUME NEW j, NEW k, NEW n
      PROVE  Moved(Temporary(j, n), Root(k)) = Temporary(k, n)
  BY NamesBelow DEF Moved
<1>3. QED BY <1>1, <1>2

(* What is left of a sequence of steps. *)
LEMMA RestOf ==
    ASSUME NEW S, NEW steps \in Seq(S), NEW n \in 1..Len(steps)
    PROVE  /\ Rest(steps, n) \in Seq(S) /\ Len(Rest(steps, n)) = n
           /\ Rest(steps, n) # <<>>
           /\ Head(Rest(steps, n)) = steps[Len(steps) - n + 1]
           /\ Tail(Rest(steps, n)) = Rest(steps, n - 1)
           /\ Len(Tail(Rest(steps, n))) = n - 1
<1>1. Rest(steps, n) \in Seq(S) /\ Len(Rest(steps, n)) = n
  BY DEF Rest
<1>2. Rest(steps, n) # <<>> /\ Head(Rest(steps, n)) = steps[Len(steps) - n + 1]
  BY <1>1 DEF Rest
<1>3. Tail(Rest(steps, n)) = Rest(steps, n - 1)
  <2> DEFINE all  == Rest(steps, n)
             less == Rest(steps, n - 1)
  <2>1. /\ less \in Seq(S) /\ Len(less) = n - 1
        /\ \A i \in 1..n - 1 : less[i] = steps[Len(steps) - (n - 1) + i]
    BY DEF Rest
  <2>2. \A i \in 1..n : all[i] = steps[Len(steps) - n + i]
    BY DEF Rest
  <2> HIDE DEF all, less
  <2>3. all # <<>> /\ all \in Seq(S) /\ Len(all) = n
    BY <1>1, <1>2 DEF all
  <2>4. /\ Tail(all) \in Seq(S) /\ Len(Tail(all)) = n - 1
        /\ \A i \in 1..n - 1 : Tail(all)[i] = all[i + 1]
    BY <2>3
  <2>5. \A i \in 1..n - 1 : Tail(all)[i] = less[i]
    <3> SUFFICES ASSUME NEW i \in 1..n - 1 PROVE Tail(all)[i] = less[i]
      OBVIOUS
    <3>1. i + 1 \in 1..n /\ Len(steps) - n + (i + 1) = Len(steps) - (n - 1) + i
      OBVIOUS
    <3>2. all[i + 1] = steps[Len(steps) - (n - 1) + i]
      BY <2>2, <3>1
    <3>3. QED BY <2>1, <2>4, <3>2, Zenon
  <2>6. Tail(all) = less
    BY <2>1, <2>4, <2>5, SeqEqual
  <2>7. QED BY <2>6 DEF all, less
<1>4. Len(Tail(Rest(steps, n))) = n - 1
  BY <1>1, <1>2
<1>5. QED BY <1>1, <1>2, <1>3, <1>4

LEMMA WholeRest ==
    ASSUME NEW S, NEW steps \in Seq(S)
    PROVE  Rest(steps, Len(steps)) = steps
BY DEF Rest

LEMMA Steps ==
    /\ SaveSteps \in Seq(StepNames) /\ Len(SaveSteps) = 5
    /\ CheckpointSteps \in Seq(StepNames) /\ Len(CheckpointSteps) = 8
    /\ CheckpointSteps[1] = "mkdir" /\ CheckpointSteps[2] = "copy"
    /\ CheckpointSteps[3] = "emb" /\ CheckpointSteps[4] = "model"
    /\ CheckpointSteps[5] = "optim" /\ CheckpointSteps[6] = "state"
    /\ CheckpointSteps[7] = "meta" /\ CheckpointSteps[8] = "rename"
<1> DEFINE first == <<"mkdir", "copy">>
           last  == <<"rename">>
<1>1. /\ SaveSteps \in Seq(StepNames) /\ Len(SaveSteps) = 5
      /\ first \in Seq(StepNames) /\ Len(first) = 2
      /\ last \in Seq(StepNames) /\ Len(last) = 1
  BY DEF SaveSteps, StepNames
<1>2. /\ SaveSteps[1] = "emb" /\ SaveSteps[2] = "model" /\ SaveSteps[3] = "optim"
      /\ SaveSteps[4] = "state" /\ SaveSteps[5] = "meta"
      /\ first[1] = "mkdir" /\ first[2] = "copy" /\ last[1] = "rename"
  BY DEF SaveSteps
<1> HIDE DEF first, last
<1> DEFINE front == first \o SaveSteps
<1>3. /\ front \in Seq(StepNames) /\ Len(front) = 7
      /\ \A i \in 1..7 : front[i] = IF i <= 2 THEN first[i] ELSE SaveSteps[i - 2]
  <2>1. /\ front \in Seq(StepNames) /\ Len(front) = Len(first) + Len(SaveSteps)
        /\ \A i \in 1 .. Len(first) + Len(SaveSteps) : front[i] =
              IF i <= Len(first) THEN first[i] ELSE SaveSteps[i - Len(first)]
    BY <1>1, ConcatProperties
  <2> HIDE DEF front
  <2>2. QED BY <1>1, <2>1
<1> HIDE DEF front
<1>4. CheckpointSteps = front \o last
  BY DEF CheckpointSteps, front, first, last
<1>5. /\ CheckpointSteps \in Seq(StepNames)
      /\ Len(CheckpointSteps) = Len(front) + Len(last)
      /\ \A i \in 1 .. Len(front) + Len(last) : CheckpointSteps[i] =
            IF i <= Len(front) THEN front[i] ELSE last[i - Len(front)]
  BY <1>1, <1>3, <1>4, ConcatProperties
<1>6. /\ Len(CheckpointSteps) = 8
      /\ \A i \in 1..8 : CheckpointSteps[i] = IF i <= 7 THEN front[i] ELSE last[i - 7]
  BY <1>1, <1>3, <1>5
<1>7. /\ CheckpointSteps[1] = "mkdir" /\ CheckpointSteps[2] = "copy"
      /\ CheckpointSteps[3] = "emb" /\ CheckpointSteps[4] = "model"
      /\ CheckpointSteps[5] = "optim" /\ CheckpointSteps[6] = "state"
      /\ CheckpointSteps[7] = "meta" /\ CheckpointSteps[8] = "rename"
  BY <1>2, <1>3, <1>6
<1>8. QED BY <1>1, <1>5, <1>6, <1>7

LEMMA WholeRests ==
    Rest(CheckpointSteps, 8) = CheckpointSteps /\ Rest(SaveSteps, 5) = SaveSteps
BY Steps, WholeRest

LEMMA Step8 ==
    ASSUME NEW n \in 1..8, NEW s, CheckpointSteps[8 - n + 1] = s
    PROVE  /\ s = "mkdir" <=> n = 8
           /\ s = "copy" <=> n = 7
           /\ s = "emb" <=> n = 6
           /\ s = "model" <=> n = 5
           /\ s = "optim" <=> n = 4
           /\ s = "state" <=> n = 3
           /\ s = "meta" <=> n = 2
           /\ s = "rename" <=> n = 1
BY Steps

LEMMA Step5 ==
    ASSUME NEW n \in 1..5, NEW s, SaveSteps[5 - n + 1] = s
    PROVE  /\ s = "emb" <=> n = 5
           /\ s = "model" <=> n = 4
           /\ s = "optim" <=> n = 3
           /\ s = "state" <=> n = 2
           /\ s = "meta" <=> n = 1
           /\ s \notin {"mkdir", "copy", "rename"}
BY Steps DEF SaveSteps

LEMMA NoRowsTable == NoRows \in Table /\ NewRows \in Table /\ EmptyDir \in Files
BY DEF NoRows, NewRows, EmptyDir, Table, Files, Version, None

LEMMA NewRowsUpTo == \A n \in Nat : UpTo(NewRows, n)
BY DEF UpTo, NewRows

(* The end of an epoch. *)
IsAfter(a, p) ==
    /\ a \in Programs
    /\ a.kind = p.kind /\ a.k = p.k /\ a.from = p.from /\ a.new = p.new /\ a.save = p.save
    /\ a.emb = p.emb /\ a.state = p.state
    /\ a.epoch = p.epoch + 1 /\ a.processed = p.processed + 1
    /\ a.count = a.processed /\ a.model = p.model + 1 /\ a.optim = p.optim + 1
    /\ \/ a.pc = "failed" /\ ~a.save
       \/ /\ a.pc = "save" /\ a.save /\ a.epoch < NumEpochs
          /\ a.todo = CheckpointSteps /\ a.target = Temporary(a.k, a.processed)
       \/ a.pc = "save" /\ a.todo = SaveSteps /\ a.target = Root(a.k)
       \/ a.pc = "done"
       \/ a.pc = "epoch" /\ a.epoch < NumEpochs

LEMMA AfterEpochIs ==
    ASSUME NEW p \in Programs, p.pc = "epoch", p.epoch < NumEpochs, p.model # None, p.optim # None,
           NEW a, a = AfterEpoch(p)
    PROVE  IsAfter(a, p)
<1> DEFINE c    == Counted(p)
           due  == CheckpointDue(c)
           last == AtEnd(c)
<1>1. p.model + 1 \in Nat /\ p.optim + 1 \in Nat /\ p.epoch + 1 \in 0..NumEpochs
      /\ p.processed + 1 \in Nat
  BY TrainingAssumption DEF Programs, Version, None
<1>2. /\ Trained(p) \in Programs
      /\ Trained(p) = [p EXCEPT !.model = p.model + 1, !.optim = p.optim + 1]
  BY <1>1 DEF Trained, Programs, Version
<1>3. c = [p EXCEPT !.model = p.model + 1, !.optim = p.optim + 1, !.epoch = p.epoch + 1,
                    !.processed = p.processed + 1, !.count = p.processed + 1]
  BY <1>2 DEF Programs, Counted, CountOf
<1> HIDE DEF c
<1>4. c \in Programs
  BY <1>1, <1>3 DEF Programs, Version
<1>5. /\ c.kind = p.kind /\ c.k = p.k /\ c.from = p.from /\ c.new = p.new /\ c.save = p.save
      /\ c.emb = p.emb /\ c.state = p.state /\ c.pc = "epoch"
      /\ c.epoch = p.epoch + 1 /\ c.processed = p.processed + 1
      /\ c.count = c.processed /\ c.model = p.model + 1 /\ c.optim = p.optim + 1
  BY <1>3 DEF Programs
<1>0. Temporary(c.k, c.processed) \in Names /\ Root(c.k) \in Names
  BY <1>4 DEF Programs, Names
<1>11. ~(due /\ last)
  BY <1>4, TrainingAssumption DEF CheckpointDue, AtEnd, Programs
<1> DEFINE same(e) ==
           /\ e \in Programs
           /\ e.kind = c.kind /\ e.k = c.k /\ e.from = c.from /\ e.new = c.new /\ e.save = c.save
           /\ e.emb = c.emb /\ e.state = c.state /\ e.epoch = c.epoch
           /\ e.processed = c.processed /\ e.count = c.count /\ e.model = c.model
           /\ e.optim = c.optim
<1>6. CASE due /\ ~c.save
  <2> DEFINE e == [c EXCEPT !.pc = "failed"]
  <2>1. same(e) /\ e.pc = "failed" /\ ~e.save
    BY <1>4, <1>6 DEF Programs
  <2>2. a = e
    BY <1>6, <1>11 DEF AfterEpoch, c
  <2>3. QED BY <1>5, <2>1, <2>2 DEF IsAfter
<1>7. CASE due /\ c.save
  <2> DEFINE e == [c EXCEPT !.pc = "save", !.todo = CheckpointSteps,
                            !.target = Temporary(c.k, c.processed)]
  <2>1. /\ same(e) /\ e.pc = "save" /\ e.save /\ e.epoch < NumEpochs
        /\ e.todo = CheckpointSteps /\ e.target = Temporary(e.k, e.processed)
    <3>1. CheckpointSteps \in Seq(StepNames) /\ c.epoch < NumEpochs
      BY <1>7, Steps DEF CheckpointDue
    <3>2. QED BY <1>0, <1>4, <1>7, <3>1 DEF Programs
  <2>2. a = e
    BY <1>7, <1>11 DEF AfterEpoch, c
  <2>3. QED BY <1>5, <2>1, <2>2 DEF IsAfter
<1>8. CASE ~due /\ last /\ c.save
  <2> DEFINE e == [c EXCEPT !.pc = "save", !.todo = SaveSteps, !.target = Root(c.k)]
  <2>1. same(e) /\ e.pc = "save" /\ e.todo = SaveSteps /\ e.target = Root(e.k)
    <3>1. SaveSteps \in Seq(StepNames)
      BY Steps
    <3>2. QED BY <1>0, <1>4, <1>8, <3>1 DEF Programs
  <2>2. a = e
    BY <1>8 DEF AfterEpoch, c
  <2>3. QED BY <1>5, <2>1, <2>2 DEF IsAfter
<1>9. CASE ~due /\ last /\ ~c.save
  <2> DEFINE e == [c EXCEPT !.pc = "done"]
  <2>1. same(e) /\ e.pc = "done"
    BY <1>4, <1>9 DEF Programs
  <2>2. a = e
    BY <1>9 DEF AfterEpoch, c
  <2>3. QED BY <1>5, <2>1, <2>2 DEF IsAfter
<1>10. CASE ~due /\ ~last
  <2>1. c.epoch < NumEpochs
    BY <1>4, <1>10, TrainingAssumption DEF AtEnd, Programs
  <2>2. a = c
    BY <1>10 DEF AfterEpoch, c
  <2>3. QED BY <1>4, <1>5, <2>1, <2>2 DEF IsAfter
<1>12. QED BY <1>6, <1>7, <1>8, <1>9, <1>10

-----------------------------------------------------------------------------
(* Steps that change only the program. *)
OnlyProg == UNCHANGED <<settings, disk, started, result>> /\ crashes' \in Nat

LEMMA LimitStays ==
    ASSUME LimitInv, UNCHANGED <<settings, disk, started>>, ToCome' = ToCome, Ahead => Ahead',
           \A n \in Nat : DiskWithin(n) /\ ProgWithin(n) => ProgWithin(n)'
    PROVE  LimitInv'
<1>1. PICK n \in Nat : DiskWithin(n) /\ ProgWithin(n) /\ NumEpochs * started = n + ToCome
  BY DEF LimitInv
<1>2. DiskWithin(n)'
  BY <1>1 DEF DiskWithin
<1>3. QED BY <1>1, <1>2 DEF LimitInv

LEMMA ToComeIs ==
    ASSUME TypeInv, ProgInv
    PROVE  ToCome \in Nat /\ (Ahead => ToCome >= 1)
<1>1. prog.epoch \in 0..NumEpochs /\ NumEpochs \in Nat
  BY TrainingAssumption DEF TypeInv, Programs
<1>2. Ahead => Running /\ prog.epoch < NumEpochs
  BY DEF Ahead, Running, ProgInv, Beginner, IsModel
<1>3. QED BY <1>1, <1>2 DEF ToCome

(* A program that ends gives up the epochs it has not run. *)
LEMMA LimitEnds ==
    ASSUME TypeInv, ProgInv, LimitInv, UNCHANGED <<settings, disk, started>>, ~Running',
           prog' \in Programs,
           \A n \in Nat : DiskWithin(n) /\ ProgWithin(n) => ProgWithin(n)'
    PROVE  LimitInv'
<1>1. PICK n \in Nat : DiskWithin(n) /\ ProgWithin(n) /\ NumEpochs * started = n + ToCome
  BY DEF LimitInv
<1>2. ToCome \in Nat /\ (Ahead => ToCome >= 1)
  BY ToComeIs
<1>3. PICK m \in Nat : m = n + ToCome
  BY <1>2
<1>4. DiskWithin(m)'
  <2> SUFFICES ASSUME NEW d \in DOMAIN disk
               PROVE  /\ UpTo(disk[d].emb, m) /\ UpTo(disk[d].state, m)
                      /\ disk[d].model <= m /\ disk[d].optim <= m /\ disk[d].meta <= m
    BY DEF DiskWithin
  <2>1. disk[d] \in Files
    BY DEF TypeInv
  <2>2. /\ UpTo(disk[d].emb, n) \/ (Ahead /\ UpTo(disk[d].emb, n + 1))
        /\ UpTo(disk[d].state, n)
        /\ disk[d].model <= n /\ disk[d].optim <= n /\ disk[d].meta <= n
    BY <1>1 DEF DiskWithin
  <2>3. n <= m /\ (Ahead => n + 1 <= m)
    BY <1>2, <1>3
  <2>4. QED
    BY <2>1, <2>2, <2>3 DEF UpTo, Files, Table, Version, None
<1>5. ProgWithin(m)'
  <2>1. ProgWithin(n)' /\ n <= m
    BY <1>1, <1>2, <1>3
  <2>2. QED
    BY <2>1 DEF ProgWithin, UpTo, Programs, Table, Version, None
<1>6. ToCome' = 0 /\ started' = started
  BY DEF ToCome
<1>7. NumEpochs * started' = m + ToCome'
  BY <1>1, <1>3, <1>6
<1>8. QED BY <1>4, <1>5, <1>7 DEF LimitInv

LEMMA FailStep ==
    ASSUME TrainingInv, prog.pc \in {"load", "epoch", "save"}, Fail, OnlyProg, torn' = torn /\ partly' = partly,
           ~Restart, prog.pc = "save" => prog.target = Temporary(prog.k, prog.processed)
    PROVE  TrainingInv'
<1> USE DEF TrainingInv
<1>1. /\ prog' \in Programs /\ prog'.pc = "failed" /\ prog'.kind = prog.kind
      /\ prog'.from = prog.from /\ prog'.new = prog.new /\ prog'.save = prog.save
      /\ prog'.model = prog.model /\ prog'.optim = prog.optim /\ prog'.count = prog.count
      /\ prog'.processed = prog.processed /\ prog'.emb = prog.emb /\ prog'.state = prog.state
  BY DEF Fail, TypeInv, Programs
<1>2. TypeInv'
  BY <1>1 DEF TypeInv, OnlyProg, Exists
<1>3. ProgInv' /\ SavingInv' /\ CopyInv' /\ RestartInv'
  BY <1>1 DEF ProgInv, Beginner, IsModel, CopyInv, SavingInv, RestartInv, Running, Busy, Restart, OnlyProg
<1>4. LimitInv'
  BY <1>1, LimitEnds DEF OnlyProg, Running, ProgWithin
<1>5. CountInv'
  BY <1>1, NamesDiffer DEF CountInv, OnlyProg, Settled, BeingCopied, Busy, Agrees
<1>6. ResultInv' /\ CheckpointComplete' /\ ResultSaved'
  BY <1>1 DEF ResultInv, CheckpointComplete, BeingCopied, ResultSaved, Checkpoints, OnlyProg, Running, Exists
<1>7. QED BY <1>2, <1>3, <1>4, <1>5, <1>6

(* Whatever a program was doing, what it leaves is in order; a crash in a  *)
(* save is remembered if anything may have been written.                   *)
LEMMA EndStep ==
    ASSUME TrainingInv, prog' = Idle, OnlyProg, torn' \in BOOLEAN,
           torn \/ (Saving /\ prog.todo # SaveSteps) \/ prog.pc = "copy" => torn',
           partly \subseteq partly', BeingCopied \cap DOMAIN disk \subseteq partly'
    PROVE  TrainingInv'
<1> USE DEF TrainingInv
<1>1. /\ prog' \in Programs /\ prog'.pc = "idle" /\ prog'.kind = "none"
      /\ prog'.model = None /\ prog'.optim = None /\ prog'.count = None /\ prog'.save = FALSE
      /\ prog'.processed = 0 /\ prog'.emb = NoRows /\ prog'.state = NoRows
  BY NoRowsTable, TrainingAssumption DEF Idle, Programs, Version, None, Models
<1>2. TypeInv'
  BY <1>1 DEF TypeInv, OnlyProg, Exists
<1>3. ProgInv' /\ SavingInv' /\ CopyInv' /\ RestartInv'
  BY <1>1 DEF ProgInv, Beginner, IsModel, CopyInv, SavingInv, RestartInv, Running, Busy, Restart, OnlyProg
<1>4. LimitInv'
  BY <1>1, LimitEnds DEF OnlyProg, Running, ProgWithin, UpTo, NoRows, None
<1>5. CountInv'
  <2> SUFFICES ASSUME ~torn', NEW d \in Settled' PROVE Agrees(disk[d])
    BY <1>1 DEF CountInv, OnlyProg, Busy, Agrees
  <2>1. d \in DOMAIN disk /\ (Len(d) = 1 \/ IsCheckpoint(d)) /\ ~torn
    BY DEF Settled, BeingCopied, OnlyProg
  <2>2. CASE d \in Settled
    BY <2>1, <2>2 DEF CountInv
  <2>3. CASE d \notin Settled
    <3>1. prog.pc = "save" /\ d = prog.target
      BY <2>1, <2>3 DEF Settled, BeingCopied
    <3>2. prog.target = Root(prog.k)
      BY <3>1, <2>1, NamesDiffer DEF SavingInv, CheckpointInv, FinalInv
    <3>3. prog.todo = SaveSteps
      BY <3>1, <3>2 DEF Saving
    <3>4. Agrees(Mine)
      BY <2>1, <3>1, <3>2, <3>3, Steps DEF CountInv, Beginning, Left
    <3>5. QED BY <3>1, <3>2, <3>4 DEF Mine
  <2>4. QED BY <2>2, <2>3
<1>6. ResultInv' /\ CheckpointComplete' /\ ResultSaved'
  BY <1>1 DEF ResultInv, CheckpointComplete, BeingCopied, ResultSaved, Checkpoints, OnlyProg, Running, Exists
<1>7. QED BY <1>2, <1>3, <1>4, <1>5, <1>6

LEMMA ExitStep == TrainingInv /\ Exit => TrainingInv'
BY EndStep DEF Exit, TrainingInv, TypeInv, Saving, OnlyProg, BeingCopied

LEMMA CrashStep == TrainingInv /\ Crash => TrainingInv'
<1> SUFFICES ASSUME TrainingInv, Crash PROVE TrainingInv'
  OBVIOUS
<1>1. torn' \in BOOLEAN
      /\ (torn \/ (Saving /\ prog.todo # SaveSteps) \/ prog.pc = "copy" => torn')
  BY Zenon DEF Crash
<1>4. partly \subseteq partly' /\ BeingCopied \cap DOMAIN disk \subseteq partly'
  BY DEF Crash, Exists
<1>2. OnlyProg /\ prog' = Idle
  BY DEF Crash, TrainingInv, TypeInv, OnlyProg
<1>3. QED BY <1>1, <1>2, <1>4, EndStep

LEMMA LoadIs ==
    ASSUME NEW p \in Programs, NEW saved \in Files, NEW train \in BOOLEAN,
           NEW a, a = Load(p, saved, train)
    PROVE  /\ a \in Programs
           /\ a.kind = p.kind /\ a.k = p.k /\ a.from = p.from /\ a.new = p.new /\ a.save = p.save
           /\ a.emb = p.emb /\ a.state = p.state /\ a.epoch = p.epoch /\ a.count = p.count
           /\ \/ /\ a = [p EXCEPT !.pc = "failed"]
                 /\ saved.meta = None \/ saved.model = None \/ (train /\ saved.optim = None)
              \/ /\ a.pc = IF train THEN "epoch" ELSE "done"
                 /\ saved.meta # None /\ a.processed = saved.meta
                 /\ saved.model # None /\ a.model = saved.model
                 /\ a.optim = IF train THEN saved.optim ELSE None
                 /\ train => saved.optim # None
<1>1. CASE saved.meta = None \/ ~HasModel(saved, train)
  BY <1>1 DEF Load, HasModel, Programs
<1>2. CASE ~(saved.meta = None \/ ~HasModel(saved, train))
  <2>1. /\ saved.meta \in Nat /\ saved.model \in Version /\ saved.optim \in Version
        /\ saved.model # None /\ (train => saved.optim # None) /\ None \in Version
    BY <1>2 DEF HasModel, Files, Version
  <2> DEFINE w == WithModel(p, saved, train)
  <2>2. w \in Programs /\ w = [p EXCEPT !.model = saved.model,
                                       !.optim = IF train THEN saved.optim ELSE None]
    BY <2>1 DEF WithModel, Programs
  <2>3. a = [w EXCEPT !.processed = saved.meta, !.pc = IF train THEN "epoch" ELSE "done"]
    BY <1>2 DEF Load, EpochsOf
  <2> HIDE DEF w
  <2>4. a = [p EXCEPT !.model = saved.model, !.optim = IF train THEN saved.optim ELSE None,
                      !.processed = saved.meta, !.pc = IF train THEN "epoch" ELSE "done"]
    BY <2>2, <2>3 DEF Programs
  <2>5. a \in Programs
    BY <2>1, <2>4 DEF Programs
  <2>6. /\ a.kind = p.kind /\ a.k = p.k /\ a.from = p.from /\ a.new = p.new /\ a.save = p.save
        /\ a.emb = p.emb /\ a.state = p.state /\ a.epoch = p.epoch /\ a.count = p.count
        /\ a.pc = IF train THEN "epoch" ELSE "done"
        /\ a.processed = saved.meta /\ a.model = saved.model
        /\ a.optim = IF train THEN saved.optim ELSE None
    BY <2>4 DEF Programs
  <2>7. QED
    BY <2>1, <2>5, <2>6 DEF None
<1>3. QED BY <1>1, <1>2

LEMMA LoadKeeps ==
    ASSUME NEW p \in Programs, NEW saved \in Files, NEW train \in BOOLEAN,
           NEW a, a = Load(p, saved, train)
    PROVE  /\ a \in Programs
           /\ a.kind = p.kind /\ a.k = p.k /\ a.from = p.from /\ a.new = p.new /\ a.save = p.save
           /\ a.emb = p.emb /\ a.state = p.state /\ a.epoch = p.epoch /\ a.count = p.count
BY LoadIs

LEMMA LoadSavedStep == TrainingInv /\ LoadSaved => TrainingInv'
<1> SUFFICES ASSUME TrainingInv, LoadSaved PROVE TrainingInv'
  OBVIOUS
<1> USE DEF TrainingInv
<1> DEFINE d     == IF prog.from # <<>> THEN prog.from ELSE Root(prog.k)
           train == prog.kind # "eval"
<1>1. /\ OnlyProg /\ torn' = torn /\ partly' = partly /\ prog' = Load(prog, Holds(d), train)
      /\ prog.pc = "load" /\ prog.kind # "fresh" /\ prog.kind # "none"
      /\ prog.epoch = 0 /\ prog.processed = 0 /\ prog.emb = NoRows /\ prog.save
      /\ prog \in Programs /\ train \in BOOLEAN
  BY DEF LoadSaved, OnlyProg, TypeInv, ProgInv, Beginner, IsModel, Running
<1>2. Holds(d) \in Files /\ (~Exists(d) => Holds(d).meta = None)
  BY NoRowsTable DEF Holds, Exists, TypeInv, EmptyDir
<1>3. Exists(d) => Holds(d) = disk[d] /\ d \in Settled
  BY <1>1, NamesDiffer DEF Holds, Exists, Settled, BeingCopied, ProgInv, Beginner, IsModel
<1> HIDE DEF d, train
<1>0. /\ prog' \in Programs
      /\ prog'.kind = prog.kind /\ prog'.k = prog.k /\ prog'.from = prog.from
      /\ prog'.new = prog.new /\ prog'.save = prog.save
      /\ prog'.emb = prog.emb /\ prog'.state = prog.state /\ prog'.epoch = prog.epoch
      /\ prog'.count = prog.count
  <2>1. PICK saved \in Files : prog' = Load(prog, saved, train)
    BY <1>1, <1>2
  <2>2. prog \in Programs /\ train \in BOOLEAN
    BY <1>1
  <2> HIDE DEF TrainingInv
  <2>3. prog' \in Programs
    BY <2>1, <2>2, LoadKeeps
  <2>4. prog'.kind = prog.kind
    BY <2>1, <2>2, LoadKeeps
  <2>5. QED
    BY <2>1, <2>2, LoadKeeps
<1>4. CASE prog' = [prog EXCEPT !.pc = "failed"]
                /\ (Holds(d).meta = None \/ Holds(d).model = None
                      \/ (train /\ Holds(d).optim = None))
  <2>1. ~Restart
    <3> SUFFICES ASSUME Restart PROVE FALSE
      OBVIOUS
    <3>1. d = prog.from /\ Exists(d)
      BY <1>1, NamesDiffer DEF d, Restart, ProgInv, Beginner, IsModel
    <3>2. disk[d].model # None /\ disk[d].optim # None /\ disk[d].meta = d[3]
      BY <1>1, <3>1 DEF CheckpointComplete, BeingCopied, Checkpoints, Restart, Exists
    <3>3. d[3] \in Nat
      BY <3>1, NameOfCheckpoint, NamesDiffer DEF TypeInv, Restart, Exists
    <3>4. QED BY <1>3, <1>4, <3>1, <3>2, <3>3 DEF None
  <2>2. QED BY <1>1, <1>4, <2>1, FailStep DEF Fail
<1>5. CASE /\ prog'.pc = IF train THEN "epoch" ELSE "done"
           /\ Holds(d).meta # None /\ prog'.processed = Holds(d).meta
           /\ Holds(d).model # None /\ prog'.model = Holds(d).model
           /\ prog'.optim = IF train THEN Holds(d).optim ELSE None
           /\ train => Holds(d).optim # None
  <2>2. Exists(d) /\ Holds(d) = disk[d] /\ d \in Settled
    BY <1>2, <1>3, <1>5
  <2>3. TypeInv'
    BY <1>1, <1>0 DEF TypeInv, OnlyProg, Exists
  <2>4. Running => Exists(Root(prog.k))
    BY <1>1, <2>2 DEF ProgInv, Beginner, IsModel, d
  <2>1. /\ prog'.pc \in {"epoch", "done"} /\ (prog'.pc = "epoch" => prog.kind # "eval")
        /\ prog'.pc = "epoch" => prog'.model # None /\ prog'.optim # None
        /\ disk' = disk /\ settings' = settings
    BY <1>1, <1>5 DEF train, OnlyProg
  <2>5. ProgInv'
    BY <1>1, <1>0, <2>1, <2>4, TrainingAssumption DEF ProgInv, Beginner, IsModel, Exists, Running, Busy
  <2>6. ASSUME NEW n \in Nat, DiskWithin(n), ProgWithin(n)
        PROVE  ProgWithin(n)'
    BY <1>1, <1>5, <1>0, <2>2, <2>6 DEF DiskWithin, ProgWithin, Exists, None
  <2>7. LimitInv'
    <3>1. CASE train
      BY <3>1, <1>1, <1>5, <1>0, <2>6, LimitStays DEF OnlyProg, ToCome, Ahead, Running
    <3>2. CASE ~train
      BY <3>2, <1>1, <1>5, <1>0, <2>6, LimitEnds DEF OnlyProg, Running
    <3>3. QED BY <3>1, <3>2
  <2>8. SavingInv' /\ CopyInv'
    BY <2>1 DEF SavingInv, CopyInv
  <2>9. CountInv'
    BY <1>1, <1>5, <1>0, <2>2 DEF CountInv, OnlyProg, Settled, BeingCopied, Busy, Agrees, train
  <2>10. ResultInv' /\ CheckpointComplete' /\ ResultSaved'
    BY <1>1, <1>5, <1>0
       DEF ResultInv, CheckpointComplete, BeingCopied, ResultSaved, Checkpoints, OnlyProg, Running, Exists
  <2>11. RestartInv'
    BY <1>1, <2>1, <1>0 DEF RestartInv, Beginner, Restart, Running, Exists, Mine
  <2>12. QED BY <2>3, <2>5, <2>7, <2>8, <2>9, <2>10, <2>11
<1>6. QED BY <1>1, <1>2, <1>4, <1>5, LoadIs

LEMMA BumpIs ==
    ASSUME NEW rows \in Table, rows # NoRows
    PROVE  /\ Bump(rows) \in Table /\ Bump(rows) # NoRows
           /\ \A n \in Nat : UpTo(rows, n) => UpTo(Bump(rows), n + 1)
<1>1. \A p \in Parts : rows[p] \in Nat
  BY DEF Table, Version
<1>2. \E p \in Parts : TRUE
  BY DEF Table, NoRows
<1>3. QED BY <1>1, <1>2 DEF Bump, Table, Version, None, NoRows, UpTo

LEMMA LimitMoves ==
    ASSUME TypeInv, UNCHANGED <<settings, disk, started>>, prog' \in Programs,
           NEW n \in Nat, DiskWithin(n), NEW m \in Nat, n < m, ProgWithin(n + 1)',
           NumEpochs * started = m + ToCome'
    PROVE  LimitInv'
<1>1. DiskWithin(m)'
  <2> SUFFICES ASSUME NEW d \in DOMAIN disk
               PROVE  /\ UpTo(disk[d].emb, m) /\ UpTo(disk[d].state, m)
                      /\ disk[d].model <= m /\ disk[d].optim <= m /\ disk[d].meta <= m
    BY DEF DiskWithin
  <2>1. disk[d] \in Files
    BY DEF TypeInv
  <2>2. /\ UpTo(disk[d].emb, n) \/ UpTo(disk[d].emb, n + 1)
        /\ UpTo(disk[d].state, n)
        /\ disk[d].model <= n /\ disk[d].optim <= n /\ disk[d].meta <= n
    BY DEF DiskWithin
  <2>3. QED
    BY <2>1, <2>2 DEF UpTo, Files, Table, Version, None
<1>2. ProgWithin(m)'
  <2>1. n + 1 <= m
    OBVIOUS
  <2>2. /\ prog'.model \in Version /\ prog'.optim \in Version /\ prog'.processed \in Nat
        /\ prog'.count \in Version
        /\ \A p \in Parts : prog'.emb[p] \in Version /\ prog'.state[p] \in Version
    BY DEF Programs, Table
  <2>3. UpTo(prog'.emb, m) /\ UpTo(prog'.state, m)
    BY <2>1, <2>2 DEF ProgWithin, UpTo, Version, None
  <2>4. QED BY <2>1, <2>2, <2>3 DEF ProgWithin, Version, None
<1>3. QED BY <1>1, <1>2 DEF LimitInv

(* An epoch that was run. *)
LEMMA EpochStep ==
    ASSUME TrainingInv, prog.pc = "epoch", OnlyProg, torn' = torn /\ partly' = partly,
           NEW emb \in Table, NEW state \in Table,
           NEW p, p = [prog EXCEPT !.emb = emb, !.state = state], prog' = AfterEpoch(p),
           Mine.emb # NoRows, Mine.state # NoRows,
           settings.backend = "memory" => emb # NoRows /\ state # NoRows,
           \A n \in Nat : DiskWithin(n) /\ ProgWithin(n)
                              => UpTo(emb, n + 1) /\ UpTo(state, n + 1)
    PROVE  TrainingInv'
<1> USE DEF TrainingInv
<1>1. /\ p \in Programs /\ p.pc = "epoch"
      /\ p.kind = prog.kind /\ p.k = prog.k /\ p.from = prog.from /\ p.new = prog.new
      /\ p.save = prog.save /\ p.emb = emb /\ p.state = state
      /\ p.epoch = prog.epoch /\ p.processed = prog.processed
      /\ p.model = prog.model /\ p.optim = prog.optim
  BY DEF TypeInv, Programs
<1>2. p.epoch < NumEpochs /\ p.model # None /\ p.optim # None
  BY <1>1 DEF ProgInv, Beginner, IsModel, Busy
<1>3. /\ prog' \in Programs
      /\ prog'.kind = prog.kind /\ prog'.k = prog.k /\ prog'.from = prog.from
      /\ prog'.new = prog.new /\ prog'.save = prog.save
      /\ prog'.emb = emb /\ prog'.state = state
      /\ prog'.epoch = prog.epoch + 1 /\ prog'.processed = prog.processed + 1
      /\ prog'.count = prog'.processed /\ prog'.model = prog.model + 1
      /\ prog'.optim = prog.optim + 1
      /\ prog'.pc \in {"failed", "save", "done", "epoch"}
      /\ prog'.pc = "failed" => ~prog.save
      /\ prog'.pc = "epoch" => prog'.epoch < NumEpochs
      /\ prog'.pc = "save" =>
            \/ /\ prog.save /\ prog'.epoch < NumEpochs /\ prog'.todo = CheckpointSteps
               /\ prog'.target = Temporary(prog.k, prog'.processed)
            \/ prog'.todo = SaveSteps /\ prog'.target = Root(prog.k)
  <2> HIDE DEF TrainingInv
  <2>0. /\ p \in Programs /\ p.pc = "epoch" /\ p.epoch < NumEpochs
        /\ p.model # None /\ p.optim # None /\ prog' = AfterEpoch(p)
    BY <1>1, <1>2
  <2>4. PICK a : a = AfterEpoch(p) /\ prog' = a
    BY <2>0
  <2>5. IsAfter(a, p)
    BY <2>0, <2>4, AfterEpochIs
  <2>1. /\ prog' \in Programs
        /\ prog'.kind = p.kind /\ prog'.k = p.k /\ prog'.from = p.from
        /\ prog'.new = p.new /\ prog'.save = p.save /\ prog'.emb = p.emb /\ prog'.state = p.state
        /\ prog'.epoch = p.epoch + 1 /\ prog'.processed = p.processed + 1
        /\ prog'.count = prog'.processed /\ prog'.model = p.model + 1
        /\ prog'.optim = p.optim + 1
    BY <2>4, <2>5 DEF IsAfter
  <2>2. \/ prog'.pc = "failed" /\ ~prog'.save
        \/ /\ prog'.pc = "save" /\ prog'.save /\ prog'.epoch < NumEpochs
           /\ prog'.todo = CheckpointSteps
           /\ prog'.target = Temporary(prog'.k, prog'.processed)
        \/ prog'.pc = "save" /\ prog'.todo = SaveSteps /\ prog'.target = Root(prog'.k)
        \/ prog'.pc = "done"
        \/ prog'.pc = "epoch" /\ prog'.epoch < NumEpochs
    BY <2>4, <2>5 DEF IsAfter
  <2>3. QED BY <1>1, <2>1, <2>2
<1>4. /\ prog.model \in Nat /\ prog.optim \in Nat /\ prog.epoch \in Nat /\ prog.processed \in Nat
      /\ prog.kind \notin {"eval", "none"} /\ Exists(Root(prog.k))
  BY <1>1, <1>2 DEF Programs, Version, TypeInv, ProgInv, Beginner, IsModel, Busy, Running
<1>5. TypeInv'
  BY <1>3 DEF TypeInv, OnlyProg, Exists
<1>6. ProgInv'
  <2>1. /\ Exists(Root(prog.k))' /\ Mine' = Mine /\ settings' = settings
    BY <1>3, <1>4 DEF OnlyProg, Exists, Mine
  <2>5. /\ prog'.kind # "none" /\ prog'.kind # "eval" /\ prog'.epoch > 0
        /\ prog'.model # None /\ prog'.optim # None
    BY <1>3, <1>4 DEF None
  <2>2. prog'.kind # "fresh" => prog'.save
    BY <1>3, <1>4 DEF ProgInv, Beginner, IsModel
  <2>3. prog'.kind = "resume" => prog'.from = <<>>
    BY <1>3 DEF ProgInv, Beginner, IsModel
  <2>4. QED BY <1>3, <2>1, <2>2, <2>3, <2>5 DEF ProgInv, Beginner, IsModel, Running, Busy
<1>7. LimitInv'
  <2>1. PICK n \in Nat : DiskWithin(n) /\ ProgWithin(n) /\ NumEpochs * started = n + ToCome
    BY DEF LimitInv
  <2>2. ProgWithin(n + 1)'
    BY <2>1, <1>3, <1>4 DEF ProgWithin
  <2>3. ToCome = NumEpochs - prog.epoch /\ NumEpochs \in Nat /\ prog.epoch < NumEpochs
    BY TrainingAssumption DEF ToCome, Running, ProgInv, Beginner, IsModel
  <2>4. CASE Running'
    <3>1. ToCome' = NumEpochs - (prog.epoch + 1)
      BY <2>4, <1>3 DEF ToCome
    <3>2. NumEpochs * started = (n + 1) + ToCome'
      BY <2>1, <2>3, <3>1, <1>4
    <3>3. QED BY <2>1, <2>2, <3>2, <1>3, LimitMoves DEF OnlyProg
  <2>5. CASE ~Running'
    <3>1. ToCome' = 0
      BY <2>5 DEF ToCome
    <3>2. PICK m \in Nat : m = n + ToCome /\ n < m
      BY <2>3, <1>4
    <3>3. NumEpochs * started = m + ToCome'
      BY <2>1, <3>1, <3>2
    <3>4. QED BY <2>1, <2>2, <3>2, <3>3, <1>3, LimitMoves DEF OnlyProg
  <2>6. QED BY <2>4, <2>5
<1>8. SavingInv'
  <2> SUFFICES ASSUME prog'.pc = "save" PROVE CheckpointInv' \/ FinalInv'
    BY DEF SavingInv
  <2>1. CASE /\ prog.save /\ prog'.epoch < NumEpochs /\ prog'.todo = CheckpointSteps
             /\ prog'.target = Temporary(prog.k, prog'.processed)
    <3>1. /\ Len(prog'.todo) = 8 /\ Len(CheckpointSteps) = 8
          /\ prog'.todo = Rest(CheckpointSteps, 8)
      BY <2>1, Steps, WholeRests
    <3>2. CheckpointInv'
      <4> HIDE DEF TrainingInv
      <4>1. Left' = 8
        BY <3>1 DEF Left
      <4>2. IsRestOf(CheckpointSteps)'
        BY <3>1 DEF IsRestOf, Left
      <4>3. /\ prog'.target = Temporary(prog'.k, prog'.processed) /\ prog'.epoch < NumEpochs
            /\ prog'.save
        BY <2>1, <1>3
      <4>4. QED
        BY <4>1, <4>2, <4>3 DEF CheckpointInv
    <3>3. QED BY <3>2
  <2>2. CASE prog'.todo = SaveSteps /\ prog'.target = Root(prog.k)
    <3>1. Len(prog'.todo) = 5 /\ Len(SaveSteps) = 5 /\ prog'.todo = Rest(SaveSteps, 5)
      BY <2>2, Steps, WholeRests
    <3>2. FinalInv'
      <4> HIDE DEF TrainingInv
      <4>1. Left' = 5
        BY <3>1 DEF Left
      <4>2. IsRestOf(SaveSteps)'
        BY <3>1 DEF IsRestOf, Left
      <4>3. QED
        BY <4>1, <4>2, <2>2, <1>3 DEF FinalInv
    <3>3. QED BY <3>2
  <2>3. QED BY <1>3, <2>1, <2>2
<1>9. CountInv'
  <2>1. Settled' \subseteq Settled /\ (Len(Root(prog.k)) = 1 => Root(prog.k) \in Settled)
    BY <1>4 DEF Settled, BeingCopied, OnlyProg, Exists
  <2>2. QED
    BY <2>1, <1>3, <1>4, NamesDiffer DEF CountInv, OnlyProg, Busy, Agrees, Mine
<1>10. ResultInv' /\ CheckpointComplete' /\ ResultSaved'
  BY <1>3, <1>4
     DEF ResultInv, CheckpointComplete, BeingCopied, ResultSaved, Checkpoints, OnlyProg, Running, Exists
<1>11. RestartInv'
  BY <1>3, <1>4, NamesDiffer DEF RestartInv, Restart, Running, OnlyProg, Exists, Mine, ProgInv, Beginner, IsModel
<1>13. CopyInv'
  BY <1>3 DEF CopyInv
<1>12. QED BY <1>5, <1>6, <1>7, <1>8, <1>9, <1>10, <1>11, <1>13

LEMMA TrainInMemoryStep == TrainingInv /\ TrainInMemory => TrainingInv'
<1> SUFFICES ASSUME TrainingInv, TrainInMemory PROVE TrainingInv'
  OBVIOUS
<1> DEFINE file  == disk[Root(prog.k)]
           first == prog.emb = NoRows
           emb   == IF first THEN file.emb ELSE prog.emb
           state == IF first THEN file.state ELSE prog.state
<1>1. prog.pc = "epoch" /\ settings.backend = "memory" /\ OnlyProg /\ torn' = torn /\ partly' = partly
  BY DEF TrainInMemory, OnlyProg, TrainingInv, TypeInv
<1>2. file \in Files /\ emb \in Table /\ state \in Table /\ file = Mine
  BY <1>1 DEF TrainingInv, TypeInv, ProgInv, Beginner, IsModel, Busy, Running, Exists, Files, Programs, Mine
<1>3. ~first <=> prog.epoch > 0
  BY <1>1 DEF TrainingInv, ProgInv, Beginner, IsModel, Busy, TypeInv, Programs
<1>4. ~first => prog.state # NoRows /\ Mine.emb # NoRows /\ Mine.state # NoRows
  BY <1>1, <1>3 DEF TrainingInv, ProgInv, Beginner, IsModel, Busy
<1>5. CASE emb = NoRows \/ state = NoRows
  <2>1. ~Restart
    BY <1>1, <1>2, <1>4, <1>5 DEF TrainingInv, RestartInv, Beginner, Running
  <2>2. Fail
    BY <1>5 DEF TrainInMemory
  <2>3. QED BY <1>1, <2>1, <2>2, FailStep
<1>6. CASE emb # NoRows /\ state # NoRows
  <2>1. prog' = AfterEpoch([prog EXCEPT !.emb = Bump(emb), !.state = Bump(state)])
    BY <1>6 DEF TrainInMemory
  <2>2. Mine.emb # NoRows /\ Mine.state # NoRows
    BY <1>2, <1>4, <1>6
  <2>3. ASSUME NEW n \in Nat, DiskWithin(n), ProgWithin(n)
        PROVE  UpTo(emb, n) /\ UpTo(state, n)
    BY <2>3, <1>1 DEF DiskWithin, ProgWithin, Ahead, TrainingInv, ProgInv, Beginner, IsModel, Busy, Running, Exists
  <2> HIDE DEF emb, state
  <2>4. QED BY <1>1, <1>2, <1>6, <2>1, <2>2, <2>3, BumpIs, EpochStep
<1>7. QED BY <1>5, <1>6

LEMMA TrainBufferedStep == TrainingInv /\ TrainBuffered => TrainingInv'
<1> SUFFICES ASSUME TrainingInv, TrainBuffered PROVE TrainingInv'
  OBVIOUS
<1>1. prog.pc = "epoch" /\ settings.backend = "buffer" /\ OnlyProg /\ torn' = torn /\ partly' = partly
  BY DEF TrainBuffered, OnlyProg, TrainingInv, TypeInv
<1>2. CASE Mine.emb = NoRows \/ Mine.state = NoRows
  <2>1. ~Restart
    BY <1>1, <1>2 DEF TrainingInv, RestartInv, Beginner, Running
  <2>2. Fail
    BY <1>2 DEF TrainBuffered, Mine
  <2>3. QED BY <1>1, <2>1, <2>2, FailStep
<1>3. CASE Mine.emb # NoRows /\ Mine.state # NoRows
  <2>1. prog' = AfterEpoch(prog)
    BY <1>3 DEF TrainBuffered, Mine
  <2>2. prog = [prog EXCEPT !.emb = prog.emb, !.state = prog.state]
        /\ prog.emb \in Table /\ prog.state \in Table
    BY DEF TrainingInv, TypeInv, Programs
  <2>3. ASSUME NEW n \in Nat, ProgWithin(n)
        PROVE  UpTo(prog.emb, n + 1) /\ UpTo(prog.state, n + 1)
    BY <2>2, <2>3 DEF ProgWithin, UpTo, Table, Version, None
  <2>4. QED BY <1>1, <1>3, <2>1, <2>2, <2>3, EpochStep
<1>4. QED BY <1>2, <1>3

-----------------------------------------------------------------------------
(* Steps of a save. *)

(* The step and what is left of the sequence determine each other. *)
LEMMA StepIs ==
    ASSUME TypeInv, SavingInv, NEW s, Step(s)
    PROVE  /\ prog.pc = "save" /\ Left \in 1..8 /\ ~(CheckpointInv /\ FinalInv)
           /\ CheckpointInv \/ FinalInv
           /\ CheckpointInv =>
                /\ s = "mkdir" <=> Left = 8
                /\ s = "copy" <=> Left = 7
                /\ s = "emb" <=> Left = 6
                /\ s = "model" <=> Left = 5
                /\ s = "optim" <=> Left = 4
                /\ s = "state" <=> Left = 3
                /\ s = "meta" <=> Left = 2
                /\ s = "rename" <=> Left = 1
           /\ FinalInv =>
                /\ Left \in 1..5
                /\ s = "emb" <=> Left = 5
                /\ s = "model" <=> Left = 4
                /\ s = "optim" <=> Left = 3
                /\ s = "state" <=> Left = 2
                /\ s = "meta" <=> Left = 1
                /\ s \notin {"mkdir", "copy", "rename"}
<1>1. prog.pc = "save" /\ prog.todo # <<>> /\ Head(prog.todo) = s
      /\ prog.todo \in Seq(StepNames) /\ Left >= 1 /\ Left \in Nat
  BY DEF Step, TypeInv, Programs, Left
<1>2. CheckpointInv \/ FinalInv
  BY <1>1 DEF SavingInv
<1>3. ~(CheckpointInv /\ FinalInv)
  BY NamesDiffer DEF CheckpointInv, FinalInv
<1>4. CASE CheckpointInv
  <2>1. PICK n \in 0..Len(CheckpointSteps) : Left = n /\ prog.todo = Rest(CheckpointSteps, n)
    BY <1>4 DEF CheckpointInv, IsRestOf
  <2>2. n \in 1..8 /\ n \in 1..Len(CheckpointSteps)
    BY <1>1, <2>1, Steps
  <2>3. Head(Rest(CheckpointSteps, n)) = CheckpointSteps[Len(CheckpointSteps) - n + 1]
    BY <2>2, Steps, RestOf
  <2>4. CheckpointSteps[8 - n + 1] = s
    BY <1>1, <2>1, <2>3, Steps
  <2>5. QED BY <1>1, <1>3, <1>4, <2>1, <2>2, <2>4, Step8
<1>5. CASE FinalInv
  <2>1. PICK n \in 0..Len(SaveSteps) : Left = n /\ prog.todo = Rest(SaveSteps, n)
    BY <1>5 DEF FinalInv, IsRestOf
  <2>2. n \in 1..5 /\ n \in 1..Len(SaveSteps)
    BY <1>1, <2>1, Steps
  <2>3. Head(Rest(SaveSteps, n)) = SaveSteps[Len(SaveSteps) - n + 1]
    BY <2>2, Steps, RestOf
  <2>4. SaveSteps[5 - n + 1] = s
    BY <1>1, <2>1, <2>3, Steps
  <2>5. QED BY <1>1, <1>3, <1>5, <2>1, <2>2, <2>4, Step5
<1>6. QED BY <1>2, <1>4, <1>5

LEMMA NextStep ==
    ASSUME TypeInv, SavingInv, NEW s, Step(s), prog' = Next1
    PROVE  /\ prog' \in Programs /\ prog'.pc = "save"
           /\ prog'.kind = prog.kind /\ prog'.k = prog.k /\ prog'.from = prog.from
           /\ prog'.new = prog.new /\ prog'.save = prog.save /\ prog'.emb = prog.emb
           /\ prog'.state = prog.state /\ prog'.epoch = prog.epoch
           /\ prog'.processed = prog.processed /\ prog'.count = prog.count
           /\ prog'.model = prog.model /\ prog'.optim = prog.optim
           /\ prog'.target = prog.target
           /\ Left' = Left - 1
           /\ CheckpointInv => IsRestOf(CheckpointSteps)'
           /\ FinalInv => IsRestOf(SaveSteps)'
<1>1. prog.pc = "save" /\ prog.todo # <<>> /\ prog.todo \in Seq(StepNames) /\ prog \in Programs
  BY DEF Step, TypeInv, Programs
<1>2. /\ Tail(prog.todo) \in Seq(StepNames) /\ Len(Tail(prog.todo)) = Len(prog.todo) - 1
      /\ prog' = [prog EXCEPT !.todo = Tail(prog.todo)]
  BY <1>1 DEF Next1
<1>3. /\ prog' \in Programs /\ prog'.todo = Tail(prog.todo) /\ prog'.pc = "save"
      /\ prog'.kind = prog.kind /\ prog'.k = prog.k /\ prog'.from = prog.from
      /\ prog'.new = prog.new /\ prog'.save = prog.save /\ prog'.emb = prog.emb
      /\ prog'.state = prog.state /\ prog'.epoch = prog.epoch
      /\ prog'.processed = prog.processed /\ prog'.count = prog.count
      /\ prog'.model = prog.model /\ prog'.optim = prog.optim
      /\ prog'.target = prog.target
  BY <1>1, <1>2 DEF Programs
<1>4. Left' = Left - 1
  BY <1>2, <1>3 DEF Left
<1>5. ASSUME NEW steps \in Seq(StepNames), IsRestOf(steps)
      PROVE  \E m \in 0..Len(steps) : Len(prog'.todo) = m /\ prog'.todo = Rest(steps, m)
  <2>1. PICK n \in 0..Len(steps) : Len(prog.todo) = n /\ prog.todo = Rest(steps, n)
    BY <1>5 DEF IsRestOf, Left
  <2>2. n \in 1..Len(steps)
    BY <1>1, <2>1
  <2>3. Len(prog'.todo) = n - 1 /\ prog'.todo = Rest(steps, n - 1) /\ n - 1 \in 0..Len(steps)
    <3>1. Tail(Rest(steps, n)) = Rest(steps, n - 1) /\ Len(Tail(Rest(steps, n))) = n - 1
      BY <1>5, <2>2, RestOf
    <3>2. QED BY <2>1, <2>2, <3>1, <1>3
  <2>4. QED BY <2>3
<1>6. CheckpointInv => IsRestOf(CheckpointSteps)'
  BY <1>5, Steps DEF CheckpointInv, IsRestOf, Left
<1>7. FinalInv => IsRestOf(SaveSteps)'
  BY <1>5, Steps DEF FinalInv, IsRestOf, Left
<1>8. QED BY <1>3, <1>4, <1>6, <1>7

LEMMA TargetIs ==
    ASSUME TrainingInv, prog.pc = "save"
    PROVE  /\ prog.target = Root(prog.k)
                \/ (prog.target = Temporary(prog.k, prog.processed) /\ prog.target # Root(prog.k))
           /\ ~IsCheckpoint(prog.target)
           /\ prog.target \in Names
           /\ prog.target = Root(prog.k) <=> FinalInv
           /\ Exists(Root(prog.k)) /\ Mine \in Files
           /\ result[prog.k] = NoResult
           /\ prog.k \in Models /\ prog.processed \in Nat
<1>1. /\ prog.kind # "eval" /\ Exists(Root(prog.k)) /\ prog.k \in Models /\ prog.processed \in Nat
  BY DEF TrainingInv, ProgInv, Beginner, IsModel, Busy, Running, TypeInv, Programs
<1>2. Mine \in Files /\ result[prog.k] = NoResult
  BY <1>1 DEF TrainingInv, TypeInv, ResultInv, Running, Exists, Mine
<1>3. CheckpointInv \/ FinalInv
  BY DEF TrainingInv, SavingInv
<1>4. CheckpointInv => prog.target = Temporary(prog.k, prog.processed)
  BY DEF CheckpointInv
<1>5. FinalInv => prog.target = Root(prog.k)
  BY DEF FinalInv
<1>6. Root(prog.k) \in Names /\ Temporary(prog.k, prog.processed) \in Names
  BY <1>1 DEF Names
<1>7. QED BY <1>1, <1>2, <1>3, <1>4, <1>5, <1>6, NamesDiffer

LEMMA LoadNewStep == TrainingInv /\ LoadNew => TrainingInv'
<1> SUFFICES ASSUME TrainingInv, LoadNew PROVE TrainingInv'
  OBVIOUS
<1> DEFINE r == Root(prog.k)
<1>1. r \in DOMAIN disk
  BY DEF TrainingInv, ProgInv, Beginner, IsModel, LoadNew, Running, Exists
<1>2. /\ DOMAIN disk' = DOMAIN disk
      /\ disk' \in [DOMAIN disk -> Files]
      /\ \A d \in DOMAIN disk : d # r => disk'[d] = disk[d]
      /\ disk'[r].emb = NewRows /\ disk'[r].state = NewRows
      /\ disk'[r].model = disk[r].model /\ disk'[r].optim = disk[r].optim
      /\ disk'[r].meta = disk[r].meta
  BY <1>1, NoRowsTable DEF TrainingInv, TypeInv, LoadNew, Files
<1>3. /\ prog' = [prog EXCEPT !.pc = "epoch", !.model = 0, !.optim = 0]
      /\ prog' \in Programs
  BY DEF TrainingInv, TypeInv, LoadNew, Programs, Version
<1> USE DEF TrainingInv
<1>3a. prog'.k = prog.k /\ prog'.pc = "epoch" /\ prog'.kind = "fresh"
       /\ prog'.model = 0 /\ prog'.optim = 0
       /\ prog'.epoch = prog.epoch /\ prog'.emb = prog.emb /\ prog'.state = prog.state
       /\ prog'.save = prog.save /\ prog'.new = prog.new /\ prog'.from = prog.from
       /\ prog'.processed = prog.processed /\ prog'.count = prog.count
  BY <1>3 DEF LoadNew, TypeInv, Programs
<1>4. TypeInv'
  BY <1>2, <1>3 DEF TypeInv, LoadNew, Exists
<1>5. ProgInv'
  BY <1>2, <1>3a, <1>1, TrainingAssumption DEF ProgInv, Beginner, IsModel, LoadNew, Exists, Running, Busy, None
<1>6. LimitInv'
  <2>1. PICK n \in Nat : DiskWithin(n) /\ ProgWithin(n) /\ NumEpochs * started = n + ToCome
    BY DEF LimitInv
  <2>2. ~Ahead /\ ToCome' = ToCome /\ started' = started
    BY <1>3a DEF Ahead, ToCome, LoadNew, Running
  <2>3. ASSUME NEW d \in DOMAIN disk'
        PROVE  /\ UpTo(disk'[d].emb, n) /\ UpTo(disk'[d].state, n)
               /\ disk'[d].model <= n /\ disk'[d].optim <= n /\ disk'[d].meta <= n
    BY <2>1, <2>2, <1>1, <1>2, NewRowsUpTo DEF DiskWithin
  <2>4. DiskWithin(n)' /\ ProgWithin(n)'
    BY <2>1, <2>2, <2>3, <1>3a DEF DiskWithin, ProgWithin
  <2>5. QED
    BY <2>1, <2>2, <2>4 DEF LimitInv
<1>7. SavingInv' /\ CopyInv'
  BY <1>3a DEF SavingInv, CopyInv
<1>8. CountInv'
  BY <1>2, <1>3a, <1>1, NamesDiffer DEF CountInv, LoadNew, Settled, BeingCopied, Agrees, Beginning, Busy, ProgInv, Beginner, IsModel
<1>9. ResultInv'
  BY <1>2, <1>3a, <1>1, NamesDiffer DEF ResultInv, LoadNew, Exists, Running
<1>10. RestartInv'
  BY <1>3a DEF RestartInv, Beginner, Restart
<1>11. CheckpointComplete'
  BY <1>2, <1>1, NamesDiffer DEF CheckpointComplete, BeingCopied, Checkpoints, LoadNew
<1>12. ResultSaved'
  <2>1. result' = result /\ result[prog.k] = NoResult /\ settings' = settings
    BY DEF LoadNew, ResultInv, Running
  <2>2. ASSUME NEW k \in Models, result[k] # NoResult
        PROVE  Root(k) # r /\ disk'[Root(k)] = disk[Root(k)]
    BY <2>1, <2>2, <1>2, RootsDiffer DEF ResultInv, Exists
  <2>3. QED
    BY <2>1, <2>2 DEF ResultSaved
<1>13. QED BY <1>4, <1>5, <1>6, <1>7, <1>8, <1>9, <1>10, <1>11, <1>12

LEMMA SaveStep ==
    ASSUME TrainingInv, NEW s, Step(s), s # "rename", prog' = Next1,
           UNCHANGED <<settings, started, crashes, result, torn, partly>>,
           disk' \in [DOMAIN disk' -> Files],
           DOMAIN disk' = DOMAIN disk \cup {prog.target},
           \A d \in DOMAIN disk \ {prog.target} : disk'[d] = disk[d],
           prog.target = Root(prog.k) =>
              /\ disk'[prog.target].emb = Mine.emb /\ disk'[prog.target].state = Mine.state
              /\ Left >= 5 => disk'[prog.target] = Mine,
           \A n \in Nat : DiskWithin(n) /\ ProgWithin(n) =>
              /\ UpTo(disk'[prog.target].emb, n) /\ UpTo(disk'[prog.target].state, n)
              /\ disk'[prog.target].model <= n /\ disk'[prog.target].optim <= n
              /\ disk'[prog.target].meta <= n,
           SavingInv'
    PROVE  TrainingInv'
<1> DEFINE d0 == prog.target
<1>0. TypeInv /\ ProgInv /\ LimitInv /\ SavingInv /\ CountInv /\ CopyInv /\ ResultInv /\ RestartInv
      /\ CheckpointComplete /\ ResultSaved
  BY DEF TrainingInv
<1>1. /\ prog' \in Programs /\ prog'.pc = "save"
      /\ prog'.kind = prog.kind /\ prog'.k = prog.k /\ prog'.from = prog.from
      /\ prog'.new = prog.new /\ prog'.save = prog.save /\ prog'.emb = prog.emb
      /\ prog'.state = prog.state /\ prog'.epoch = prog.epoch
      /\ prog'.processed = prog.processed /\ prog'.count = prog.count
      /\ prog'.model = prog.model /\ prog'.optim = prog.optim
      /\ prog'.target = prog.target
      /\ Left' = Left - 1
  BY <1>0, NextStep
<1>2. prog.pc = "save" /\ Left \in 1..8
  BY <1>0, StepIs
<1>3. /\ d0 = Root(prog.k) \/ (d0 = Temporary(prog.k, prog.processed) /\ d0 # Root(prog.k))
      /\ ~IsCheckpoint(d0) /\ d0 \in Names
      /\ Exists(Root(prog.k)) /\ Mine \in Files /\ result[prog.k] = NoResult
      /\ prog.k \in Models /\ prog.processed \in Nat
  BY <1>2, TargetIs
<1>4. /\ Root(prog.k) \in DOMAIN disk'
      /\ disk'[Root(prog.k)].emb = Mine.emb /\ disk'[Root(prog.k)].state = Mine.state
  BY <1>3 DEF Exists, Mine
<1>5. TypeInv'
  <2>1. ASSUME NEW k \in Models, NEW n \in Nat,
               Checkpoint(k, n) \in DOMAIN disk' \/ Temporary(k, n) \in DOMAIN disk'
        PROVE  Root(k) \in DOMAIN disk'
    <3>1. CASE Checkpoint(k, n) \in DOMAIN disk \/ Temporary(k, n) \in DOMAIN disk
      BY <3>1, <1>0 DEF TypeInv, Exists
    <3>2. CASE Checkpoint(k, n) = d0 \/ Temporary(k, n) = d0
      BY <3>2, <1>3, RootsApart, TemporariesDiffer, NamesDiffer DEF Exists
    <3>3. QED BY <2>1, <3>1, <3>2
  <2>2. DOMAIN disk' \subseteq Names
    BY <1>0, <1>3 DEF TypeInv
  <2>3. QED BY <1>0, <1>1, <2>1, <2>2 DEF TypeInv, Exists
<1>6. ProgInv'
  BY <1>0, <1>1, <1>2, <1>3, <1>4 DEF ProgInv, Beginner, IsModel, Running, Busy, Exists, Mine
<1>7. LimitInv'
  <2>1. PICK n \in Nat : DiskWithin(n) /\ ProgWithin(n) /\ NumEpochs * started = n + ToCome
    BY <1>0 DEF LimitInv
  <2>2. ToCome' = ToCome /\ started' = started /\ ~Ahead
    BY <1>1, <1>2 DEF ToCome, Running, Ahead
  <2>3. DiskWithin(n)'
    BY <2>1, <2>2 DEF DiskWithin
  <2>4. ProgWithin(n)'
    BY <2>1, <1>1 DEF ProgWithin
  <2>5. QED BY <2>1, <2>2, <2>3, <2>4 DEF LimitInv
<1>8. CountInv'
  <2>1. \A d \in Settled' : d \in Settled /\ disk'[d] = disk[d]
    BY <1>1, <1>2 DEF Settled, BeingCopied
  <2>2. Beginning' => prog.target = Root(prog.k) /\ Left >= 5
    BY <1>1, <1>2 DEF Beginning
  <2>3. Beginning' => Mine' = Mine /\ Beginning
    <3>1. Left >= 5 => Left >= 4
      BY <1>2
    <3>2. QED BY <2>2, <3>1, <1>1 DEF Mine, Beginning
  <2>4. QED
    BY <1>0, <1>1, <1>2, <2>1, <2>3 DEF CountInv, Busy, Agrees
<1>9. ResultInv'
  BY <1>0, <1>1, <1>2 DEF ResultInv, Running, Exists
<1>10. RestartInv'
  <2> SUFFICES ASSUME Restart PROVE RestartInv'
    BY <1>1 DEF RestartInv, Beginner, Restart
  <2>1. Mine.emb # NoRows /\ Mine.state # NoRows
    BY <1>0, <1>2 DEF RestartInv, Beginner, Running
  <2>2. ASSUME NEW n \in Nat
        PROVE  /\ Exists(Temporary(prog.k, n))' => prog.target = Temporary(prog.k, n)
               /\ Exists(Checkpoint(prog.k, n))' =>
                     /\ n <= prog.processed
                     /\ n = prog.processed => prog.target # Temporary(prog.k, n)
    <3>1. /\ Temporary(prog.k, n) \in DOMAIN disk' =>
                Temporary(prog.k, n) \in DOMAIN disk \/ prog.target = Temporary(prog.k, n)
          /\ Checkpoint(prog.k, n) \in DOMAIN disk' => Checkpoint(prog.k, n) \in DOMAIN disk
      BY <1>3, NamesDiffer
    <3>2. QED
      BY <3>1, <1>0, <1>1, <1>2 DEF RestartInv, Beginner, Running, Exists
  <2>4. prog.target # Root(prog.k) => Left' \in 1..7
    BY <1>0, <1>1, <1>2, TargetIs, StepIs
  <2>3. QED
    BY <1>1, <1>2, <1>3, <1>4, <2>1, <2>2, <2>4, RootsApart DEF RestartInv, Beginner, Running, Mine, Exists
<1>11. CheckpointComplete'
  BY <1>0, <1>1, <1>2, <1>3 DEF CheckpointComplete, BeingCopied, Checkpoints
<1>12. ResultSaved'
  <2>1. ASSUME NEW k \in Models, result[k] # NoResult
        PROVE  disk'[Root(k)] = disk[Root(k)]
    <3>1. Root(k) # prog.target
      BY <2>1, <1>3, RootsDiffer, RootsApart
    <3>2. Root(k) \in DOMAIN disk
      BY <2>1, <1>0 DEF ResultInv, Exists
    <3>3. QED BY <3>1, <3>2
  <2>2. QED BY <2>1, <1>0 DEF ResultSaved
<1>13. CopyInv'
  BY <1>1 DEF CopyInv
<1>14. QED
  BY <1>5, <1>6, <1>7, <1>8, <1>9, <1>10, <1>11, <1>12, <1>13 DEF TrainingInv

(* A step that writes nothing, or what is there already. *)
LEMMA WriteEndsStep ==
    ASSUME TrainingInv, NEW s \in {"emb", "state"}, WriteEnds(s)
    PROVE  TrainingInv'
<1>0. TypeInv /\ ProgInv /\ SavingInv
  BY DEF TrainingInv
<1>1. /\ Step(s) /\ prog' = Next1 /\ UNCHANGED <<settings, disk, started, crashes, result, torn, partly>>
      /\ settings.backend = "memory" => Mine[s] = prog[s]
  BY DEF WriteEnds, Written, Mine
<1>2. /\ prog'.k = prog.k /\ prog'.save = prog.save /\ prog'.emb = prog.emb
      /\ prog'.state = prog.state /\ prog'.epoch = prog.epoch
      /\ prog'.processed = prog.processed /\ prog'.count = prog.count
      /\ prog'.model = prog.model /\ prog'.optim = prog.optim
      /\ prog'.target = prog.target /\ Left' = Left - 1
      /\ CheckpointInv => IsRestOf(CheckpointSteps)'
      /\ FinalInv => IsRestOf(SaveSteps)'
  BY <1>0, <1>1, NextStep
<1>3. /\ prog.pc = "save" /\ Left \in 1..8 /\ (CheckpointInv \/ FinalInv)
      /\ CheckpointInv => (s = "emb" <=> Left = 6) /\ (s = "state" <=> Left = 3)
      /\ FinalInv => (s = "emb" <=> Left = 5) /\ (s = "state" <=> Left = 2)
  BY <1>0, <1>1, StepIs
<1>4. CheckpointInv => CheckpointInv'
  BY <1>1, <1>2, <1>3 DEF CheckpointInv, Exists
<1>5. FinalInv => FinalInv'
  BY <1>1, <1>2, <1>3 DEF FinalInv, Mine
<1>6. SavingInv'
  BY <1>3, <1>4, <1>5 DEF SavingInv
<1>7. Exists(prog.target)
  BY <1>3, TargetIs DEF CheckpointInv, FinalInv
<1>8. s # "rename"
  OBVIOUS
<1>9. /\ disk' \in [DOMAIN disk' -> Files]
      /\ DOMAIN disk' = DOMAIN disk \cup {prog.target}
      /\ \A d \in DOMAIN disk \ {prog.target} : disk'[d] = disk[d]
      /\ prog.target = Root(prog.k) =>
              /\ disk'[prog.target].emb = Mine.emb /\ disk'[prog.target].state = Mine.state
              /\ Left >= 5 => disk'[prog.target] = Mine
  BY <1>0, <1>1, <1>7 DEF TypeInv, Exists, Mine
<1>10. ASSUME NEW n \in Nat, DiskWithin(n)
       PROVE  /\ UpTo(disk'[prog.target].emb, n) /\ UpTo(disk'[prog.target].state, n)
              /\ disk'[prog.target].model <= n /\ disk'[prog.target].optim <= n
              /\ disk'[prog.target].meta <= n
  BY <1>1, <1>3, <1>7, <1>10 DEF DiskWithin, Ahead, Exists
<1>11. QED BY <1>1, <1>6, <1>8, <1>9, <1>10, SaveStep

(* createDir *)
LEMMA MakeDirStep == TrainingInv /\ MakeDir => TrainingInv'
<1> SUFFICES ASSUME TrainingInv, MakeDir PROVE TrainingInv'
  OBVIOUS
<1>0. TypeInv /\ ProgInv /\ SavingInv /\ RestartInv
  BY DEF TrainingInv
<1>1. Step("mkdir") /\ UNCHANGED <<settings, started, crashes, result, torn, partly>>
  BY DEF MakeDir
<1>2. prog.pc = "save" /\ CheckpointInv /\ Left = 8
  BY <1>0, <1>1, StepIs
<1>3. CASE Exists(prog.target)
  <2>1. Fail /\ disk' = disk
    BY <1>3 DEF MakeDir
  <2>2. prog.target = Temporary(prog.k, prog.processed) /\ prog.processed \in Nat
    BY <1>2, TargetIs DEF CheckpointInv
  <2>3. ~Restart
    BY <1>0, <1>2, <1>3, <2>2 DEF RestartInv, Beginner, Running
  <2>4. OnlyProg
    BY <1>0, <1>1, <2>1 DEF OnlyProg, TypeInv
  <2>5. QED BY <1>1, <1>2, <2>1, <2>2, <2>3, <2>4, FailStep
<1>4. CASE ~Exists(prog.target)
  <2>1. prog' = Next1 /\ disk' = With(prog.target, EmptyDir)
    BY <1>4 DEF MakeDir
  <2>2. /\ DOMAIN disk' = DOMAIN disk \cup {prog.target} /\ disk'[prog.target] = EmptyDir
        /\ disk' \in [DOMAIN disk' -> Files]
        /\ \A d \in DOMAIN disk \ {prog.target} : disk'[d] = disk[d]
    BY <1>0, <2>1, NoRowsTable DEF With, TypeInv
  <2>3. /\ prog'.k = prog.k /\ prog'.save = prog.save /\ prog'.epoch = prog.epoch
        /\ prog'.processed = prog.processed /\ prog'.target = prog.target /\ Left' = Left - 1
        /\ IsRestOf(CheckpointSteps)'
    BY <1>0, <1>1, <1>2, <2>1, NextStep
  <2>4. SavingInv'
    BY <1>2, <2>2, <2>3 DEF SavingInv, CheckpointInv, Exists
  <2>5. prog.target # Root(prog.k)
    BY <1>2, RootsApart DEF CheckpointInv
  <2>6. ASSUME NEW n \in Nat
        PROVE  /\ UpTo(EmptyDir.emb, n) /\ UpTo(EmptyDir.state, n)
               /\ EmptyDir.model <= n /\ EmptyDir.optim <= n /\ EmptyDir.meta <= n
    BY DEF EmptyDir, NoRows, None, UpTo
  <2>7. QED BY <1>1, <2>1, <2>2, <2>4, <2>5, <2>6, SaveStep
<1>5. QED BY <1>3, <1>4

LEMMA CopyRowsStep == TrainingInv /\ CopyRows => TrainingInv'
<1> SUFFICES ASSUME TrainingInv, CopyRows PROVE TrainingInv'
  OBVIOUS
<1>0. TypeInv /\ ProgInv /\ SavingInv
  BY DEF TrainingInv
<1>1. Step("copy") /\ UNCHANGED <<settings, started, crashes, result, torn, partly>> /\ prog' = Next1
  BY DEF CopyRows
<1>2. prog.pc = "save" /\ CheckpointInv /\ Left = 7
  BY <1>0, <1>1, StepIs
<1>3. Exists(prog.target) /\ prog.target # Root(prog.k)
  BY <1>2, RootsApart DEF CheckpointInv
<1>4. Mine.emb # NoRows /\ Mine.state # NoRows /\ Mine \in Files /\ Exists(Root(prog.k))
  BY <1>0, <1>2, TargetIs DEF ProgInv, Beginner, IsModel, Busy
<1>5. disk' = [disk EXCEPT ![prog.target].emb = Mine.emb,
                     ![prog.target].state = IF settings.saveState THEN Mine.state ELSE @]
  BY <1>4 DEF CopyRows, Mine
<1> DEFINE f == [disk[prog.target] EXCEPT !.emb = Mine.emb,
                     !.state = IF settings.saveState THEN Mine.state ELSE @]
<1>6. /\ f \in Files /\ f.emb = Mine.emb /\ f.emb # NoRows
      /\ f.state = IF settings.saveState THEN Mine.state ELSE disk[prog.target].state
      /\ f.model = disk[prog.target].model /\ f.optim = disk[prog.target].optim
      /\ f.meta = disk[prog.target].meta
  BY <1>0, <1>3, <1>4 DEF TypeInv, Files, Exists
<1>7. disk' = [disk EXCEPT ![prog.target] = f]
  BY <1>0, <1>3, <1>5 DEF TypeInv, Exists, Files
<1> HIDE DEF f
<1>8. /\ disk' \in [DOMAIN disk' -> Files] /\ DOMAIN disk' = DOMAIN disk \cup {prog.target}
      /\ disk'[prog.target] = f
      /\ \A d \in DOMAIN disk \ {prog.target} : disk'[d] = disk[d]
  BY <1>0, <1>3, <1>6, <1>7 DEF TypeInv, Exists
<1>9. /\ prog'.k = prog.k /\ prog'.save = prog.save /\ prog'.epoch = prog.epoch
      /\ prog'.processed = prog.processed /\ prog'.target = prog.target /\ Left' = Left - 1
      /\ IsRestOf(CheckpointSteps)'
  BY <1>0, <1>1, <1>2, NextStep
<1>10. SavingInv'
  BY <1>1, <1>2, <1>4, <1>6, <1>8, <1>9 DEF SavingInv, CheckpointInv, Exists
<1>11. ASSUME NEW n \in Nat, DiskWithin(n)
       PROVE  /\ UpTo(f.emb, n) /\ UpTo(f.state, n)
              /\ f.model <= n /\ f.optim <= n /\ f.meta <= n
  <2>1. /\ UpTo(Mine.emb, n) /\ UpTo(Mine.state, n)
        /\ UpTo(disk[prog.target].state, n) /\ disk[prog.target].model <= n
        /\ disk[prog.target].optim <= n /\ disk[prog.target].meta <= n
    BY <1>2, <1>3, <1>4, <1>11 DEF DiskWithin, Ahead, Exists, Mine
  <2>2. QED BY <1>6, <2>1
<1>12. QED BY <1>1, <1>3, <1>8, <1>10, <1>11, SaveStep

LEMMA SaveFileStep == TrainingInv /\ SaveFile => TrainingInv'
<1> SUFFICES ASSUME TrainingInv, SaveFile PROVE TrainingInv'
  OBVIOUS
<1>0. TypeInv /\ ProgInv /\ SavingInv
  BY DEF TrainingInv
<1> DEFINE d == prog.target
<1>1. PICK s \in {"model", "optim", "meta"} :
        /\ Step(s) /\ prog' = Next1 /\ UNCHANGED <<settings, started, crashes, result, torn, partly>>
        /\ s = "model" => disk' = [disk EXCEPT ![d].model = prog.model]
        /\ s = "optim" => disk' = [disk EXCEPT ![d].optim = prog.optim]
        /\ s = "meta" => disk' = [disk EXCEPT ![d].meta = prog.count]
  BY DEF SaveFile, Step
<1>2. /\ prog.pc = "save" /\ Left \in 1..8 /\ (CheckpointInv \/ FinalInv)
      /\ CheckpointInv => /\ s = "model" <=> Left = 5
                          /\ s = "optim" <=> Left = 4
                          /\ s = "meta" <=> Left = 2
      /\ FinalInv => /\ s = "model" <=> Left = 4
                     /\ s = "optim" <=> Left = 3
                     /\ s = "meta" <=> Left = 1
  BY <1>0, <1>1, StepIs
<1>3. Exists(d) /\ d \in DOMAIN disk /\ disk[d] \in Files
  BY <1>0, <1>1, <1>2, TargetIs DEF CheckpointInv, Exists, TypeInv
<1>4. prog.model \in Version /\ prog.optim \in Version /\ prog.count \in Version
  BY <1>0 DEF TypeInv, Programs
<1>5. PICK f \in Files :
        /\ disk' = [disk EXCEPT ![d] = f]
        /\ f.emb = disk[d].emb /\ f.state = disk[d].state
        /\ f.model = IF s = "model" THEN prog.model ELSE disk[d].model
        /\ f.optim = IF s = "optim" THEN prog.optim ELSE disk[d].optim
        /\ f.meta = IF s = "meta" THEN prog.count ELSE disk[d].meta
  <2>1. CASE s = "model"
    <3>1. [disk[d] EXCEPT !.model = prog.model] \in Files
      BY <1>3, <1>4 DEF Files
    <3>2. disk' = [disk EXCEPT ![d] = [disk[d] EXCEPT !.model = prog.model]]
      BY <2>1, <1>1
    <3>3. QED BY <2>1, <1>3, <3>1, <3>2 DEF Files
  <2>2. CASE s = "optim"
    <3>1. [disk[d] EXCEPT !.optim = prog.optim] \in Files
      BY <1>3, <1>4 DEF Files
    <3>2. disk' = [disk EXCEPT ![d] = [disk[d] EXCEPT !.optim = prog.optim]]
      BY <2>2, <1>1
    <3>3. QED BY <2>2, <1>3, <3>1, <3>2 DEF Files
  <2>3. CASE s = "meta"
    <3>1. [disk[d] EXCEPT !.meta = prog.count] \in Files
      BY <1>3, <1>4 DEF Files
    <3>2. disk' = [disk EXCEPT ![d] = [disk[d] EXCEPT !.meta = prog.count]]
      BY <2>3, <1>1
    <3>3. QED BY <2>3, <1>3, <3>1, <3>2 DEF Files
  <2>4. QED BY <2>1, <2>2, <2>3
<1>6. /\ disk' \in [DOMAIN disk' -> Files] /\ DOMAIN disk' = DOMAIN disk \cup {d}
      /\ disk'[d] = f /\ \A e \in DOMAIN disk \ {d} : disk'[e] = disk[e]
  BY <1>0, <1>3, <1>5 DEF TypeInv
<1>7. /\ prog'.k = prog.k /\ prog'.save = prog.save /\ prog'.epoch = prog.epoch
      /\ prog'.emb = prog.emb /\ prog'.state = prog.state /\ prog'.count = prog.count
      /\ prog'.model = prog.model /\ prog'.optim = prog.optim
      /\ prog'.processed = prog.processed /\ prog'.target = d /\ Left' = Left - 1
      /\ CheckpointInv => IsRestOf(CheckpointSteps)'
      /\ FinalInv => IsRestOf(SaveSteps)'
  BY <1>0, <1>1, NextStep
<1>8. CheckpointInv => CheckpointInv'
  BY <1>1, <1>2, <1>5, <1>6, <1>7 DEF CheckpointInv, Exists
<1>9. FinalInv => FinalInv'
  BY <1>1, <1>2, <1>5, <1>6, <1>7 DEF FinalInv, Mine
<1>10. SavingInv'
  BY <1>2, <1>8, <1>9 DEF SavingInv
<1>11. ASSUME NEW n \in Nat, DiskWithin(n), ProgWithin(n)
       PROVE  /\ UpTo(f.emb, n) /\ UpTo(f.state, n)
              /\ f.model <= n /\ f.optim <= n /\ f.meta <= n
  BY <1>2, <1>3, <1>5, <1>11 DEF DiskWithin, ProgWithin, Ahead
<1>12. d = Root(prog.k) => f.emb = Mine.emb /\ f.state = Mine.state /\ Left < 5
  BY <1>1, <1>2, <1>5, TargetIs DEF Mine
<1>13. Left >= 5 => ~(Left < 5)
  BY <1>2
<1>14. s # "rename"
  BY <1>1
<1>15. QED BY <1>1, <1>6, <1>10, <1>11, <1>12, <1>13, <1>14, SaveStep

(* Rows of the tables in the model directory are replaced. *)
LEMMA RowsStep ==
    ASSUME TrainingInv, Busy, UNCHANGED <<settings, prog, started, crashes, result, torn, partly>>,
           NEW f \in Files, f.emb # NoRows, f.state # NoRows, f.model = Mine.model,
           f.optim = Mine.optim, f.meta = Mine.meta,
           disk' = [disk EXCEPT ![Root(prog.k)] = f],
           \A n \in Nat : DiskWithin(n) /\ ProgWithin(n) =>
              (UpTo(f.emb, n) \/ (Ahead /\ UpTo(f.emb, n + 1))) /\ UpTo(f.state, n),
           SavingInv'
    PROVE  TrainingInv'
<1> DEFINE r == Root(prog.k)
<1>0. TypeInv /\ ProgInv /\ LimitInv /\ SavingInv /\ CountInv /\ CopyInv /\ ResultInv /\ RestartInv
      /\ CheckpointComplete /\ ResultSaved
  BY DEF TrainingInv
<1>1. /\ prog.kind # "eval" /\ r \in DOMAIN disk /\ Running /\ prog.k \in Models
      /\ result[prog.k] = NoResult /\ prog.pc \in {"epoch", "save"}
  BY <1>0 DEF ProgInv, Beginner, IsModel, Busy, Running, Exists, ResultInv, TypeInv, Programs
<1>2. /\ DOMAIN disk' = DOMAIN disk /\ disk' \in [DOMAIN disk -> Files] /\ disk'[r] = f
      /\ \A d \in DOMAIN disk \ {r} : disk'[d] = disk[d]
  BY <1>0, <1>1 DEF TypeInv
<1>3. TypeInv'
  BY <1>0, <1>2 DEF TypeInv, Exists
<1>4. ProgInv'
  BY <1>0, <1>1, <1>2 DEF ProgInv, Beginner, IsModel, Running, Busy, Exists, Mine
<1>5. LimitInv'
  <2>1. PICK n \in Nat : DiskWithin(n) /\ ProgWithin(n) /\ NumEpochs * started = n + ToCome
    BY <1>0 DEF LimitInv
  <2>2. UpTo(f.emb, n) \/ (Ahead /\ UpTo(f.emb, n + 1))
    BY <2>1
  <2>3. UpTo(f.state, n)
    BY <2>1
  <2>4. DiskWithin(n)'
    BY <1>1, <1>2, <2>1, <2>2, <2>3 DEF DiskWithin, Ahead, Mine
  <2>5. ProgWithin(n)' /\ ToCome' = ToCome
    BY <2>1 DEF ProgWithin, ToCome, Running
  <2>6. QED BY <2>1, <2>4, <2>5 DEF LimitInv
<1>6. CountInv'
  <2>1. \A d \in DOMAIN disk : Agrees(disk'[d]) <=> Agrees(disk[d])
    BY <1>2 DEF Agrees, Mine
  <2>2. Settled' = Settled /\ Settled \subseteq DOMAIN disk
    BY <1>1, <1>2 DEF Settled, BeingCopied
  <2>3. Agrees(Mine)' <=> Agrees(Mine)
    BY <2>1, <1>1 DEF Mine, Agrees
  <2>4. QED
    BY <1>0, <2>1, <2>2, <2>3 DEF CountInv, Busy, Beginning, Left
<1>7. ResultInv'
  BY <1>0, <1>2 DEF ResultInv, Running, Exists
<1>8. RestartInv'
  BY <1>0, <1>2 DEF RestartInv, Beginner, Restart, Running, Exists, Mine, Left
<1>9. CheckpointComplete'
  <2>1. ~IsCheckpoint(r)
    BY NamesDiffer
  <2>2. QED BY <1>0, <1>1, <1>2, <2>1 DEF CheckpointComplete, BeingCopied, Checkpoints
<1>10. ResultSaved'
  <2>1. ASSUME NEW k \in Models, result[k] # NoResult
        PROVE  disk'[Root(k)] = disk[Root(k)]
    <3>1. Root(k) # r
      BY <2>1, <1>1, RootsDiffer
    <3>2. Root(k) \in DOMAIN disk
      BY <2>1, <1>0 DEF ResultInv, Exists
    <3>3. QED BY <3>1, <3>2, <1>2
  <2>2. QED BY <2>1, <1>0 DEF ResultSaved
<1>11. CopyInv'
  BY <1>1 DEF CopyInv
<1>12. QED
  BY <1>3, <1>4, <1>5, <1>6, <1>7, <1>8, <1>9, <1>10, <1>11 DEF TrainingInv

(* A row that is replaced in a table. *)
LEMMA RowIs ==
    ASSUME NEW rows \in Table, rows # NoRows, NEW p \in Parts, NEW v \in Nat
    PROVE  /\ [rows EXCEPT ![p] = v] \in Table /\ [rows EXCEPT ![p] = v] # NoRows
           /\ \A n \in Nat : UpTo(rows, n) /\ v <= n => UpTo([rows EXCEPT ![p] = v], n)
<1>1. \A q \in Parts : rows[q] \in Nat
  BY DEF Table, Version
<1>2. [rows EXCEPT ![p] = v][p] = v /\ \A q \in Parts : [rows EXCEPT ![p] = v][q] \in Nat
  BY <1>1 DEF Table
<1>3. QED BY <1>1, <1>2 DEF Table, Version, None, NoRows, UpTo

LEMMA WritePartStep ==
    ASSUME TrainingInv, NEW s \in {"emb", "state"}, NEW p \in Parts, WritePart(s, p)
    PROVE  TrainingInv'
<1>0. TypeInv /\ ProgInv /\ SavingInv
  BY DEF TrainingInv
<1>1. /\ Step(s) /\ settings.backend = "memory" /\ ~Ahead /\ Busy
      /\ UNCHANGED <<settings, prog, started, crashes, result, torn, partly>>
      /\ disk' = [disk EXCEPT ![Root(prog.k)][s][p] = prog[s][p]]
  BY DEF WritePart, Written, Ahead, Step, Busy
<1>2. /\ prog.pc = "save" /\ Left \in 1..8 /\ (CheckpointInv \/ FinalInv)
      /\ CheckpointInv => (s = "emb" <=> Left = 6) /\ (s = "state" <=> Left = 3)
      /\ FinalInv => (s = "emb" <=> Left = 5) /\ (s = "state" <=> Left = 2)
  BY <1>0, <1>1, StepIs
<1>3. /\ Mine \in Files /\ Root(prog.k) \in DOMAIN disk
      /\ Mine.emb # NoRows /\ Mine.state # NoRows
      /\ prog.emb # NoRows /\ prog.state # NoRows
      /\ prog.emb \in Table /\ prog.state \in Table
  BY <1>0, <1>1, <1>2, TargetIs DEF ProgInv, Beginner, IsModel, Exists, TypeInv, Programs
<1>4. prog.emb[p] \in Nat /\ prog.state[p] \in Nat
  BY <1>3 DEF Table, Version
<1>5. PICK f \in Files :
        /\ disk' = [disk EXCEPT ![Root(prog.k)] = f]
        /\ f.emb = IF s = "emb" THEN [Mine.emb EXCEPT ![p] = prog.emb[p]] ELSE Mine.emb
        /\ f.state = IF s = "state" THEN [Mine.state EXCEPT ![p] = prog.state[p]] ELSE Mine.state
        /\ f.model = Mine.model /\ f.optim = Mine.optim /\ f.meta = Mine.meta
  <2>1. CASE s = "emb"
    <3> DEFINE t == [Mine.emb EXCEPT ![p] = prog.emb[p]]
    <3>1. t \in Table
      BY <1>3, <1>4, RowIs DEF Files
    <3> DEFINE f == [Mine EXCEPT !.emb = t]
    <3>2. disk' = [disk EXCEPT ![Root(prog.k)] = f]
      BY <2>1, <1>1 DEF Mine
    <3>3. /\ f \in Files /\ f.emb = t /\ f.state = Mine.state
          /\ f.model = Mine.model /\ f.optim = Mine.optim /\ f.meta = Mine.meta
      BY <1>3, <3>1 DEF Files
    <3> HIDE DEF f
    <3>4. QED BY <2>1, <3>2, <3>3
  <2>2. CASE s = "state"
    <3> DEFINE t == [Mine.state EXCEPT ![p] = prog.state[p]]
    <3>1. t \in Table
      BY <1>3, <1>4, RowIs DEF Files
    <3> DEFINE f == [Mine EXCEPT !.state = t]
    <3>2. disk' = [disk EXCEPT ![Root(prog.k)] = f]
      BY <2>2, <1>1 DEF Mine
    <3>3. /\ f \in Files /\ f.state = t /\ f.emb = Mine.emb
          /\ f.model = Mine.model /\ f.optim = Mine.optim /\ f.meta = Mine.meta
      BY <1>3, <3>1 DEF Files
    <3> HIDE DEF f
    <3>4. QED BY <2>2, <3>2, <3>3
  <2>3. QED BY <2>1, <2>2
<1>6. f.emb # NoRows /\ f.state # NoRows
  BY <1>3, <1>4, <1>5, RowIs DEF Files
<1>7. ASSUME NEW n \in Nat, DiskWithin(n), ProgWithin(n)
      PROVE  UpTo(f.emb, n) /\ UpTo(f.state, n)
  <2>1. /\ UpTo(Mine.emb, n) /\ UpTo(Mine.state, n)
        /\ prog.emb[p] <= n /\ prog.state[p] <= n
    BY <1>1, <1>3, <1>7 DEF DiskWithin, ProgWithin, Mine, UpTo
  <2>2. QED BY <2>1, <1>3, <1>4, <1>5, RowIs DEF Files
<1>8. disk'[Root(prog.k)] = f /\ \A d \in DOMAIN disk \ {Root(prog.k)} : disk'[d] = disk[d]
      /\ DOMAIN disk' = DOMAIN disk
  BY <1>0, <1>3, <1>5 DEF TypeInv
<1>9. CheckpointInv => CheckpointInv'
  <2> SUFFICES ASSUME CheckpointInv PROVE CheckpointInv'
    OBVIOUS
  <2>1. prog.target # Root(prog.k) /\ prog' = prog /\ settings' = settings
    BY <1>1, RootsApart DEF CheckpointInv
  <2>2. prog.target \in DOMAIN disk /\ disk'[prog.target] = disk[prog.target]
    BY <1>2, <2>1, <1>8 DEF CheckpointInv, Exists
  <2>3. QED BY <2>1, <2>2, <1>8 DEF CheckpointInv, Exists, Left, IsRestOf
<1>10. FinalInv => FinalInv'
  <2> SUFFICES ASSUME FinalInv PROVE FinalInv'
    OBVIOUS
  <2>1. prog' = prog /\ settings' = settings /\ Mine' = f
    BY <1>1, <1>8 DEF Mine
  <2>2. s = "state" => f.emb = Mine.emb
    BY <1>5
  <2>3. QED BY <1>2, <1>5, <2>1, <2>2 DEF FinalInv, Left, IsRestOf
<1>11. SavingInv'
  BY <1>2, <1>9, <1>10 DEF SavingInv
<1>12. QED BY <1>1, <1>5, <1>6, <1>7, <1>11, RowsStep

LEMMA WriteRowsStep == TrainingInv /\ WriteRows => TrainingInv'
BY WriteEndsStep, WritePartStep DEF WriteRows

LEMMA WriteBackStep ==
    ASSUME TrainingInv, NEW p \in Parts, WriteBack(p)
    PROVE  TrainingInv'
<1>0. TypeInv /\ ProgInv /\ SavingInv
  BY DEF TrainingInv
<1>1. /\ Busy /\ Ahead /\ prog.pc = "epoch" /\ Mine.emb # NoRows /\ Mine.state # NoRows
      /\ UNCHANGED <<settings, prog, started, crashes, result, torn, partly>>
      /\ disk' = [disk EXCEPT ![Root(prog.k)].emb[p] = prog.model + 1]
  BY DEF WriteBack, Ahead, Busy, Mine
<1>2. Mine \in Files /\ Root(prog.k) \in DOMAIN disk /\ prog.model \in Nat
  BY <1>0, <1>1 DEF ProgInv, Beginner, IsModel, Busy, Running, Exists, TypeInv, Programs, Version, Mine
<1> DEFINE t == [Mine.emb EXCEPT ![p] = prog.model + 1]
<1>3. /\ t \in Table /\ t # NoRows
      /\ \A n \in Nat : UpTo(Mine.emb, n) /\ prog.model + 1 <= n => UpTo(t, n)
  BY <1>1, <1>2, RowIs DEF Files
<1> DEFINE g == [Mine EXCEPT !.emb = t]
<1>4. disk' = [disk EXCEPT ![Root(prog.k)] = g]
  BY <1>1 DEF Mine
<1>9. /\ g \in Files /\ g.emb = t /\ g.state = Mine.state
      /\ g.model = Mine.model /\ g.optim = Mine.optim /\ g.meta = Mine.meta
  BY <1>2, <1>3 DEF Files
<1> HIDE DEF g, t
<1>5. PICK f \in Files :
        /\ disk' = [disk EXCEPT ![Root(prog.k)] = f]
        /\ f.emb = t /\ f.state = Mine.state
        /\ f.model = Mine.model /\ f.optim = Mine.optim /\ f.meta = Mine.meta
  BY <1>4, <1>9
<1>6. ASSUME NEW n \in Nat, DiskWithin(n), ProgWithin(n)
      PROVE  UpTo(f.emb, n + 1) /\ UpTo(f.state, n)
  <2>1. UpTo(Mine.emb, n) \/ UpTo(Mine.emb, n + 1)
    BY <1>2, <1>6 DEF DiskWithin, Mine
  <2>2. UpTo(Mine.emb, n + 1)
    <3>1. \A q \in Parts : Mine.emb[q] \in Nat
      BY <1>1, <1>2 DEF Files, Table, Version
    <3>2. QED BY <2>1, <3>1 DEF UpTo
  <2>3. prog.model + 1 <= n + 1 /\ UpTo(Mine.state, n)
    BY <1>2, <1>6 DEF ProgWithin, DiskWithin, Mine
  <2>4. QED BY <1>3, <1>5, <2>2, <2>3
<1>7. SavingInv'
  BY <1>1 DEF SavingInv
<1>8. QED BY <1>1, <1>3, <1>5, <1>6, <1>7, RowsStep

(* renameFile: the temporary directory becomes the checkpoint. *)
LEMMA RenameDirStep == TrainingInv /\ RenameDir => TrainingInv'
<1> SUFFICES ASSUME TrainingInv, RenameDir PROVE TrainingInv'
  OBVIOUS
<1> DEFINE d     == prog.target
           final == Checkpoint(prog.k, prog.processed)
<1>0. TypeInv /\ ProgInv /\ LimitInv /\ SavingInv /\ CountInv /\ CopyInv /\ ResultInv /\ RestartInv
      /\ CheckpointComplete /\ ResultSaved
  BY DEF TrainingInv
<1>1. Step("rename") /\ UNCHANGED <<settings, started, crashes, result, torn, partly>>
  BY DEF RenameDir
<1>2. prog.pc = "save" /\ CheckpointInv /\ Left = 1 /\ Busy /\ Running
  BY <1>0, <1>1, StepIs DEF Busy, Running
<1>3. /\ d = Temporary(prog.k, prog.processed) /\ d \in DOMAIN disk /\ disk[d] \in Files
      /\ disk[d].emb # NoRows /\ (settings.saveState => disk[d].state # NoRows)
      /\ disk[d].model = prog.model /\ disk[d].optim = prog.optim /\ disk[d].meta = prog.count
      /\ prog.save /\ prog.epoch < NumEpochs
  BY <1>0, <1>2 DEF CheckpointInv, Exists, TypeInv
<1>4. /\ prog.count = prog.processed /\ prog.model # None /\ prog.optim # None
      /\ prog.kind # "eval" /\ prog.k \in Models /\ prog.processed \in Nat
      /\ Root(prog.k) \in DOMAIN disk /\ result[prog.k] = NoResult
  BY <1>0, <1>2, TargetIs DEF ProgInv, Beginner, IsModel, Busy, Exists
<1>5. final = Checkpoint(prog.k, d[3])
  BY <1>3, NamesDiffer
<1>6. CASE Exists(final)
  <2>1. Fail /\ disk' = disk
    BY <1>5, <1>6 DEF RenameDir, MayRename
  <2>2. ~Restart
    BY <1>0, <1>2, <1>3, <1>4, <1>6 DEF RestartInv, Beginner
  <2>3. OnlyProg
    BY <1>0, <1>1, <2>1 DEF OnlyProg, TypeInv
  <2>4. QED BY <1>1, <1>2, <1>3, <2>1, <2>2, <2>3, FailStep
<1>7. CASE ~Exists(final)
  <2>0. prog' = Next1 /\ disk' = [e \in (DOMAIN disk \ {d}) \cup {final} |->
                                    disk[IF e = final THEN d ELSE e]]
    BY <1>5, <1>7 DEF RenameDir, MayRename
  <2> DEFINE r == Root(prog.k)
  <2>1. /\ prog' \in Programs /\ prog'.pc = "save"
        /\ prog'.kind = prog.kind /\ prog'.k = prog.k /\ prog'.from = prog.from
        /\ prog'.new = prog.new /\ prog'.save = prog.save /\ prog'.emb = prog.emb
        /\ prog'.state = prog.state /\ prog'.epoch = prog.epoch
        /\ prog'.processed = prog.processed /\ prog'.count = prog.count
        /\ prog'.model = prog.model /\ prog'.optim = prog.optim
        /\ prog'.target = prog.target /\ Left' = 0
        /\ IsRestOf(CheckpointSteps)'
    BY <1>0, <1>1, <1>2, <2>0, NextStep
  <2>2. d # r /\ final # r /\ final # d /\ final \notin DOMAIN disk /\ ~IsCheckpoint(d)
    BY <1>3, <1>7, NamesDiffer DEF Exists
  <2>3. /\ DOMAIN disk' = (DOMAIN disk \ {d}) \cup {final} /\ disk'[final] = disk[d]
        /\ \A e \in DOMAIN disk \ {d} : disk'[e] = disk[e]
        /\ disk' \in [DOMAIN disk' -> Files]
        /\ r \in DOMAIN disk' /\ disk'[r] = disk[r] /\ Mine' = Mine
    BY <1>0, <1>3, <1>4, <2>0, <2>1, <2>2 DEF TypeInv, Mine
  <2> HIDE DEF d, final, r
  <2>4. TypeInv'
    <3>1. ASSUME NEW k \in Models, NEW n \in Nat,
                 Checkpoint(k, n) \in DOMAIN disk' \/ Temporary(k, n) \in DOMAIN disk'
          PROVE  Root(k) \in DOMAIN disk'
      <4>1. CASE Checkpoint(k, n) \in DOMAIN disk \/ Temporary(k, n) \in DOMAIN disk
        <5>1. Root(k) \in DOMAIN disk
          BY <4>1, <1>0 DEF TypeInv, Exists
        <5>2. Root(k) # d
          BY <1>3, RootsApart
        <5>3. QED BY <5>1, <5>2, <2>3
      <4>2. CASE Checkpoint(k, n) = final \/ Temporary(k, n) = final
        <5>1. k = prog.k
          BY <4>2, CheckpointsDiffer, NamesDiffer DEF final
        <5>2. QED BY <5>1, <2>3 DEF r
      <4>3. QED BY <3>1, <4>1, <4>2, <2>3
    <3>2. final \in Names
      BY <1>4 DEF final, Names
    <3>3. QED BY <1>0, <1>1, <2>1, <2>3, <3>1, <3>2 DEF TypeInv, Exists
  <2>5. ProgInv'
    BY <1>0, <1>1, <1>2, <2>1, <2>3 DEF ProgInv, Beginner, IsModel, Running, Busy, Exists, r
  <2>6. LimitInv'
    <3>1. PICK n \in Nat : DiskWithin(n) /\ ProgWithin(n) /\ NumEpochs * started = n + ToCome
      BY <1>0 DEF LimitInv
    <3>2. ToCome' = ToCome /\ started' = started /\ ~Ahead
      BY <1>1, <1>2, <2>1 DEF ToCome, Running, Ahead
    <3>3. DiskWithin(n)'
      BY <3>1, <3>2, <1>3, <2>3 DEF DiskWithin
    <3>4. ProgWithin(n)'
      BY <3>1, <2>1 DEF ProgWithin
    <3>5. QED BY <3>1, <3>2, <3>3, <3>4 DEF LimitInv
  <2>7. SavingInv'
    <3>1. prog'.target = Temporary(prog'.k, prog'.processed) /\ prog'.epoch < NumEpochs
          /\ prog'.save
      BY <1>3, <2>1 DEF d
    <3>2. Left' \notin 1..7
      BY <2>1
    <3>3. CheckpointInv'
      BY <3>1, <3>2, <2>1 DEF CheckpointInv
    <3>4. QED BY <3>3 DEF SavingInv
  <2>8. CountInv'
    <3> SUFFICES ASSUME ~torn PROVE CountInv'
      BY <1>1 DEF CountInv
    <3>1. /\ \A e \in Settled : Agrees(disk[e])
          /\ prog.processed = prog.model /\ prog.optim = prog.model
      BY <1>0, <1>2 DEF CountInv
    <3>2. Agrees(disk[d])
      BY <1>3, <1>4, <3>1 DEF Agrees
    <3>3. \A e \in Settled' : e = final \/ (e \in Settled /\ disk'[e] = disk[e])
      BY <1>2, <2>1, <2>3 DEF Settled, BeingCopied, d
    <3>4. \A e \in Settled' : Agrees(disk[e])'
      BY <2>3, <3>1, <3>2, <3>3 DEF Agrees
    <3>5. ~Beginning'
      BY <2>1 DEF Beginning
    <3>6. QED BY <2>1, <3>1, <3>4, <3>5 DEF CountInv
  <2>9. ResultInv'
    <3>1. \A k : Root(k) # d
      BY <1>3, RootsApart
    <3>2. QED BY <1>0, <1>1, <1>2, <2>1, <2>3, <3>1 DEF ResultInv, Running, Exists
  <2>10. RestartInv'
    <3> SUFFICES ASSUME Restart PROVE RestartInv'
      BY <1>1, <2>1 DEF RestartInv, Beginner, Restart
    <3>1. Mine'.emb # NoRows /\ Mine'.state # NoRows
      BY <1>0, <1>2, <2>3 DEF RestartInv, Beginner
    <3>2. ASSUME NEW n \in Nat
          PROVE  /\ ~Exists(Temporary(prog.k, n))'
                 /\ Exists(Checkpoint(prog.k, n))' => n <= prog.processed
      <4>1. Temporary(prog.k, n) \notin DOMAIN disk'
        <5>1. Temporary(prog.k, n) \in DOMAIN disk => Temporary(prog.k, n) = d
          BY <1>0, <1>2 DEF RestartInv, Beginner, Exists, d
        <5>2. Temporary(prog.k, n) # final
          BY NamesDiffer DEF final
        <5>3. QED BY <2>3, <5>1, <5>2
      <4>2. Checkpoint(prog.k, n) \in DOMAIN disk' => n <= prog.processed
        <5>1. Checkpoint(prog.k, n) \in DOMAIN disk => n <= prog.processed
          BY <1>0, <1>2 DEF RestartInv, Beginner, Exists
        <5>2. Checkpoint(prog.k, n) = final => n <= prog.processed
          BY <1>4, CheckpointsDiffer DEF final
        <5>3. QED BY <2>3, <5>1, <5>2
      <4>3. QED BY <2>1, <4>1, <4>2 DEF Exists
    <3>3. QED
      BY <2>1, <3>1, <3>2 DEF RestartInv, Beginner
  <2>11. CheckpointComplete'
    <3>1. final[3] = prog.processed
      BY NamesDiffer DEF final
    <3>2. QED
      BY <1>0, <1>1, <1>2, <1>3, <1>4, <2>1, <2>2, <2>3, <3>1 DEF CheckpointComplete, BeingCopied, Checkpoints
  <2>12. ResultSaved'
    <3>1. ASSUME NEW k \in Models, result[k] # NoResult
          PROVE  disk'[Root(k)] = disk[Root(k)]
      <4>1. Root(k) # d
        BY <1>3, RootsApart
      <4>2. Root(k) \in DOMAIN disk
        BY <3>1, <1>0 DEF ResultInv, Exists
      <4>3. QED BY <4>1, <4>2, <2>3
    <3>2. QED BY <3>1, <1>0, <1>1 DEF ResultSaved
  <2>14. CopyInv'
    BY <2>1 DEF CopyInv
  <2>13. QED
    BY <2>4, <2>5, <2>6, <2>7, <2>8, <2>9, <2>10, <2>11, <2>12, <2>14 DEF TrainingInv
<1>8. QED BY <1>6, <1>7

(* A training that ended, or goes on after a checkpoint. *)
LEMMA SavedStep == TrainingInv /\ Saved => TrainingInv'
<1> SUFFICES ASSUME TrainingInv, Saved PROVE TrainingInv'
  OBVIOUS
<1>0. TypeInv /\ ProgInv /\ LimitInv /\ SavingInv /\ CountInv /\ CopyInv /\ ResultInv /\ RestartInv
      /\ CheckpointComplete /\ ResultSaved
  BY DEF TrainingInv
<1>1. /\ prog.pc = "save" /\ Left = 0
      /\ UNCHANGED <<settings, disk, started, crashes, torn, partly>>
      /\ Running /\ Busy /\ prog \in Programs
  BY <1>0 DEF Saved, Left, Running, Busy, TypeInv
<1>2. /\ prog.count = prog.processed /\ prog.epoch > 0 /\ prog.model # None /\ prog.optim # None
      /\ prog.kind # "eval" /\ prog.k \in Models /\ Root(prog.k) \in DOMAIN disk
      /\ result[prog.k] = NoResult /\ Mine \in Files /\ Exists(Root(prog.k))
  BY <1>0, <1>1, TargetIs DEF ProgInv, Beginner, IsModel, Busy, Exists
<1>3. CASE prog.target = Root(prog.k)
  <2> DEFINE new == [count |-> prog.count, model |-> prog.model, optim |-> prog.optim,
                     emb |-> prog.emb, state |-> prog.state]
  <2>1. prog' = [prog EXCEPT !.pc = "done"] /\ result' = [result EXCEPT ![prog.k] = new]
    BY <1>3 DEF Saved
  <2>2. /\ FinalInv /\ Mine.model = prog.model /\ Mine.optim = prog.optim /\ Mine.meta = prog.count
        /\ settings.backend = "memory" => Mine.emb = prog.emb /\ Mine.state = prog.state
    BY <1>1, <1>3, TargetIs DEF FinalInv
  <2>3. /\ prog' \in Programs /\ prog'.pc = "done"
        /\ prog'.kind = prog.kind /\ prog'.k = prog.k /\ prog'.from = prog.from
        /\ prog'.new = prog.new /\ prog'.save = prog.save /\ prog'.emb = prog.emb
        /\ prog'.state = prog.state /\ prog'.epoch = prog.epoch
        /\ prog'.processed = prog.processed /\ prog'.count = prog.count
        /\ prog'.model = prog.model /\ prog'.optim = prog.optim
    BY <1>1, <2>1 DEF Programs
  <2>4. /\ new \in Results /\ new.model = prog.model /\ new.optim = prog.optim
        /\ new.count = prog.count /\ new.emb = prog.emb /\ new.state = prog.state
    BY <1>1 DEF Programs, Results
  <2> HIDE DEF new
  <2>5. /\ result' \in [Models -> Results] /\ result'[prog.k] = new
        /\ \A k \in Models : k # prog.k => result'[k] = result[k]
    BY <1>0, <1>2, <2>1, <2>4 DEF TypeInv
  <2>6. TypeInv'
    BY <1>0, <1>1, <2>3, <2>5 DEF TypeInv, Exists
  <2>15. CopyInv'
    BY <2>3 DEF CopyInv
  <2>7. ProgInv' /\ SavingInv'
    BY <1>0, <1>1, <2>3 DEF ProgInv, Beginner, IsModel, SavingInv, Running, Busy
  <2>8. LimitInv'
    BY <1>0, <1>1, <2>3, LimitEnds DEF Running, ProgWithin
  <2>9. CountInv'
    <3> SUFFICES ASSUME ~torn PROVE CountInv'
      BY <1>1 DEF CountInv
    <3>1. Agrees(Mine)
      BY <1>0, <1>1, <1>2, <2>2 DEF CountInv, Agrees
    <3>2. \A e \in Settled' : e \in Settled \/ e = Root(prog.k)
      BY <1>1, <1>3 DEF Settled, BeingCopied
    <3>3. \A e \in Settled' : Agrees(disk[e])'
      BY <1>0, <1>1, <3>1, <3>2 DEF CountInv, Agrees, Mine
    <3>4. QED BY <2>3, <3>3 DEF CountInv, Busy
  <2>10. ResultInv'
    BY <1>0, <1>1, <1>2, <2>3, <2>5 DEF ResultInv, Running, Exists
  <2>11. RestartInv'
    BY <1>1, <2>3 DEF RestartInv, Beginner, Restart, Running
  <2>12. CheckpointComplete'
    BY <1>0, <1>1, <2>3 DEF CheckpointComplete, BeingCopied, Checkpoints
  <2>13. ResultSaved'
    BY <1>0, <1>1, <2>2, <2>4, <2>5 DEF ResultSaved, Mine
  <2>14. QED
    BY <2>6, <2>7, <2>8, <2>9, <2>10, <2>11, <2>12, <2>13, <2>15 DEF TrainingInv
<1>4. CASE prog.target # Root(prog.k)
  <2>1. prog' = [prog EXCEPT !.pc = "epoch"] /\ result' = result
    BY <1>4 DEF Saved
  <2>2. CheckpointInv /\ prog.epoch < NumEpochs
    BY <1>0, <1>1, <1>4 DEF SavingInv, CheckpointInv, FinalInv
  <2>3. /\ prog' \in Programs /\ prog'.pc = "epoch"
        /\ prog'.kind = prog.kind /\ prog'.k = prog.k /\ prog'.from = prog.from
        /\ prog'.new = prog.new /\ prog'.save = prog.save /\ prog'.emb = prog.emb
        /\ prog'.state = prog.state /\ prog'.epoch = prog.epoch
        /\ prog'.processed = prog.processed /\ prog'.count = prog.count
        /\ prog'.model = prog.model /\ prog'.optim = prog.optim
        /\ prog'.target = prog.target
    BY <1>1, <2>1 DEF Programs
  <2>4. TypeInv'
    BY <1>0, <1>1, <2>1, <2>3 DEF TypeInv, Exists
  <2>5. ProgInv'
    BY <1>0, <1>1, <1>2, <2>2, <2>3 DEF ProgInv, Beginner, IsModel, Running, Busy, Exists, Mine
  <2>6. LimitInv'
    <3>1. ToCome' = ToCome
      BY <1>1, <2>3 DEF ToCome, Running
    <3>2. \A n \in Nat : ProgWithin(n) => ProgWithin(n)'
      BY <2>3 DEF ProgWithin
    <3>3. ~Ahead
      BY <1>1 DEF Ahead
    <3>4. QED BY <1>0, <1>1, <3>1, <3>2, <3>3, LimitStays
  <2>7. SavingInv' /\ CopyInv'
    BY <2>3 DEF SavingInv, CopyInv
  <2>8. CountInv'
    <3> SUFFICES ASSUME ~torn PROVE CountInv'
      BY <1>1 DEF CountInv
    <3>1. \A e \in Settled' : e \in Settled
      BY <1>1, <2>2, <2>3, NamesDiffer DEF Settled, BeingCopied, CheckpointInv
    <3>2. \A e \in Settled' : Agrees(disk[e])'
      BY <1>0, <1>1, <3>1 DEF CountInv, Agrees
    <3>3. QED BY <1>0, <1>1, <2>3, <3>2 DEF CountInv, Busy
  <2>9. ResultInv' /\ CheckpointComplete' /\ ResultSaved'
    BY <1>0, <1>1, <2>1, <2>3
       DEF ResultInv, CheckpointComplete, BeingCopied, ResultSaved, Checkpoints, Running, Exists
  <2>10. RestartInv'
    BY <1>0, <1>1, <2>3 DEF RestartInv, Beginner, Restart, Running, Exists, Mine
  <2>11. QED
    BY <2>4, <2>5, <2>6, <2>7, <2>8, <2>9, <2>10 DEF TrainingInv
<1>5. QED BY <1>3, <1>4

-----------------------------------------------------------------------------
(* The directory a program gets. *)
Below == {x \in Nat \X Nat : x[1] < x[2]}

LEMMA LeastModel ==
    ASSUME NEW free, free \subseteq Models, free # {}
    PROVE  \E k \in free : \A j \in free : k <= j
<1>1. IsWellFoundedOn(Below, Nat)
  BY NatLessThanWellFounded, Zenon DEF OpToRel, Below
<1>2. free \subseteq Nat
  BY TrainingAssumption DEF Models
<1>3. \E k \in free : \A j \in free : <<j, k>> \notin Below
  BY <1>1, <1>2, WFMin
<1>4. PICK k \in free : \A j \in free : ~(j < k)
  BY <1>2, <1>3 DEF Below
<1>5. QED BY <1>2, <1>4

LEMMA DefaultIs == DefaultModel \in Models /\ (Roots # Models => DefaultModel \notin Roots)
<1> DEFINE free == {k \in Models : ~Exists(Root(k))}
<1>1. CASE free = {}
  BY <1>1, TrainingAssumption DEF DefaultModel, Models, Roots
<1>2. CASE free # {}
  <2>1. \E k \in free : \A j \in free : k <= j
    BY <1>2, LeastModel
  <2>2. DefaultModel \in free
    BY <1>2, <2>1 DEF DefaultModel
  <2>3. QED BY <2>2 DEF Roots
<1>3. QED BY <1>1, <1>2

LEMMA InferredIs == ASSUME NEW k \in Models PROVE Inferred(k) \in Models
BY TrainingAssumption DEF Inferred, Models

LEMMA HoldsIs ==
    ASSUME TypeInv
    PROVE  \A d : Holds(d) \in Files /\ (Exists(d) => Holds(d) = disk[d])
                    /\ (~Exists(d) => Holds(d) = EmptyDir)
BY NoRowsTable DEF Holds, Exists, TypeInv

LEMMA EmptyDirIs ==
    /\ Agrees(EmptyDir)
    /\ \A n \in Nat : /\ UpTo(EmptyDir.emb, n) /\ UpTo(EmptyDir.state, n)
                      /\ EmptyDir.model <= n /\ EmptyDir.optim <= n /\ EmptyDir.meta <= n
BY DEF EmptyDir, Agrees, UpTo, NoRows, None

FilesWithin(f, n) ==
    /\ UpTo(f.emb, n) /\ UpTo(f.state, n)
    /\ f.model <= n /\ f.optim <= n /\ f.meta <= n

(* The directories below another one. *)
IsBelow(d, from) ==
    \E j \in Models, n \in Nat : from = Root(j) /\ d \in {Checkpoint(j, n), Temporary(j, n)}

LEMMA TreeIs ==
    ASSUME NEW D, D \subseteq Names, NEW from \in Names
    PROVE  {d \in D : Len(d) > Len(from) /\ SubSeq(d, 1, Len(from)) = from}
              = {d \in D : IsBelow(d, from)}
<1>1. ASSUME NEW d \in D, IsBelow(d, from)
      PROVE  Len(d) > Len(from) /\ SubSeq(d, 1, Len(from)) = from
  <2>1. PICK j \in Models, n \in Nat :
           from = Root(j) /\ (d = Checkpoint(j, n) \/ d = Temporary(j, n))
    BY <1>1 DEF IsBelow
  <2>2. Len(from) = 1 /\ Len(d) = 3
    BY <2>1, NamesDiffer
  <2>3. SubSeq(d, 1, 1) = Root(j)
    BY <2>1, NamesBelow
  <2>4. QED BY <2>1, <2>2, <2>3
<1>2. ASSUME NEW d \in D, Len(d) > Len(from), SubSeq(d, 1, Len(from)) = from
      PROVE  IsBelow(d, from)
  <2>1. PICK i \in Models, n \in Nat : d \in {Root(i), Checkpoint(i, n), Temporary(i, n)}
    BY DEF Names
  <2>2. PICK j \in Models, m \in Nat : from \in {Root(j), Checkpoint(j, m), Temporary(j, m)}
    BY DEF Names
  <2>3. from = Root(j) /\ d # Root(i) /\ Len(from) = 1
    <3>1. (Len(d) = 1 \/ Len(d) = 3) /\ (Len(from) = 1 \/ Len(from) = 3)
      BY NameOfCheckpoint
    <3>2. Len(d) = 3 /\ Len(from) = 1
      <4>1. PICK x, y : x = Len(d) /\ y = Len(from)
        OBVIOUS
      <4>2. (x = 1 \/ x = 3) /\ (y = 1 \/ y = 3) /\ x > y
        BY <1>2, <3>1, <4>1
      <4>3. x = 3 /\ y = 1
        BY <4>2
      <4>4. QED BY <4>1, <4>3
    <3>3. QED BY <2>1, <2>2, <3>2, NamesDiffer
  <2>4. SubSeq(d, 1, 1) = Root(i)
    BY <2>1, <2>3, NamesBelow
  <2>5. i = j
    BY <1>2, <2>3, <2>4, RootsDiffer
  <2>6. QED BY <2>1, <2>3, <2>5 DEF IsBelow
<1>3. QED BY <1>1, <1>2

(* Where what is below a directory is copied to. *)
LEMMA CopyName ==
    ASSUME NEW from \in Names, IsModel(from), NEW p, p.from = from, p.k \in Models,
           NEW d, d = from \/ IsBelow(d, from)
    PROVE  /\ d = from => Copy(p, d) = Root(p.k)
           /\ d # from => \E j \in Models, n \in Nat :
                 /\ from = Root(j)
                 /\ \/ d = Checkpoint(j, n) /\ Copy(p, d) = Checkpoint(p.k, n)
                    \/ d = Temporary(j, n) /\ Copy(p, d) = Temporary(p.k, n)
<1>1. CASE d = from
  BY <1>1 DEF Copy
<1>2. CASE d # from
  <2>1. PICK j \in Models, n \in Nat :
           from = Root(j) /\ (d = Checkpoint(j, n) \/ d = Temporary(j, n))
    BY <1>2 DEF IsBelow
  <2>2. Copy(p, d) = Moved(d, Root(p.k))
    BY <1>2 DEF Copy, Moved
  <2>3. QED BY <1>2, <2>1, <2>2, MovedIs
<1>3. QED BY <1>1, <1>2

LEMMA CopyIs ==
    ASSUME NEW from \in Names, IsModel(from), NEW p, p.from = from, p.k \in Models,
           NEW d, d = from \/ IsBelow(d, from)
    PROVE  /\ Copy(p, d) \in Names
           /\ Copy(p, d) = from \/ IsBelow(Copy(p, d), from) => Copy(p, d) = d
           /\ IsModel(Copy(p, d)) => IsModel(d)
           /\ IsCheckpoint(Copy(p, d)) =>
                 IsCheckpoint(d) /\ d # from /\ Copy(p, d)[3] = d[3] /\ Copy(p, d)[1] = p.k
           /\ \A j \in Models : Copy(p, d) = Root(j) => j = p.k /\ d = from
           /\ IsCheckpoint(from) => d = from
<1>1. CASE d = from
  <2>1. Copy(p, d) = Root(p.k)
    BY <1>1, CopyName
  <2>2. Root(p.k) = from => Copy(p, d) = d
    BY <1>1, <2>1
  <2>3. ~IsBelow(Root(p.k), from)
    BY RootsApart DEF IsBelow
  <2>4. Root(p.k) \in Names /\ ~IsCheckpoint(Root(p.k)) /\ IsModel(d)
    <3>1. Root(p.k) \in Names
      BY DEF Names
    <3>2. QED BY <1>1, <3>1, NamesDiffer
  <2>5. QED BY <1>1, <2>1, <2>2, <2>3, <2>4, RootsDiffer
<1>2. CASE d # from
  <2>1. PICK j \in Models, n \in Nat :
           /\ from = Root(j)
           /\ \/ d = Checkpoint(j, n) /\ Copy(p, d) = Checkpoint(p.k, n)
              \/ d = Temporary(j, n) /\ Copy(p, d) = Temporary(p.k, n)
    BY <1>2, CopyName
  <2>2. Copy(p, d) \in Names
    BY <2>1 DEF Names
  <2>3. Copy(p, d) # from /\ ~IsCheckpoint(from)
    BY <2>1, NamesDiffer
  <2>4. IsBelow(Copy(p, d), from) => p.k = j
    <3> SUFFICES ASSUME IsBelow(Copy(p, d), from) PROVE p.k = j
      OBVIOUS
    <3>1. PICK i \in Models, m \in Nat :
             from = Root(i) /\ Copy(p, d) \in {Checkpoint(i, m), Temporary(i, m)}
      BY DEF IsBelow
    <3>2. i = j
      BY <2>1, <3>1, RootsDiffer
    <3>3. i = p.k
      <4>1. CASE Copy(p, d) = Checkpoint(p.k, n)
        <5>0. \A a, b, c, e : Checkpoint(a, b) # Temporary(c, e)
          BY NamesDiffer
        <5>1. Copy(p, d) # Temporary(i, m)
          BY <4>1, <5>0
        <5>2. Checkpoint(p.k, n) = Checkpoint(i, m)
          BY <3>1, <4>1, <5>1
        <5>3. QED BY <5>2, CheckpointsDiffer
      <4>2. CASE Copy(p, d) = Temporary(p.k, n)
        <5>1. Copy(p, d) # Checkpoint(i, m)
          BY <4>2, NamesDiffer
        <5>2. Temporary(p.k, n) = Temporary(i, m)
          BY <3>1, <4>2, <5>1
        <5>3. QED BY <5>2, TemporariesDiffer
      <4>3. QED BY <2>1, <4>1, <4>2
    <3>4. QED BY <3>2, <3>3
  <2>5. IsModel(Copy(p, d)) => IsModel(d)
    BY <2>1, NamesDiffer DEF IsModel
  <2>6. IsCheckpoint(Copy(p, d)) =>
           IsCheckpoint(d) /\ Copy(p, d)[3] = d[3] /\ Copy(p, d)[1] = p.k
    <3>1. \A i, m : Checkpoint(i, m)[1] = i
      BY DEF Checkpoint
    <3>2. CASE d = Checkpoint(j, n) /\ Copy(p, d) = Checkpoint(p.k, n)
      BY <3>1, <3>2, NamesDiffer
    <3>3. CASE Copy(p, d) = Temporary(p.k, n)
      BY <3>3, NamesDiffer
    <3>4. QED BY <2>1, <3>2, <3>3
  <2>7. \A i \in Models : Copy(p, d) # Root(i)
    BY <2>1, RootsApart
  <2>8. QED BY <1>2, <2>1, <2>2, <2>3, <2>4, <2>5, <2>6, <2>7
<1>3. QED BY <1>1, <1>2

LEMMA CopiesDiffer ==
    ASSUME NEW from \in Names, IsModel(from), NEW p, p.from = from, p.k \in Models,
           NEW d, d = from \/ IsBelow(d, from), NEW e, e = from \/ IsBelow(e, from),
           Copy(p, d) = Copy(p, e)
    PROVE  d = e
<1>1. CASE d = from
  BY <1>1, CopyName, RootsApart
<1>2. CASE e = from
  BY <1>2, CopyName, RootsApart
<1>3. CASE d # from /\ e # from
  <2>1. PICK j \in Models, n \in Nat :
           /\ from = Root(j)
           /\ \/ d = Checkpoint(j, n) /\ Copy(p, d) = Checkpoint(p.k, n)
              \/ d = Temporary(j, n) /\ Copy(p, d) = Temporary(p.k, n)
    BY <1>3, CopyName
  <2>2. PICK i \in Models, m \in Nat :
           /\ from = Root(i)
           /\ \/ e = Checkpoint(i, m) /\ Copy(p, e) = Checkpoint(p.k, m)
              \/ e = Temporary(i, m) /\ Copy(p, e) = Temporary(p.k, m)
    BY <1>3, CopyName
  <2>3. i = j
    BY <2>1, <2>2, RootsDiffer
  <2>4. QED
    BY <2>1, <2>2, <2>3, CheckpointsDiffer, TemporariesDiffer, NamesDiffer
<1>4. QED BY <1>1, <1>2, <1>3

LEMMA InTree ==
    ASSUME TypeInv, NEW from \in Names
    PROVE  \A d : d \in Tree(from) <=> d = from \/ (d \in DOMAIN disk /\ IsBelow(d, from))
<1>1. DOMAIN disk \subseteq Names
  BY DEF TypeInv
<1>2. Tree(from) = {from} \cup {d \in DOMAIN disk : IsBelow(d, from)}
  BY <1>1, TreeIs DEF Tree
<1>3. QED BY <1>2

LEMMA FileNamesAre ==
    /\ FileNames = {"emb", "state", "model", "optim", "meta"} /\ "dir" \notin FileNames
    /\ EmptyDir["emb"] = NoRows /\ EmptyDir["state"] = NoRows
    /\ EmptyDir["model"] = None /\ EmptyDir["optim"] = None /\ EmptyDir["meta"] = None
BY DEF FileNames, EmptyDir

(* One more file of b is that of a. *)
Replaced(a, b, f) == [b EXCEPT ![f] = a[f]]

LEMMA FileCopied ==
    ASSUME NEW a \in Files, NEW b \in Files, NEW f \in FileNames,
           NEW g, g = Replaced(a, b, f)
    PROVE  /\ g \in Files /\ \A h \in FileNames : g[h] = IF h = f THEN a[h] ELSE b[h]
           /\ a = b => g = b
           /\ \A n \in Nat : FilesWithin(a, n) /\ FilesWithin(b, n) => FilesWithin(g, n)
           /\ f \notin {"model", "optim", "meta"} /\ Agrees(b) => Agrees(g)
<1>1. g \in Files /\ \A h \in FileNames : g[h] = IF h = f THEN a[h] ELSE b[h]
  BY FileNamesAre DEF Files, Replaced
<1>2. a = b => g = b
  BY FileNamesAre DEF Files, Replaced
<1>3. \A n \in Nat : FilesWithin(a, n) /\ FilesWithin(b, n) => FilesWithin(g, n)
  <2>1. /\ g.emb \in {a.emb, b.emb} /\ g.state \in {a.state, b.state}
        /\ g.model \in {a.model, b.model} /\ g.optim \in {a.optim, b.optim}
        /\ g.meta \in {a.meta, b.meta}
    BY <1>1, FileNamesAre
  <2>2. QED BY <2>1 DEF FilesWithin
<1>4. f \notin {"model", "optim", "meta"} /\ Agrees(b) => Agrees(g)
  BY <1>1, FileNamesAre DEF Agrees
<1>5. QED BY <1>1, <1>2, <1>3, <1>4

(* What one step of a copy does. *)
OneCopied(d, f, to, g) ==
    /\ d \in Tree(prog.from) /\ to = Copy(prog, d) /\ f \in Slots
    /\ f \in FileNames => disk[d][f] # EmptyDir[f]
    /\ g \in Files
    /\ \A h \in FileNames : g[h] = IF h = f THEN disk[d][h] ELSE Holds(to)[h]
    /\ disk[d] = Holds(to) => g = disk[d]
    /\ \A n \in Nat : FilesWithin(disk[d], n) /\ FilesWithin(Holds(to), n) => FilesWithin(g, n)
    /\ f \notin {"model", "optim", "meta"} /\ Agrees(Holds(to)) => Agrees(g)
    /\ <<d, f>> \in prog.copying
    /\ disk' = With(to, g) /\ prog' = [prog EXCEPT !.copying = @ \ {<<d, f>>}]

LEMMA CopyFileIs ==
    ASSUME TypeInv, CopyInv, ProgInv, CopyFile
    PROVE  \E d, f, to, g : OneCopied(d, f, to, g)
<1>1. prog.pc = "copy" /\ prog \in Programs
  BY DEF CopyFile, TypeInv
<1>2. PICK c \in prog.copying :
        /\ disk' = With(Copy(prog, c[1]),
                        IF c[2] = "dir" THEN Holds(Copy(prog, c[1]))
                        ELSE [Holds(Copy(prog, c[1])) EXCEPT ![c[2]] = disk[c[1]][c[2]]])
        /\ prog' = [prog EXCEPT !.copying = @ \ {c}]
  BY DEF CopyFile, NextEntries
<1>3. c \in Entries(prog.from) /\ prog.from \in Names /\ Exists(prog.from)
  BY <1>1, <1>2 DEF CopyInv, ProgInv, Beginner, Programs
<1>4. PICK d \in Tree(prog.from), f \in Slots : c = <<d, f>>
  BY <1>3 DEF Entries, Slots
<1>5. d \in DOMAIN disk /\ disk[d] \in Files /\ Holds(d) = disk[d]
  BY <1>3, <1>4, InTree, HoldsIs DEF Exists, TypeInv
<1>6. f \in FileNames => disk[d][f] # EmptyDir[f]
  BY <1>3, <1>4, <1>5, FileNamesAre DEF Entries
<1> DEFINE to == Copy(prog, d)
           g  == IF f = "dir" THEN Holds(to) ELSE [Holds(to) EXCEPT ![f] = disk[d][f]]
<1>7. Holds(to) \in Files
  BY HoldsIs
<1>8. disk' = With(to, g) /\ prog' = [prog EXCEPT !.copying = @ \ {<<d, f>>}]
  BY <1>2, <1>4
<1> HIDE DEF to
<1>9. CASE f = "dir"
  <2>1. g = Holds(to) /\ f \notin FileNames
    BY <1>9, FileNamesAre
  <2> HIDE DEF g
  <2>2. /\ g \in Files /\ \A h \in FileNames : g[h] = IF h = f THEN disk[d][h] ELSE Holds(to)[h]
        /\ disk[d] = Holds(to) => g = disk[d]
        /\ \A n \in Nat : FilesWithin(disk[d], n) /\ FilesWithin(Holds(to), n) => FilesWithin(g, n)
        /\ f \notin {"model", "optim", "meta"} /\ Agrees(Holds(to)) => Agrees(g)
    BY <1>7, <2>1
  <2>3. QED BY <1>2, <1>4, <1>5, <1>6, <1>8, <2>2 DEF OneCopied, to
<1>10. CASE f # "dir"
  <2>1. f \in FileNames /\ g = [Holds(to) EXCEPT ![f] = disk[d][f]]
    BY <1>10 DEF Slots
  <2> HIDE DEF g
  <2>2. /\ g \in Files /\ \A h \in FileNames : g[h] = IF h = f THEN disk[d][h] ELSE Holds(to)[h]
        /\ disk[d] = Holds(to) => g = disk[d]
        /\ \A n \in Nat : FilesWithin(disk[d], n) /\ FilesWithin(Holds(to), n) => FilesWithin(g, n)
        /\ f \notin {"model", "optim", "meta"} /\ Agrees(Holds(to)) => Agrees(g)
    <3>1. PICK a \in Files, b \in Files : a = disk[d] /\ b = Holds(to)
      BY <1>5, <1>7
    <3>2. g = Replaced(a, b, f)
      BY <2>1, <3>1 DEF Replaced
    <3>3. /\ g \in Files /\ \A h \in FileNames : g[h] = IF h = f THEN a[h] ELSE b[h]
          /\ a = b => g = b
          /\ \A n \in Nat : FilesWithin(a, n) /\ FilesWithin(b, n) => FilesWithin(g, n)
          /\ f \notin {"model", "optim", "meta"} /\ Agrees(b) => Agrees(g)
      BY <2>1, <3>2, FileCopied
    <3>4. QED BY <3>1, <3>3, Zenon
  <2>3. QED BY <1>2, <1>4, <1>5, <1>6, <1>8, <2>2 DEF OneCopied, to
<1>11. QED BY <1>9, <1>10

LEMMA CopyFileStep == TrainingInv /\ CopyFile => TrainingInv'
<1> SUFFICES ASSUME TrainingInv, CopyFile PROVE TrainingInv'
  OBVIOUS
<1>0. TypeInv /\ ProgInv /\ LimitInv /\ SavingInv /\ CountInv /\ CopyInv /\ ResultInv /\ RestartInv
      /\ CheckpointComplete /\ ResultSaved
  BY DEF TrainingInv
<1>1. /\ prog.pc = "copy" /\ UNCHANGED <<settings, started, crashes, result, torn, partly>>
      /\ prog \in Programs
  BY <1>0 DEF CopyFile, TypeInv
<1>2. PICK d, f, to, g : OneCopied(d, f, to, g)
  BY <1>0, CopyFileIs
<1>3. /\ d \in Tree(prog.from) /\ to = Copy(prog, d) /\ f \in Slots /\ g \in Files
      /\ \A h \in FileNames : g[h] = IF h = f THEN disk[d][h] ELSE Holds(to)[h]
      /\ <<d, f>> \in prog.copying /\ disk' = With(to, g)
      /\ prog' = [prog EXCEPT !.copying = @ \ {<<d, f>>}]
  BY <1>2 DEF OneCopied
<1>4. /\ prog' \in Programs /\ prog'.pc = "copy"
      /\ prog'.kind = prog.kind /\ prog'.k = prog.k /\ prog'.from = prog.from
      /\ prog'.new = prog.new /\ prog'.save = prog.save /\ prog'.emb = prog.emb
      /\ prog'.state = prog.state /\ prog'.epoch = prog.epoch
      /\ prog'.processed = prog.processed /\ prog'.count = prog.count
      /\ prog'.model = prog.model /\ prog'.optim = prog.optim
      /\ prog'.target = prog.target /\ prog'.copying = prog.copying \ {<<d, f>>}
  BY <1>1, <1>3 DEF Programs
<1>5. /\ prog.kind = "from" /\ prog.from \in Names /\ prog.k \in Models /\ IsModel(prog.from)
      /\ prog.from \in DOMAIN disk /\ Root(prog.k) \in DOMAIN disk
      /\ result[prog.k] = NoResult /\ prog.epoch = 0
  BY <1>0, <1>1 DEF CopyInv, ProgInv, Beginner, ResultInv, Running, Programs, Exists
<1>6. \A e : e \in Tree(prog.from) <=> e = prog.from \/ (e \in DOMAIN disk /\ IsBelow(e, prog.from))
  BY <1>0, <1>5, InTree
<1>7. d = prog.from \/ IsBelow(d, prog.from)
  BY <1>3, <1>6
<1>8. /\ to \in Names /\ (to = prog.from \/ IsBelow(to, prog.from) => to = d)
      /\ IsCheckpoint(to) => d # prog.from
      /\ \A j \in Models : to = Root(j) => j = prog.k /\ d = prog.from
      /\ IsCheckpoint(prog.from) => to = Root(prog.k)
  BY <1>3, <1>5, <1>7, CopyIs, CopyName
<1>9. /\ DOMAIN disk' = DOMAIN disk \cup {to} /\ disk'[to] = g
      /\ \A e \in DOMAIN disk \ {to} : disk'[e] = disk[e]
      /\ disk' \in [DOMAIN disk' -> Files]
  BY <1>0, <1>3 DEF With, TypeInv
<1>10. TypeInv'
  <2>1. ASSUME NEW k \in Models, NEW n \in Nat,
               Checkpoint(k, n) \in DOMAIN disk' \/ Temporary(k, n) \in DOMAIN disk'
        PROVE  Root(k) \in DOMAIN disk'
    <3>1. CASE Checkpoint(k, n) \in DOMAIN disk \/ Temporary(k, n) \in DOMAIN disk
      BY <1>0, <1>9, <3>1 DEF TypeInv, Exists
    <3>2. CASE Checkpoint(k, n) = to \/ Temporary(k, n) = to
      <4>1. to # Root(prog.k)
        BY <3>2, RootsApart
      <4>2. PICK j \in Models, m \in Nat :
               Copy(prog, d) = Checkpoint(prog.k, m) \/ Copy(prog, d) = Temporary(prog.k, m)
        BY <1>3, <1>5, <1>7, <4>1, CopyName
      <4>3. k = prog.k
        BY <1>3, <3>2, <4>2, CheckpointsDiffer, TemporariesDiffer, NamesDiffer
      <4>4. QED BY <4>3, <1>5, <1>9
    <3>3. QED BY <2>1, <3>1, <3>2, <1>9
  <2>2. DOMAIN disk' \subseteq Names
    BY <1>0, <1>8, <1>9 DEF TypeInv
  <2>3. QED BY <1>0, <1>1, <1>4, <1>9, <2>1, <2>2 DEF TypeInv, Exists
<1>11. Tree(prog.from)' = Tree(prog.from)
  <2>1. \A e : e \in Tree(prog.from)' <=>
                  e = prog.from \/ (e \in DOMAIN disk' /\ IsBelow(e, prog.from))
    <3>1. Tree(prog.from)' =
            {prog.from} \cup {e \in DOMAIN disk' : Len(e) > Len(prog.from)
                                                     /\ SubSeq(e, 1, Len(prog.from)) = prog.from}
      BY <1>4 DEF Tree
    <3>2. DOMAIN disk' \subseteq Names
      BY <1>10 DEF TypeInv
    <3>3. PICK D \in SUBSET Names, from \in Names : D = DOMAIN disk' /\ from = prog.from
      BY <1>5, <3>2
    <3>4. {e \in D : Len(e) > Len(from) /\ SubSeq(e, 1, Len(from)) = from}
             = {e \in D : IsBelow(e, from)}
      BY TreeIs
    <3>5. Tree(prog.from)' = {from} \cup {e \in D : IsBelow(e, from)}
      BY <3>1, <3>3, <3>4
    <3>6. QED BY <3>3, <3>5
  <2>2. IsBelow(to, prog.from) => to \in DOMAIN disk
    BY <1>3, <1>6, <1>8, <1>5
  <2>3. QED BY <1>6, <1>9, <2>1, <2>2
(* The tree that is copied stays. *)
<1>12. ASSUME NEW e \in Tree(prog.from)
       PROVE  e \in DOMAIN disk /\ disk'[e] = disk[e]
  <2>1. e \in DOMAIN disk
    BY <1>5, <1>6
  <2>2. CASE e = to
    <3>1. to = d
      BY <1>6, <1>8, <2>2
    <3>2. disk[d] = Holds(to) => g = disk[d]
      BY <1>2 DEF OneCopied
    <3>3. Holds(to) = disk[to]
      BY <1>0, <2>1, <2>2, HoldsIs DEF Exists
    <3>4. QED BY <2>1, <2>2, <3>1, <3>2, <3>3, <1>9
  <2>3. QED BY <2>1, <2>2, <1>9
<1>13. \A e : Copy(prog, e)' = Copy(prog, e)
  BY <1>4 DEF Copy
<1>14. \A e : Holds(e)' = IF e = to THEN g ELSE Holds(e)
  BY <1>9 DEF Holds, Exists
<1>15. ProgInv'
  BY <1>0, <1>1, <1>4, <1>5, <1>9 DEF ProgInv, Beginner, IsModel, Running, Busy, Exists
<1>16. LimitInv'
  <2>1. PICK n \in Nat : DiskWithin(n) /\ ProgWithin(n) /\ NumEpochs * started = n + ToCome
    BY <1>0 DEF LimitInv
  <2>2. ToCome' = ToCome /\ started' = started /\ ~Ahead
    BY <1>1, <1>4 DEF ToCome, Running, Ahead
  <2>3. \A e \in DOMAIN disk : FilesWithin(disk[e], n)
    BY <2>1, <2>2 DEF DiskWithin, FilesWithin
  <2>4. FilesWithin(EmptyDir, n)
    BY EmptyDirIs DEF FilesWithin
  <2>5. FilesWithin(disk[d], n) /\ FilesWithin(Holds(to), n)
    BY <1>0, <1>3, <1>12, <2>3, <2>4, HoldsIs DEF Exists
  <2>6. FilesWithin(g, n)
    BY <1>2, <2>5 DEF OneCopied
  <2>7. \A e \in DOMAIN disk' : FilesWithin(disk'[e], n)
    BY <2>3, <2>6, <1>9
  <2>8. DiskWithin(n)'
    BY <2>7 DEF DiskWithin, FilesWithin
  <2>9. ProgWithin(n)'
    BY <2>1, <1>4 DEF ProgWithin
  <2>10. QED BY <2>1, <2>2, <2>8, <2>9 DEF LimitInv
<1>17. SavingInv'
  BY <1>4 DEF SavingInv
<1>18. BeingCopied' = BeingCopied /\ to \in BeingCopied
  BY <1>1, <1>3, <1>4, <1>11, <1>13 DEF BeingCopied
<1>19. CountInv'
  <2>1. \A e \in Settled' : e \in Settled /\ disk'[e] = disk[e]
    BY <1>1, <1>4, <1>9, <1>18 DEF Settled
  <2>2. QED BY <1>0, <1>1, <1>4, <2>1 DEF CountInv, Busy, Agrees
<1>20. CopyInv'
  <2>1. prog'.copying \subseteq Entries(prog.from)'
    <3>1. \A e \in Tree(prog.from) : Holds(e)' = Holds(e)
      BY <1>12, <1>9 DEF Holds, Exists
    <3>2. Entries(prog.from)' = Entries(prog.from)
      BY <1>4, <1>11, <3>1 DEF Entries
    <3>3. QED BY <1>0, <1>1, <1>4, <3>2 DEF CopyInv
  <2>2. ASSUME NEW e \in Tree(prog.from), NEW h \in FileNames,
               disk[e][h] # EmptyDir[h], <<e, h>> \notin prog.copying \ {<<d, f>>}
        PROVE  Holds(Copy(prog, e))'[h] = disk[e][h]
    <3>1. Holds(Copy(prog, e))' = IF Copy(prog, e) = to THEN g ELSE Holds(Copy(prog, e))
      BY <1>13, <1>14
    <3>2. CASE <<e, h>> = <<d, f>>
      BY <1>3, <3>1, <3>2
    <3>3. CASE <<e, h>> # <<d, f>>
      <4>1. Holds(Copy(prog, e))[h] = disk[e][h]
        BY <1>0, <1>1, <2>2, <3>3 DEF CopyInv
      <4>2. CASE Copy(prog, e) = to
        <5>1. e = d
          BY <1>3, <1>5, <1>6, <1>7, <4>2, CopiesDiffer
        <5>2. h # f
          BY <3>3, <5>1
        <5>3. QED BY <1>3, <3>1, <4>1, <4>2, <5>2
      <4>3. QED BY <3>1, <4>1, <4>2
    <3>4. QED BY <3>2, <3>3
  <2>3. ASSUME NEW e \in Tree(prog.from), IsCheckpoint(e), e \notin partly
        PROVE  Complete(disk[e], e[3])
    BY <1>0, <1>1, <2>3 DEF CopyInv
  <2>4. ASSUME ~torn, NEW e \in Tree(prog.from), IsModel(e)
        PROVE  /\ Agrees(disk[e])
               /\ disk[e].model = None => Agrees(Holds(Copy(prog, e)))'
    <3>1. Agrees(disk[e]) /\ (disk[e].model = None => Agrees(Holds(Copy(prog, e))))
      BY <1>0, <1>1, <2>4 DEF CopyInv
    <3>2. Holds(Copy(prog, e))' = IF Copy(prog, e) = to THEN g ELSE Holds(Copy(prog, e))
      BY <1>13, <1>14
    <3>3. CASE Copy(prog, e) = to /\ disk[e].model = None
      <4>1. e = d
        BY <1>3, <1>5, <1>6, <1>7, <3>3, CopiesDiffer
      <4>2. f \notin {"model", "optim", "meta"}
        BY <1>2, <3>1, <3>3, <4>1, FileNamesAre DEF OneCopied, Agrees
      <4>3. Agrees(g)
        BY <1>2, <1>3, <3>1, <3>3, <4>1, <4>2 DEF OneCopied
      <4>4. QED BY <3>1, <3>2, <3>3, <4>3 DEF Agrees
    <3>4. CASE Copy(prog, e) # to
      BY <3>1, <3>2, <3>4 DEF Agrees
    <3>5. QED BY <3>1, <3>3, <3>4
  <2>5. prog.from # <<>>
    BY <1>0, <1>1 DEF CopyInv
  <2>7. \A e \in Tree(prog.from) : Complete(disk[e], e[3])' <=> Complete(disk[e], e[3])
    BY <1>1, <1>12 DEF Complete
  <2>8. \A e \in Tree(prog.from) : Agrees(disk[e])' <=> Agrees(disk[e])
    BY <1>12 DEF Agrees
  <2>9. \A e \in Tree(prog.from) : disk'[e] = disk[e]
    BY <1>12
  <2>10. /\ prog'.kind = "from" /\ prog'.from = prog.from /\ torn' = torn /\ partly' = partly
         /\ prog'.copying = prog.copying \ {<<d, f>>}
    BY <1>1, <1>4, <1>5
  <2>11. (\A e \in Tree(prog.from), h \in FileNames :
            disk[e][h] # EmptyDir[h] /\ <<e, h>> \notin prog.copying =>
                Holds(Copy(prog, e))[h] = disk[e][h])'
    BY <1>11, <2>2, <2>9, <2>10
  <2>12. (\A e \in Tree(prog.from) : IsCheckpoint(e) /\ e \notin partly => Complete(disk[e], e[3]))'
    BY <1>11, <2>3, <2>7, <2>10
  <2>13. (~torn => \A e \in Tree(prog.from) : IsModel(e) =>
            Agrees(disk[e]) /\ (disk[e].model = None => Agrees(Holds(Copy(prog, e)))))'
    BY <1>11, <2>4, <2>8, <2>9, <2>10
  <2>14. QED
    BY <2>1, <2>5, <2>10, <2>11, <2>12, <2>13 DEF CopyInv
<1>21. ResultInv'
  BY <1>0, <1>1, <1>4, <1>5, <1>9 DEF ResultInv, Running, Exists
<1>22. RestartInv'
  <2> SUFFICES ASSUME Restart PROVE RestartInv'
    BY <1>1, <1>4 DEF RestartInv, Restart
  <2>1. DOMAIN disk' = DOMAIN disk
    BY <1>5, <1>8, <1>9 DEF Restart
  <2>2. QED
    BY <1>0, <1>1, <1>4, <2>1 DEF RestartInv, Restart, Running, Beginner, Exists
<1>23. CheckpointComplete'
  BY <1>0, <1>1, <1>9, <1>18 DEF CheckpointComplete, Checkpoints
<1>24. ResultSaved'
  <2>1. ASSUME NEW j \in Models, result[j] # NoResult
        PROVE  disk'[Root(j)] = disk[Root(j)]
    BY <2>1, <1>0, <1>5, <1>8, <1>9 DEF ResultInv, Exists
  <2>2. QED BY <1>0, <1>1, <2>1 DEF ResultSaved
<1>25. QED
  BY <1>10, <1>15, <1>16, <1>17, <1>19, <1>20, <1>21, <1>22, <1>23, <1>24 DEF TrainingInv

(* A copy that ended has copied all there is. *)
LEMMA CopiedStep == TrainingInv /\ Copied => TrainingInv'
<1> SUFFICES ASSUME TrainingInv, Copied PROVE TrainingInv'
  OBVIOUS
<1>0. TypeInv /\ ProgInv /\ LimitInv /\ SavingInv /\ CountInv /\ CopyInv /\ ResultInv /\ RestartInv
      /\ CheckpointComplete /\ ResultSaved
  BY DEF TrainingInv
<1>1. /\ prog.pc = "copy" /\ UNCHANGED <<settings, disk, started, crashes, result, torn>>
      /\ prog \in Programs /\ prog.copying = {}
      /\ prog' = [prog EXCEPT !.pc = "load", !.listing = <<>>]
      /\ partly' = (partly \ BeingCopied)
                      \cup {Copy(prog, d) : d \in Tree(prog.from) \cap partly}
  BY <1>0 DEF Copied, TypeInv
<1>2. /\ prog' \in Programs /\ prog'.pc = "load"
      /\ prog'.kind = prog.kind /\ prog'.k = prog.k /\ prog'.from = prog.from
      /\ prog'.new = prog.new /\ prog'.save = prog.save /\ prog'.emb = prog.emb
      /\ prog'.state = prog.state /\ prog'.epoch = prog.epoch
      /\ prog'.processed = prog.processed /\ prog'.count = prog.count
      /\ prog'.model = prog.model /\ prog'.optim = prog.optim
      /\ prog'.target = prog.target
  BY <1>1 DEF Programs
<1>3. /\ prog.kind = "from" /\ prog.from \in Names /\ prog.k \in Models /\ IsModel(prog.from)
      /\ prog.from \in DOMAIN disk /\ Root(prog.k) \in DOMAIN disk
  BY <1>0, <1>1 DEF CopyInv, ProgInv, Beginner, ResultInv, Running, Programs, Exists
<1>4. \A e \in Tree(prog.from) :
         e \in DOMAIN disk /\ (e = prog.from \/ IsBelow(e, prog.from)) /\ disk[e] \in Files
  BY <1>0, <1>3, InTree DEF TypeInv
<1>5. BeingCopied' = {} /\ BeingCopied = {Copy(prog, e) : e \in Tree(prog.from)}
  BY <1>1, <1>2 DEF BeingCopied
<1>6. ASSUME NEW d \in Tree(prog.from), Copy(prog, d) \in DOMAIN disk
      PROVE  \A h \in FileNames : disk[d][h] # EmptyDir[h] => disk[Copy(prog, d)][h] = disk[d][h]
  <2>1. Holds(Copy(prog, d)) = disk[Copy(prog, d)]
    BY <1>0, <1>6, HoldsIs DEF Exists
  <2>2. QED BY <1>0, <1>1, <1>6, <2>1 DEF CopyInv
<1>7. ASSUME NEW d \in Tree(prog.from), Copy(prog, d) \in DOMAIN disk, NEW n \in Nat,
             Complete(disk[d], n)
      PROVE  Complete(disk[Copy(prog, d)], n)
  BY <1>6, <1>7, FileNamesAre DEF Complete, None
<1>8. TypeInv'
  BY <1>0, <1>1, <1>2 DEF TypeInv, Exists
<1>9. ProgInv'
  BY <1>0, <1>1, <1>2, <1>3 DEF ProgInv, Beginner, IsModel, Running, Busy, Exists
<1>10. LimitInv'
  <2>1. ToCome' = ToCome /\ ~Ahead
    BY <1>1, <1>2 DEF ToCome, Running, Ahead
  <2>2. \A n \in Nat : ProgWithin(n) => ProgWithin(n)'
    BY <1>2 DEF ProgWithin
  <2>3. QED BY <1>0, <1>1, <2>1, <2>2, LimitStays
<1>11. SavingInv' /\ CopyInv'
  BY <1>2 DEF SavingInv, CopyInv
<1>12. CountInv'
  <2> SUFFICES ASSUME ~torn, NEW e \in Settled' PROVE Agrees(disk[e])
    BY <1>1, <1>2 DEF CountInv, Busy, Agrees
  <2>1. e \in DOMAIN disk /\ IsModel(e)
    BY <1>1 DEF Settled, IsModel
  <2>2. CASE e \notin BeingCopied
    BY <1>0, <1>1, <2>1, <2>2 DEF CountInv, Settled, IsModel
  <2>3. CASE e \in BeingCopied
    <3>1. PICK d \in Tree(prog.from) : e = Copy(prog, d)
      BY <1>5, <2>3
    <3>2. IsModel(d)
      BY <1>3, <1>4, <2>1, <3>1, CopyIs
    <3>3. Agrees(disk[d]) /\ (disk[d].model = None => Agrees(Holds(e)))
      BY <1>0, <1>1, <3>1, <3>2 DEF CopyInv
    <3>4. CASE disk[d].model = None
      BY <1>0, <2>1, <3>3, <3>4, HoldsIs DEF Exists
    <3>5. CASE disk[d].model # None
      <4>1. /\ disk[e].model = disk[d].model /\ disk[e].optim = disk[d].optim
            /\ disk[e].meta = disk[d].meta
        BY <1>6, <2>1, <3>1, <3>3, <3>5, FileNamesAre DEF Agrees
      <4>2. QED BY <3>3, <4>1 DEF Agrees
    <3>6. QED BY <3>4, <3>5
  <2>4. QED BY <2>2, <2>3
<1>13. ResultInv' /\ ResultSaved'
  BY <1>0, <1>1, <1>2 DEF ResultInv, ResultSaved, Running, Exists
<1>14. RestartInv'
  <2> SUFFICES ASSUME Restart' PROVE RestartInv'
    BY DEF RestartInv
  <2>1. IsCheckpoint(prog.from) /\ prog.from \notin partly'
    BY <1>2 DEF Restart
  <2>2. prog.from \notin BeingCopied
    <3>1. \A d \in Tree(prog.from) : Copy(prog, d) = Root(prog.k)
      BY <1>3, <1>4, <2>1, CopyIs, CopyName
    <3>2. prog.from # Root(prog.k)
      BY <2>1, NamesDiffer
    <3>3. QED BY <1>5, <3>1, <3>2
  <2>3. prog.from \notin partly /\ Restart
    BY <1>1, <1>2, <2>1, <2>2 DEF Restart
  <2>4. prog.from \in Tree(prog.from) /\ Copy(prog, prog.from) = Root(prog.k)
    BY <1>3, CopyName DEF Tree
  <2>5. Complete(disk[prog.from], prog.from[3]) /\ prog.from[3] \in Nat
    BY <1>0, <1>1, <1>3, <2>1, <2>3, <2>4, NameOfCheckpoint, NamesDiffer DEF CopyInv
  <2>6. Complete(Mine, prog.from[3])
    BY <1>3, <1>7, <2>4, <2>5 DEF Mine
  <2>7. Mine'.emb # NoRows /\ Mine'.state # NoRows
    BY <1>1, <1>2, <2>3, <2>6 DEF Mine, Complete, Restart
  <2>8. QED
    BY <1>0, <1>1, <1>2, <2>3, <2>7 DEF RestartInv, Running, Beginner, Exists
<1>15. CheckpointComplete'
  <2> SUFFICES ASSUME NEW e \in DOMAIN disk, IsCheckpoint(e), e \notin partly'
               PROVE  Complete(disk[e], e[3])
    BY <1>1, <1>5 DEF CheckpointComplete, Checkpoints, Complete
  <2>1. CASE e \notin BeingCopied
    BY <1>0, <1>1, <2>1 DEF CheckpointComplete, Checkpoints, Complete
  <2>2. CASE e \in BeingCopied
    <3>1. PICK d \in Tree(prog.from) : e = Copy(prog, d)
      BY <1>5, <2>2
    <3>2. IsCheckpoint(d) /\ e[3] = d[3]
      BY <1>3, <1>4, <3>1, CopyIs
    <3>3. d \notin partly
      BY <1>1, <3>1
    <3>4. Complete(disk[d], d[3]) /\ d[3] \in Nat
      BY <1>0, <1>1, <1>4, <3>1, <3>2, <3>3, NameOfCheckpoint, NamesDiffer DEF CopyInv, TypeInv
    <3>5. QED BY <1>7, <3>1, <3>2, <3>4
  <2>3. QED BY <2>1, <2>2
<1>16. QED
  BY <1>8, <1>9, <1>10, <1>11, <1>12, <1>13, <1>14, <1>15 DEF TrainingInv

(* A program that starts. *)
Begun(kind, k, from, new, save, order, entries) ==
    [Idle EXCEPT !.pc = IF kind = "from" THEN "copy" ELSE "load",
                 !.kind = kind, !.k = k, !.from = from, !.new = new, !.save = save,
                 !.listing = order, !.copying = entries]

IsBegun(p, kind, k, from, new, save, entries) ==
    /\ p \in Programs /\ p.pc = (IF kind = "from" THEN "copy" ELSE "load")
    /\ p.kind = kind /\ p.k = k /\ p.from = from /\ p.new = new /\ p.save = save
    /\ p.epoch = 0 /\ p.processed = 0 /\ p.count = None /\ p.model = None
    /\ p.optim = None /\ p.emb = NoRows /\ p.state = NoRows /\ p.copying = entries

LEMMA BegunIs ==
    ASSUME NEW kind \in {"fresh", "resume", "from", "eval"}, NEW k \in Models,
           NEW from \in Names \cup {<<>>}, NEW new \in BOOLEAN, NEW save \in BOOLEAN,
           NEW order \in Listings \cup {<<>>}, NEW entries, entries \subseteq Names \X Slots,
           NEW p, p = Begun(kind, k, from, new, save, order, entries)
    PROVE  IsBegun(p, kind, k, from, new, save, entries)
<1>1. Idle \in Programs /\ Idle.epoch = 0 /\ Idle.processed = 0 /\ Idle.count = None
      /\ Idle.model = None /\ Idle.optim = None /\ Idle.emb = NoRows /\ Idle.state = NoRows
  BY NoRowsTable, TrainingAssumption DEF Idle, Programs, Version, None, Models
<1>2. PICK pc \in {"copy", "load"} : pc = IF kind = "from" THEN "copy" ELSE "load"
  OBVIOUS
<1>3. p = [Idle EXCEPT !.pc = pc, !.kind = kind, !.k = k, !.from = from, !.new = new,
                       !.save = save, !.listing = order, !.copying = entries]
  BY <1>2 DEF Begun
<1>4. p \in Programs
  <2>1. p = [pc |-> pc, kind |-> kind, k |-> k, from |-> from, new |-> new, save |-> save,
             epoch |-> 0, processed |-> 0, count |-> None, model |-> None, optim |-> None,
             emb |-> NoRows, state |-> NoRows, todo |-> <<>>, target |-> <<>>,
             copying |-> entries, listing |-> order]
    BY <1>3, ZenonT(60) DEF Idle
  <2>2. /\ 0 \in 0..NumEpochs /\ 0 \in Nat /\ None \in Version /\ NoRows \in Table
        /\ entries \in SUBSET (Names \X Slots) /\ <<>> \in Seq(StepNames)
    BY NoRowsTable, TrainingAssumption DEF Version, None
  <2>3. QED BY <2>1, <2>2 DEF Programs
<1>5. /\ p.pc = pc /\ p.kind = kind /\ p.k = k /\ p.from = from /\ p.new = new /\ p.save = save
      /\ p.copying = entries
  BY <1>1, <1>3 DEF Programs
<1>6. /\ p.epoch = 0 /\ p.processed = 0 /\ p.count = None /\ p.model = None
      /\ p.optim = None /\ p.emb = NoRows /\ p.state = NoRows
  BY <1>1, <1>3 DEF Programs
<1>7. QED BY <1>2, <1>4, <1>5, <1>6 DEF IsBegun

LEMMA BeginStep ==
    ASSUME TrainingInv, prog.pc = "idle", started < MaxPrograms, started' = started + 1,
           UNCHANGED <<settings, crashes, torn, partly>>,
           NEW kind \in {"fresh", "resume", "from", "eval"}, NEW k \in Models,
           NEW from \in Names \cup {<<>>}, NEW new \in BOOLEAN, NEW save \in BOOLEAN,
           IsBegun(prog', kind, k, from, new, save, IF kind = "from" THEN Entries(from) ELSE {}),
           new => ~Exists(Root(k)), kind # "fresh" => save, kind = "resume" => from = <<>>,
           kind = "from" => from # <<>>,
           from # <<>> => from \in DOMAIN disk /\ IsModel(from),
           result' = IF kind = "eval" THEN result ELSE [result EXCEPT ![k] = NoResult],
           kind = "resume" => disk' = disk,
           kind # "resume" => disk' = With(Root(k), Holds(Root(k)))
    PROVE  TrainingInv'
<1>0. TypeInv /\ ProgInv /\ LimitInv /\ SavingInv /\ CountInv /\ CopyInv /\ ResultInv /\ RestartInv
      /\ CheckpointComplete /\ ResultSaved
  BY DEF TrainingInv
<1>1. /\ prog' \in Programs /\ prog'.pc = (IF kind = "from" THEN "copy" ELSE "load")
      /\ prog'.kind = kind /\ prog'.k = k /\ prog'.from = from
      /\ prog'.new = new /\ prog'.save = save
      /\ prog'.epoch = 0 /\ prog'.processed = 0 /\ prog'.count = None /\ prog'.model = None
      /\ prog'.optim = None /\ prog'.emb = NoRows /\ prog'.state = NoRows
      /\ kind = "from" => prog'.copying = Entries(from)
  BY DEF IsBegun
<1>2. Root(k) \in Names /\ BeingCopied = {} /\ settings' = settings /\ torn' = torn
      /\ partly' = partly
  BY DEF Names, BeingCopied
<1>3. /\ result' \in [Models -> Results]
      /\ \A j \in Models :
            result'[j] # NoResult => result'[j] = result[j] /\ (kind = "eval" \/ j # k)
      /\ kind # "eval" => result'[k] = NoResult
  <2>1. NoResult \in Results
    BY NoRowsTable DEF NoResult, Results, Version
  <2>2. QED BY <1>0, <2>1 DEF TypeInv
<1>4. /\ DOMAIN disk' = DOMAIN disk \/ DOMAIN disk' = DOMAIN disk \cup {Root(k)}
      /\ kind # "resume" => Root(k) \in DOMAIN disk'
      /\ disk' \in [DOMAIN disk' -> Files]
      /\ \A d \in DOMAIN disk : disk'[d] = disk[d]
      /\ \A d \in DOMAIN disk' : d \notin DOMAIN disk => d = Root(k) /\ disk'[d] = EmptyDir
  <2>1. CASE kind = "resume"
    BY <1>0, <2>1 DEF TypeInv
  <2>2. CASE kind # "resume"
    <3>1. Holds(Root(k)) \in Files /\ (Exists(Root(k)) => Holds(Root(k)) = disk[Root(k)])
          /\ (~Exists(Root(k)) => Holds(Root(k)) = EmptyDir)
      BY <1>0, HoldsIs
    <3>2. QED BY <1>0, <2>2, <3>1 DEF With, TypeInv, Exists
  <2>3. QED BY <2>1, <2>2
<1>5. DOMAIN disk' \subseteq Names
  BY <1>0, <1>2, <1>4 DEF TypeInv
<1>6. \A d : Holds(d)' = Holds(d)
  BY <1>4 DEF Holds, Exists
<1>7. TypeInv'
  <2>1. started' \in Nat /\ started' <= MaxPrograms
    BY <1>0, TrainingAssumption DEF TypeInv
  <2>2. ASSUME NEW j \in Models, NEW n \in Nat,
               Checkpoint(j, n) \in DOMAIN disk' \/ Temporary(j, n) \in DOMAIN disk'
        PROVE  Root(j) \in DOMAIN disk'
    BY <1>0, <1>4, <2>2, RootsApart DEF TypeInv, Exists
  <2>3. QED BY <1>0, <1>1, <1>3, <1>4, <1>5, <2>1, <2>2 DEF TypeInv, Exists
<1>8. ProgInv'
  BY <1>1, <1>4, TrainingAssumption DEF ProgInv, Beginner, IsModel, Running, Busy, Exists
<1>9. LimitInv'
  <2>1. PICK n \in Nat : DiskWithin(n) /\ ProgWithin(n) /\ NumEpochs * started = n + ToCome
    BY <1>0 DEF LimitInv
  <2>2. ToCome = 0 /\ ToCome' = NumEpochs /\ ~Ahead
    BY <1>1, TrainingAssumption DEF ToCome, Running, Ahead
  <2>3. NumEpochs * started' = n + ToCome'
    <3>1. NumEpochs * (started + 1) = NumEpochs * started + NumEpochs
      BY <1>0, TrainingAssumption DEF TypeInv
    <3>2. QED BY <2>1, <2>2, <3>1, TrainingAssumption
  <2>4. \A d \in DOMAIN disk : FilesWithin(disk[d], n)
    BY <2>1, <2>2 DEF DiskWithin, FilesWithin
  <2>5. \A d \in DOMAIN disk' : FilesWithin(disk'[d], n)
    BY <1>4, <2>4, EmptyDirIs DEF FilesWithin
  <2>8. DiskWithin(n)'
    BY <2>5 DEF DiskWithin, FilesWithin
  <2>9. ProgWithin(n)'
    BY <1>1 DEF ProgWithin, UpTo, NoRows, None
  <2>10. QED BY <2>1, <2>3, <2>8, <2>9 DEF LimitInv
<1>10. SavingInv'
  BY <1>1 DEF SavingInv
<1>11. \A d \in DOMAIN disk : IsModel(d) /\ ~torn => Agrees(disk[d])
  BY <1>0, <1>2 DEF CountInv, Settled, IsModel
<1>12. \A d \in DOMAIN disk : IsCheckpoint(d) /\ d \notin partly => Complete(disk[d], d[3])
  BY <1>0, <1>2 DEF CheckpointComplete, Checkpoints, Complete
<1>13. CountInv'
  <2> SUFFICES ASSUME ~torn, NEW d \in Settled' PROVE Agrees(disk'[d])
    BY <1>1, <1>2 DEF CountInv, Busy, Agrees
  <2>1. d \in DOMAIN disk' /\ IsModel(d)
    BY DEF Settled, IsModel
  <2>2. QED BY <1>4, <1>11, <2>1, EmptyDirIs
<1>14. CopyInv'
  <2> SUFFICES ASSUME kind = "from" PROVE CopyInv'
    BY <1>1 DEF CopyInv
  <2>1. from # <<>> /\ from \in DOMAIN disk /\ IsModel(from) /\ from \in Names
    BY <1>0 DEF TypeInv
  <2>2. \A e : e \in Tree(from) <=> e = from \/ (e \in DOMAIN disk /\ IsBelow(e, from))
    BY <1>0, <2>1, InTree
  <2>3. ~IsBelow(Root(k), from)
    BY RootsApart DEF IsBelow
  <2>4. Tree(from)' = {from} \cup {e \in DOMAIN disk' : Len(e) > Len(from)
                                                          /\ SubSeq(e, 1, Len(from)) = from}
    BY DEF Tree
  <2>5. Tree(from)' = {from} \cup {e \in DOMAIN disk' : IsBelow(e, from)}
    BY <1>5, <2>1, <2>4, TreeIs
  <2>6. Tree(from)' = Tree(from)
    BY <1>4, <2>2, <2>3, <2>5
  <2>7. Entries(from)' = Entries(from)
    BY <1>6, <2>6 DEF Entries
  <2>8. ASSUME NEW e \in Tree(from), NEW h \in FileNames, disk[e][h] # EmptyDir[h]
        PROVE  <<e, h>> \in Entries(from)
    BY <1>0, <2>1, <2>2, <2>8, HoldsIs DEF Entries, Exists
  <2>9. \A e \in Tree(from) : disk'[e] = disk[e] /\ e \in DOMAIN disk
    BY <1>4, <2>1, <2>2
  <2>10. ASSUME NEW e \in Tree(from), ~torn, IsModel(e)
         PROVE  Agrees(disk[e]) /\ Agrees(Holds(Copy(prog', e)))
    <3>1. e = from \/ IsBelow(e, from)
      BY <2>2
    <3>2. IsModel(Copy(prog', e))
      <4>1. e = from => Copy(prog', e) = Root(k)
        BY <1>1, <2>1, <3>1, CopyName
      <4>2. e # from => \E n \in Nat : Copy(prog', e) = Checkpoint(k, n)
        <5>1. e # from => \E j \in Models, n \in Nat :
                 \/ e = Checkpoint(j, n) /\ Copy(prog', e) = Checkpoint(prog'.k, n)
                 \/ e = Temporary(j, n) /\ Copy(prog', e) = Temporary(prog'.k, n)
          BY <1>1, <2>1, <3>1, CopyName
        <5>2. \A j, n : ~IsModel(Temporary(j, n))
          BY NamesDiffer DEF IsModel
        <5>3. QED BY <1>1, <2>10, <5>1, <5>2
      <4>3. QED BY <4>1, <4>2, NamesDiffer DEF IsModel
    <3>3. QED BY <1>0, <1>11, <2>9, <2>10, <3>2, HoldsIs, EmptyDirIs DEF Exists
  <2>11. \A e : Holds(Copy(prog, e))' = Holds(Copy(prog', e))
    BY <1>6
  <2>12. QED
    BY <1>1, <1>2, <1>12, <2>1, <2>6, <2>7, <2>8, <2>9, <2>10, <2>11 DEF CopyInv, Complete, Agrees
<1>15. ResultInv'
  BY <1>0, <1>1, <1>3, <1>4 DEF ResultInv, Running, Exists
<1>16. RestartInv'
  <2> SUFFICES ASSUME kind = "from", ~Exists(Root(k)) PROVE RestartInv'
    BY <1>1 DEF RestartInv, Restart
  <2>1. ASSUME NEW n \in Nat
        PROVE  Temporary(k, n) \notin DOMAIN disk' /\ Checkpoint(k, n) \notin DOMAIN disk'
    BY <1>0, <1>4, RootsApart DEF TypeInv, Exists
  <2>2. QED BY <1>1, <2>1 DEF RestartInv, Exists
<1>17. CheckpointComplete'
  BY <1>2, <1>4, <1>12, NamesDiffer DEF CheckpointComplete, Checkpoints, Complete
<1>18. ResultSaved'
  <2>1. ASSUME NEW j \in Models, result'[j] # NoResult
        PROVE  result'[j] = result[j] /\ disk'[Root(j)] = disk[Root(j)]
    BY <2>1, <1>0, <1>3, <1>4 DEF ResultInv, Exists
  <2>2. QED BY <1>0, <1>2, <2>1 DEF ResultSaved
<1>19. QED
  BY <1>7, <1>8, <1>9, <1>10, <1>13, <1>14, <1>15, <1>16, <1>17, <1>18 DEF TrainingInv

LEMMA LoadConfigStep ==
    ASSUME TrainingInv, NEW kind \in {"fresh", "resume", "from", "eval"},
           NEW from \in Names \cup {<<>>}, NEW save \in BOOLEAN,
           kind \in {"fresh", "resume"} => from = <<>>, kind # "fresh" => save,
           kind \in {"from", "eval"} => from \in DOMAIN disk /\ IsModel(from),
           LoadConfig(kind, Roots, from, save)
    PROVE  TrainingInv'
<1>0. TypeInv
  BY DEF TrainingInv
<1> DEFINE entries == IF kind = "from" THEN Entries(from) ELSE {}
<1>1. PICK asked \in {DefaultModel} \cup Roots,
           order \in IF kind = "from" THEN Listings ELSE {<<>>} :
        LET k == IF kind = "resume" THEN Inferred(asked) ELSE asked IN
        /\ disk' = IF kind = "resume" THEN disk ELSE With(Root(k), Holds(Root(k)))
        /\ prog' = [Idle EXCEPT !.pc = IF kind = "from" THEN "copy" ELSE "load",
                                !.kind = kind, !.k = k, !.from = from,
                                !.new = ~Exists(Root(k)), !.save = save,
                                !.listing = order, !.copying = entries]
        /\ result' = IF kind = "eval" THEN result ELSE [result EXCEPT ![k] = NoResult]
  BY DEF LoadConfig
<1>2. asked \in Models
  BY DefaultIs DEF Roots
<1>3. PICK k \in Models :
        /\ disk' = IF kind = "resume" THEN disk ELSE With(Root(k), Holds(Root(k)))
        /\ prog' = [Idle EXCEPT !.pc = IF kind = "from" THEN "copy" ELSE "load",
                                !.kind = kind, !.k = k, !.from = from,
                                !.new = ~Exists(Root(k)), !.save = save,
                                !.listing = order, !.copying = entries]
        /\ result' = IF kind = "eval" THEN result ELSE [result EXCEPT ![k] = NoResult]
  BY <1>1, <1>2, InferredIs
<1>4. PICK new \in BOOLEAN : (new = ~Exists(Root(k))) /\ (new => ~Exists(Root(k)))
  BY Zenon
<1>5. prog' = Begun(kind, k, from, new, save, order, entries)
  BY <1>3, <1>4, Zenon DEF Begun
<1>6. order \in Listings \cup {<<>>}
  OBVIOUS
<1>7. entries \subseteq Names \X Slots
  <2>1. CASE kind = "from"
    <3>1. Tree(from) \subseteq Names
      BY <1>0, <2>1 DEF Tree, TypeInv
    <3>2. Entries(from) \subseteq Tree(from) \X Slots
      BY DEF Entries, Slots
    <3>3. QED BY <2>1, <3>1, <3>2
  <2>2. QED BY <2>1
<1> HIDE DEF entries
<1>8. IsBegun(prog', kind, k, from, new, save, entries)
  <2>1. PICK p : p = Begun(kind, k, from, new, save, order, entries)
    OBVIOUS
  <2>2. IsBegun(p, kind, k, from, new, save, entries)
    BY <1>6, <1>7, <2>1, BegunIs
  <2>3. QED BY <1>5, <2>1, <2>2
<1>9. /\ prog.pc = "idle" /\ started < MaxPrograms /\ started' = started + 1
      /\ UNCHANGED <<settings, crashes, torn, partly>>
  BY DEF LoadConfig
<1>10. /\ from # <<>> => from \in DOMAIN disk /\ IsModel(from)
       /\ kind = "from" => from # <<>>
  <2>1. \A d \in Names : d # <<>>
    <3> SUFFICES ASSUME NEW d \in Names PROVE d # <<>>
      OBVIOUS
    <3>1. PICK j, n : d \in {Root(j), Checkpoint(j, n), Temporary(j, n)}
      BY DEF Names
    <3>2. QED BY <3>1, NamesDiffer
  <2>2. QED BY <1>0, <2>1 DEF TypeInv
<1>11. /\ kind = "resume" => disk' = disk
       /\ kind # "resume" => disk' = With(Root(k), Holds(Root(k)))
  BY <1>3
<1>12. QED BY <1>3, <1>4, <1>8, <1>9, <1>10, <1>11, BeginStep DEF entries

LEMMA StartStep == TrainingInv /\ Start => TrainingInv'
<1> SUFFICES ASSUME TrainingInv, Start PROVE TrainingInv'
  OBVIOUS
<1>1. DOMAIN disk \subseteq Names
  BY DEF TrainingInv, TypeInv
<1>2. ASSUME NEW s \in BOOLEAN, LoadConfig("fresh", Roots, <<>>, s) PROVE TrainingInv'
  BY <1>2, LoadConfigStep
<1>3. ASSUME LoadConfig("resume", Roots, <<>>, TRUE) PROVE TrainingInv'
  BY <1>3, LoadConfigStep, TRUE \in BOOLEAN
<1>4. ASSUME NEW d \in DOMAIN disk, Len(d) = 1 \/ IsCheckpoint(d),
             LoadConfig("from", Roots, d, TRUE) \/ LoadConfig("eval", Roots, d, TRUE)
      PROVE  TrainingInv'
  BY <1>1, <1>4, LoadConfigStep DEF IsModel
<1>5. QED BY <1>2, <1>3, <1>4 DEF Start

LEMMA InitTraining == Init => TrainingInv
<1> SUFFICES ASSUME Init PROVE TrainingInv
  OBVIOUS
<1>1. /\ prog \in Programs /\ prog.pc = "idle" /\ prog.kind = "none" /\ prog.save = FALSE
      /\ prog.processed = 0 /\ prog.epoch = 0 /\ prog.count = None /\ prog.model = None
      /\ prog.optim = None /\ prog.emb = NoRows /\ prog.state = NoRows
  BY NoRowsTable, TrainingAssumption DEF Init, Idle, Programs, Version, None, Models
<1>2. DOMAIN disk = {} /\ disk = [d \in {} |-> EmptyDir]
  BY DEF Init
<1>3. NoResult \in Results
  BY NoRowsTable DEF NoResult, Results, Version
<1>4. TypeInv
  <2>1. settings \in [backend : {"memory", "buffer"}, saveState : BOOLEAN] /\ torn \in BOOLEAN
    BY DEF Init
  <2>2. disk \in [DOMAIN disk -> Files] /\ DOMAIN disk \subseteq Names
    BY <1>2
  <2>3. started \in Nat /\ started <= MaxPrograms /\ crashes \in Nat
    BY TrainingAssumption DEF Init
  <2>4. result \in [Models -> Results]
    BY <1>3 DEF Init
  <2>5. QED BY <1>1, <1>2, <2>1, <2>2, <2>3, <2>4 DEF TypeInv
<1>5. ProgInv /\ SavingInv /\ CountInv /\ CopyInv /\ RestartInv
  BY <1>1, <1>2
     DEF ProgInv, Beginner, IsModel, SavingInv, CountInv, CopyInv, RestartInv, Running, Busy,
         Restart, Settled, BeingCopied
<1>6. LimitInv
  <2>1. ToCome = 0 /\ NumEpochs * started = 0 /\ ProgWithin(0) /\ DiskWithin(0)
    BY <1>1, <1>2, TrainingAssumption
       DEF Init, ToCome, Running, ProgWithin, DiskWithin, UpTo, NoRows, None
  <2>2. QED BY <2>1 DEF LimitInv
<1>7. ResultInv /\ CheckpointComplete /\ ResultSaved
  BY <1>1, <1>2 DEF Init, ResultInv, CheckpointComplete, BeingCopied, ResultSaved, Checkpoints, Running
<1>8. QED BY <1>4, <1>5, <1>6, <1>7 DEF TrainingInv

LEMMA NextTraining == TrainingInv /\ [Next]_vars => TrainingInv'
<1> SUFFICES ASSUME TrainingInv, [Next]_vars PROVE TrainingInv'
  OBVIOUS
<1>1. CASE UNCHANGED vars
  <2>1. /\ settings' = settings /\ disk' = disk /\ prog' = prog /\ started' = started
        /\ crashes' = crashes /\ result' = result /\ torn' = torn /\ partly' = partly
    BY <1>1 DEF vars
  <2>2. (TypeInv /\ ProgInv /\ LimitInv)'
    BY <2>1 DEF TrainingInv, TypeInv, ProgInv, Beginner, IsModel, LimitInv, Exists, Running, Busy,
                Mine, DiskWithin, ProgWithin, ToCome, Ahead
  <2>3. (SavingInv /\ CountInv)'
    BY <2>1 DEF TrainingInv, SavingInv, CountInv, CheckpointInv, FinalInv, Exists, Busy, Mine,
                Left, IsRestOf, Settled, BeingCopied, Beginning, Tree, Copy, Agrees
  <2>4. CopyInv'
    BY <2>1 DEF TrainingInv, CopyInv, Holds, Exists, Tree, Entries, Copy, Agrees, Complete
  <2>5. ResultInv'
    BY <2>1 DEF TrainingInv, ResultInv, Exists, Running
  <2>6. RestartInv'
    BY <2>1 DEF TrainingInv, RestartInv, Restart, Beginner, Exists, Running, Mine, Left
  <2>7. CheckpointComplete'
    <3>1. BeingCopied' = BeingCopied
      BY <2>1 DEF BeingCopied, Tree, Copy
    <3>2. QED BY <2>1, <3>1 DEF TrainingInv, CheckpointComplete, Checkpoints
  <2>8. ResultSaved'
    BY <2>1 DEF TrainingInv, ResultSaved
  <2>9. QED BY <2>2, <2>3, <2>4, <2>5, <2>6, <2>7, <2>8 DEF TrainingInv
<1>2. ASSUME NEW p \in Parts, WriteBack(p) PROVE TrainingInv'
  BY <1>2, WriteBackStep
<1>3. QED
  BY <1>1, <1>2, StartStep, CopyFileStep, CopiedStep, LoadNewStep, LoadSavedStep, TrainInMemoryStep, TrainBufferedStep,
     MakeDirStep, CopyRowsStep, WriteRowsStep, SaveFileStep, RenameDirStep, SavedStep,
     ExitStep, CrashStep
     DEF Next

THEOREM AlwaysTraining == Spec => []TrainingInv
<1>1. QED BY InitTraining, NextTraining, PTL DEF Spec

-----------------------------------------------------------------------------
LEMMA Monotone == \A a, b, c \in Nat : b <= c => a * b <= a * c
OBVIOUS

LEMMA TypeFollows == TrainingInv => TypeOK
<1> SUFFICES ASSUME TrainingInv PROVE TypeOK
  OBVIOUS
<1>0. TypeInv /\ ProgInv /\ LimitInv
  BY DEF TrainingInv
<1>1. PICK n \in Nat : DiskWithin(n) /\ ProgWithin(n) /\ NumEpochs * started = n + ToCome
  BY <1>0 DEF LimitInv
<1>2. ToCome \in Nat /\ (Ahead => ToCome >= 1)
  BY <1>0, ToComeIs
<1>3. NumEpochs * started <= NumEpochs * MaxPrograms
  BY <1>0, TrainingAssumption, Monotone DEF TypeInv
<1>4. PICK m \in Nat : m = NumEpochs * MaxPrograms
  BY TrainingAssumption
<1>5. n <= m /\ (Ahead => n + 1 <= m)
  BY <1>1, <1>2, <1>3, <1>4, TrainingAssumption, <1>0 DEF TypeInv
<1>6. \A v \in Version : v <= m => v \in Versions
  BY <1>4 DEF Version, Versions, None
<1>7. ASSUME NEW r \in Table, UpTo(r, n) \/ (Ahead /\ UpTo(r, n + 1))
      PROVE  r \in Rows
  <2>1. \A p \in Parts : r[p] \in Version /\ r[p] <= m
    BY <1>5, <1>7 DEF UpTo, Table, Version, None
  <2>2. QED BY <2>1, <1>6 DEF Table, Rows
<1>8. ASSUME NEW d \in DOMAIN disk
      PROVE  disk[d] \in Directory
  <2>1. disk[d] \in Files
    BY <1>0 DEF TypeInv
  <2>2. /\ UpTo(disk[d].emb, n) \/ (Ahead /\ UpTo(disk[d].emb, n + 1))
        /\ UpTo(disk[d].state, n)
        /\ disk[d].model <= n /\ disk[d].optim <= n /\ disk[d].meta <= n
    BY <1>1 DEF DiskWithin
  <2>3. disk[d].emb \in Rows /\ disk[d].state \in Rows
    BY <2>1, <2>2, <1>7 DEF Files
  <2>4. disk[d].model \in Versions /\ disk[d].optim \in Versions /\ disk[d].meta \in Versions
    BY <2>1, <2>2, <1>5, <1>6 DEF Files, Version, None
  <2>5. QED BY <2>1, <2>3, <2>4 DEF Directory, Files
<1>9. prog.emb \in Rows /\ prog.state \in Rows
  BY <1>0, <1>1, <1>7 DEF ProgWithin, TypeInv, Programs
<1>10. prog.count \in Versions /\ prog.model \in Versions
  BY <1>0, <1>1, <1>5, <1>6 DEF ProgWithin, TypeInv, Programs, Version, None
<1>11. QED
  BY <1>0, <1>8, <1>9, <1>10 DEF TypeOK, TypeInv, Programs

(* However trainings are started, resumed and interrupted, a directory that *)
(* has the name of a checkpoint has all its files and the count of its      *)
(* name, and a training that restarts from one in a new directory never     *)
(* fails; except for what is being copied, what a copy that was cut left,   *)
(* and copies of that (create_checkpoint, Checkpointer::load, copy_tree).   *)
THEOREM CheckpointsUsableHolds == Spec => []CheckpointsUsable
<1>1. TrainingInv => CheckpointsUsable
  BY TypeFollows
     DEF TrainingInv, CheckpointsUsable, CheckpointRestarts, RestartInv, Beginner, Restart
<1>2. QED BY <1>1, AlwaysTraining, PTL

(* The epochs a model directory, a checkpoint or a program claims are those *)
(* its model was trained for, unless a crash came between the files of a    *)
(* model directory (Checkpointer::save, Checkpointer::loadMetadata).        *)
THEOREM CountsMatchHolds == Spec => []CountsMatch
<1>1. TrainingInv => CountsMatch
  BY DEF TrainingInv, CountInv, CountsMatch, Agrees, Busy
<1>2. QED BY <1>1, AlwaysTraining, PTL

(* A training that came to its end has left in its directory what it had in *)
(* memory, and it stays until another one starts there (marius_train,       *)
(* Checkpointer::save).                                                     *)
THEOREM ResultSavedHolds == Spec => []ResultSaved
<1>1. TrainingInv => ResultSaved
  BY DEF TrainingInv
<1>2. QED BY <1>1, AlwaysTraining, PTL

-----------------------------------------------------------------------------
(* What a step may not do. *)
LEMMA ResultKept ==
    ASSUME TrainingInv, NEW k \in Models, result[k] # NoResult
    PROVE  k # DefaultModel \/ Roots = Models
BY DefaultIs DEF TrainingInv, ResultInv, Roots

LEMMA CheckpointKept ==
    ASSUME TrainingInv, [Next]_vars, NEW d \in Checkpoints, ~(prog.pc = "copy" /\ d[1] = prog.k)
    PROVE  d \in DOMAIN disk' /\ disk'[d] = disk[d]
<1>0. TypeInv /\ d \in DOMAIN disk /\ IsCheckpoint(d)
  BY DEF TrainingInv, Checkpoints
<1>1. \A k : d # Root(k)
  BY <1>0, NamesDiffer
<1>2. prog.pc = "save" => d # prog.target
  BY <1>0, TargetIs
<1>3. CASE disk' = disk
  BY <1>0, <1>3
<1>4. CASE LoadNew
  BY <1>0, <1>1, <1>4 DEF LoadNew, TypeInv
<1>5. ASSUME NEW p \in Parts, WriteBack(p) PROVE d \in DOMAIN disk' /\ disk'[d] = disk[d]
  BY <1>0, <1>1, <1>5 DEF WriteBack, TypeInv
<1>6. CASE MakeDir
  BY <1>0, <1>2, <1>6 DEF MakeDir, With, Step
<1>7. CASE CopyRows
  BY <1>0, <1>2, <1>7 DEF CopyRows, Step, TypeInv
<1>8. ASSUME NEW s \in {"emb", "state"}, NEW p \in Parts, WritePart(s, p)
      PROVE  d \in DOMAIN disk' /\ disk'[d] = disk[d]
  BY <1>0, <1>1, <1>8 DEF WritePart, TypeInv
<1>9. CASE SaveFile
  BY <1>0, <1>2, <1>9 DEF SaveFile, Step, TypeInv
<1>10. CASE RenameDir
  <2> DEFINE final == Checkpoint(prog.k, prog.target[3])
  <2>1. CASE Exists(final)
    BY <1>0, <1>10, <2>1 DEF RenameDir, MayRename
  <2>2. CASE ~Exists(final)
    <3>1. disk' = [e \in (DOMAIN disk \ {prog.target}) \cup {final} |->
                      disk[IF e = final THEN prog.target ELSE e]]
      BY <1>10, <2>2 DEF RenameDir, MayRename
    <3>2. d # final /\ d # prog.target
      BY <1>0, <1>2, <1>10, <2>2 DEF RenameDir, Step, Exists
    <3>3. QED BY <1>0, <3>1, <3>2
  <2>3. QED BY <2>1, <2>2
<1>11. CASE Start
  <2>1. PICK k : disk' = disk \/ disk' = With(Root(k), Holds(Root(k)))
    BY <1>11 DEF Start, LoadConfig
  <2>2. QED BY <1>0, <1>1, <2>1 DEF With
<1>12. CASE CopyFile
  <2>1. PICK e, f, to, g : OneCopied(e, f, to, g)
    BY <1>0, <1>12, CopyFileIs DEF TrainingInv
  <2>2. prog.pc = "copy" /\ e \in Tree(prog.from) /\ to = Copy(prog, e) /\ disk' = With(to, g)
    BY <1>12, <2>1 DEF CopyFile, OneCopied
  <2>3. prog.from \in Names /\ IsModel(prog.from) /\ prog.k \in Models
    BY <2>2, <1>0 DEF TrainingInv, CopyInv, ProgInv, Beginner, TypeInv, Programs
  <2>4. d # to
    BY <1>0, <2>2, <2>3, InTree, CopyIs
  <2>5. QED BY <1>0, <2>2, <2>4 DEF With
<1>13. [Next]_vars =>
          \/ disk' = disk \/ Start \/ CopyFile \/ LoadNew \/ (\E p \in Parts : WriteBack(p))
          \/ MakeDir \/ CopyRows
          \/ (\E s \in {"emb", "state"}, p \in Parts : WritePart(s, p))
          \/ SaveFile \/ RenameDir
  BY DEF Next, vars, Copied, LoadSaved, TrainInMemory, TrainBuffered, WriteRows,
         WriteEnds, Saved, Exit, Crash
<1>14. QED
  BY <1>3, <1>4, <1>5, <1>6, <1>7, <1>8, <1>9, <1>10, <1>11, <1>12, <1>13

(* No step takes the directory of a finished training, while a number is    *)
(* free, unless it resumes it or names it; and no step changes or removes a *)
(* checkpoint, save one that copies over the model directory it was given   *)
(* (get_model_dir_path, renameFile, copy_tree).                             *)
THEOREM NothingOverwrittenHolds == Spec => NothingOverwritten
<1>1. TrainingInv /\ [Next]_vars =>
         [\A k \in Models : result[k] # NoResult /\ result'[k] = NoResult =>
             k # DefaultModel \/ prog'.kind = "resume" \/ Roots = Models]_vars
  BY ResultKept
<1>2. TrainingInv /\ [Next]_vars =>
         [\A d \in Checkpoints :
             (prog.pc = "copy" /\ d[1] = prog.k) \/ (d \in DOMAIN disk' /\ disk'[d] = disk[d])]_vars
  BY CheckpointKept
<1>3. QED
  BY <1>1, <1>2, AlwaysTraining, PTL
     DEF Spec, NothingOverwritten, ResultsKept, CheckpointsKept
==============================================================================
