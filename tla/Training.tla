------------------------------- MODULE Training ------------------------------
(***************************************************************************)
(* The programs marius_train and marius_eval (src/marius.cpp), the model   *)
(* directories they choose (tools/configuration/marius_config.py) and what *)
(* they save there (src/storage/checkpointer.cpp, src/storage/io.cpp), one *)
(* program after another, with crashes at any step.                        *)
(*                                                                         *)
(* Contents of files are versions: the number of epochs that went into     *)
(* them.  The tables of embeddings and of optimiser states have a version  *)
(* for each part, because they are not written in one piece.               *)
(***************************************************************************)
EXTENDS Naturals, Integers, Sequences, FiniteSets

CONSTANTS
    Parts,              \* parts of a table of rows
    NumEpochs,          \* training.num_epochs
    Interval,           \* training.checkpoint.interval
    Listings,           \* orders in which a directory is listed: places of names
    LastModel,          \* bound of get_model_dir_path: 10 in the program
    MaxPrograms,        \* bound: programs started
    MaxCrashes          \* bound: crashes

ASSUME TrainingAssumption ==
    /\ NumEpochs \in Nat /\ NumEpochs > 0 /\ Interval \in Int
    /\ LastModel \in Nat /\ MaxPrograms \in Nat /\ MaxCrashes \in Nat

VARIABLES
    settings,           \* the backend of the embeddings, and save_state
    disk,               \* the files of each directory
    prog,               \* the program that runs
    started,            \* programs started
    crashes,            \* crashes so far
    result,             \* history: what a program that ended had saved
    torn,               \* history: a crash interrupted a save to a model directory,
                        \* or a copy to one
    partly              \* history: directories that an interrupted copy left, and
                        \* whole copies of them

vars == <<settings, disk, prog, started, crashes, result, torn, partly>>

Models  == 0..LastModel
None    == -1
NoRows  == [p \in Parts |-> None]
NewRows == [p \in Parts |-> 0]

(* Directories: model_k, and in it checkpoint_n and checkpoint_n_tmp.      *)
Root(k)          == <<k>>
Checkpoint(k, n) == <<k, "checkpoint", n>>
Temporary(k, n)  == <<k, "tmp", n>>
IsCheckpoint(d)  == Len(d) = 3 /\ d[2] = "checkpoint"

Exists(d) == d \in DOMAIN disk
EmptyDir  == [emb |-> NoRows, state |-> NoRows, model |-> None, optim |-> None, meta |-> None]
Holds(d)  == IF Exists(d) THEN disk[d] ELSE EmptyDir
With(d, files) == [e \in DOMAIN disk \cup {d} |-> IF e = d THEN files ELSE disk[e]]

Idle ==
    [pc |-> "idle", kind |-> "none", k |-> 0, from |-> <<>>, new |-> FALSE, save |-> FALSE,
     epoch |-> 0, processed |-> 0, count |-> None, model |-> None, optim |-> None,
     emb |-> NoRows, state |-> NoRows, todo |-> <<>>, target |-> <<>>,
     copying |-> {}, listing |-> <<>>]

NoResult == [count |-> None, model |-> None, optim |-> None, emb |-> NoRows, state |-> NoRows]

Init ==
    /\ settings \in [backend : {"memory", "buffer"}, saveState : BOOLEAN]
    /\ disk = <<>> /\ prog = Idle /\ started = 0 /\ crashes = 0
    /\ result = [k \in Models |-> NoResult] /\ torn = FALSE /\ partly = {}

Fail == prog' = [prog EXCEPT !.pc = "failed"]

-----------------------------------------------------------------------------
(* load_config.                                                            *)

(* mutation of DefaultModel: counts the directories *)
CountModel ==
    LET n == Cardinality({k \in Models : Exists(Root(k))})
    IN  IF n = 0 THEN 0 ELSE n - 1

(* get_model_dir_path: the least number not in use, else the last one.     *)
DefaultModel ==
    LET free == {k \in Models : ~Exists(Root(k))}
    IN  IF free = {} THEN LastModel ELSE CHOOSE k \in free : \A j \in free : k <= j

(* infer_model_dir: a directory without a model stands for the one before. *)
Inferred(k) == IF Holds(Root(k)).model # None \/ k = 0 THEN k ELSE k - 1

(* What copy_tree copies: directory src and those below it, each with its  *)
(* files, into the one of the program.                                     *)
Tree(src)  == {src} \cup {d \in DOMAIN disk : Len(d) > Len(src) /\ SubSeq(d, 1, Len(src)) = src}
FileNames  == DOMAIN EmptyDir
Entries(src) ==
    (Tree(src) \X {"dir"}) \cup {c \in Tree(src) \X FileNames : Holds(c[1])[c[2]] # EmptyDir[c[2]]}

Copy(p, d) == IF d = p.from THEN Root(p.k) ELSE Root(p.k) \o Tail(d)

(* A program starts: from nothing, from the model in its directory, from   *)
(* the one in another directory; or to evaluate one.  model_dir may be     *)
(* set to an existing directory.                                           *)
LoadConfig(kind, named, from, save) ==
    /\ prog.pc = "idle" /\ started < MaxPrograms
    /\ \E asked \in {DefaultModel} \cup named :
     \E order \in IF kind = "from" THEN Listings ELSE {<<>>} :
        LET k == IF kind = "resume" THEN Inferred(asked) ELSE asked IN
        /\ disk' = IF kind = "resume" THEN disk ELSE With(Root(k), Holds(Root(k)))
        /\ prog' = [Idle EXCEPT !.pc = IF kind = "from" THEN "copy" ELSE "load",
                                !.kind = kind, !.k = k, !.from = from,
                                !.new = ~Exists(Root(k)), !.save = save,
                                !.listing = order,
                                !.copying = IF kind = "from" THEN Entries(from) ELSE {}]
        /\ result' = IF kind = "eval" THEN result ELSE [result EXCEPT ![k] = NoResult]
    /\ started' = started + 1
    /\ UNCHANGED <<settings, crashes, torn, partly>>

Roots == {k \in Models : Exists(Root(k))}
Start ==
    \/ \E s \in BOOLEAN : LoadConfig("fresh", Roots, <<>>, s)
    \/ LoadConfig("resume", Roots, <<>>, TRUE)
    \/ \E d \in {e \in DOMAIN disk : Len(e) = 1 \/ IsCheckpoint(e)} :
            \/ LoadConfig("from", Roots, d, TRUE)
            \/ LoadConfig("eval", Roots, d, TRUE)

(* What copy_tree may do next: it goes through a directory as it is        *)
(* listed, and into a subdirectory as soon as it has made it.              *)
NextEntries ==
    LET inside == {c \in prog.copying : c[1] # prog.from /\ <<c[1], "dir">> \notin prog.copying}
        open   == IF inside # {} THEN inside
                  ELSE {c \in prog.copying : c[1] = prog.from \/ c[2] = "dir"}
    IN  {c \in open : \A e \in open : prog.listing[c[2]] <= prog.listing[e[2]]}

(* It makes a directory or copies a file, and keeps what only the target   *)
(* has.                                                                    *)
CopyFile ==
    /\ prog.pc = "copy"
    /\ \E c \in NextEntries :
        LET d  == c[1]
            f  == c[2]
            to == Copy(prog, d)
        IN
        /\ disk' = With(to, IF f = "dir" THEN Holds(to) ELSE [Holds(to) EXCEPT ![f] = disk[d][f]])
        /\ prog' = [prog EXCEPT !.copying = @ \ {c}]
    /\ UNCHANGED <<settings, started, crashes, result, torn, partly>>

BeingCopied == IF prog.pc = "copy" THEN {Copy(prog, d) : d \in Tree(prog.from)} ELSE {}

Copied ==
    /\ prog.pc = "copy" /\ prog.copying = {}
    /\ prog' = [prog EXCEPT !.pc = "load", !.listing = <<>>]
    /\ partly' = (partly \ BeingCopied) \cup {Copy(prog, d) : d \in Tree(prog.from) \cap partly}
    /\ UNCHANGED <<settings, disk, started, crashes, result, torn>>

-----------------------------------------------------------------------------
(* marius_init.                                                            *)

(* initModelFromConfig, and initializeNodeEmbeddings that writes both      *)
(* tables anew.                                                            *)
LoadNew ==
    /\ prog.pc = "load" /\ prog.kind = "fresh"
    /\ prog' = [prog EXCEPT !.pc = "epoch", !.model = 0, !.optim = 0]
    /\ disk' = [disk EXCEPT ![Root(prog.k)].emb = NewRows, ![Root(prog.k)].state = NewRows]
    /\ UNCHANGED <<settings, started, crashes, result, torn, partly>>

(* mutation of EpochsOf: the number is not taken over *)
NoEpochs(saved) == 0

EpochsOf(saved) == saved.meta

(* Model::load: the optimisers only if the model is to be trained.         *)
HasModel(saved, train) == saved.model # None /\ (train => saved.optim # None)

WithModel(p, saved, train) ==
    [p EXCEPT !.model = saved.model, !.optim = IF train THEN saved.optim ELSE None]

(* Checkpointer::load: the count, then the model; the tables always come   *)
(* from model_dir.                                                         *)
Load(p, saved, train) ==
    IF saved.meta = None \/ ~HasModel(saved, train) THEN [p EXCEPT !.pc = "failed"]
    ELSE [WithModel(p, saved, train) EXCEPT !.processed = EpochsOf(saved),
                                            !.pc = IF train THEN "epoch" ELSE "done"]

(* The directory is the one that was asked for, if any.                    *)
LoadSaved ==
    /\ prog.pc = "load" /\ prog.kind # "fresh"
    /\ prog' = Load(prog, Holds(IF prog.from # <<>> THEN prog.from ELSE Root(prog.k)),
                    prog.kind # "eval")
    /\ UNCHANGED <<settings, disk, started, crashes, result, torn, partly>>

-----------------------------------------------------------------------------
(* Saving, as the sequence of its steps.                                   *)
(* mutation of SaveSteps: the optimisers are left out *)
ModelOnly == <<"emb", "model", "state", "meta">>

SaveSteps == <<"emb", "model", "optim", "state", "meta">>

(* mutation of CheckpointSteps: renamed before it is complete *)
RenamedEarly == <<"mkdir", "copy", "emb", "model", "rename", "optim", "state", "meta">>

CheckpointSteps == <<"mkdir", "copy">> \o SaveSteps \o <<"rename">>

(* mutation of CountOf: of the epoch before *)
CountBefore(p) == p.processed - 1

CountOf(p) == p.processed

(* mutation of AtEnd: one epoch more *)
PastEnd(p) == p.epoch > NumEpochs

AtEnd(p) == p.epoch = NumEpochs

(* train_batch steps the optimisers, and with them the model.              *)
Trained(p) == [p EXCEPT !.model = @ + 1, !.optim = @ + 1]

(* An epoch has been run, and is counted. *)
Counted(p) ==
    LET q == [Trained(p) EXCEPT !.epoch = @ + 1, !.processed = @ + 1]
    IN  [q EXCEPT !.count = CountOf(q)]

CheckpointDue(p) == Interval > 0 /\ p.epoch % Interval = 0 /\ p.epoch < NumEpochs

(* The end of an epoch in marius_train.                                    *)
AfterEpoch(p) ==
    LET c    == Counted(p)
        due  == CheckpointDue(c)
        last == AtEnd(c)
    IN  CASE due /\ ~c.save -> [c EXCEPT !.pc = "failed"]   \* there is no model_saver
          [] due /\ c.save ->
                [c EXCEPT !.pc = "save", !.todo = CheckpointSteps,
                          !.target = Temporary(c.k, c.processed)]
          [] last /\ c.save ->
                [c EXCEPT !.pc = "save", !.todo = SaveSteps, !.target = Root(c.k)]
          [] last /\ ~c.save -> [c EXCEPT !.pc = "done"]
          [] OTHER -> c

Bump(rows) == [p \in Parts |-> rows[p] + 1]

(* An epoch on tables in memory.  They were read when the first epoch      *)
(* began; a table without a file stays undefined and the first batch       *)
(* throws.                                                                 *)
TrainInMemory ==
    /\ prog.pc = "epoch" /\ settings.backend = "memory"
    /\ LET file  == disk[Root(prog.k)]
           first == prog.emb = NoRows
           emb   == IF first THEN file.emb ELSE prog.emb
           state == IF first THEN file.state ELSE prog.state
       IN  IF emb = NoRows \/ state = NoRows THEN Fail
           ELSE prog' = AfterEpoch([prog EXCEPT !.emb = Bump(emb), !.state = Bump(state)])
    /\ UNCHANGED <<settings, disk, started, crashes, result, torn, partly>>

(* In an epoch on a partition buffer a part is written when a swap evicts  *)
(* it.                                                                     *)
WriteBack(p) ==
    /\ prog.pc = "epoch" /\ settings.backend = "buffer"
    /\ disk[Root(prog.k)].emb # NoRows /\ disk[Root(prog.k)].state # NoRows
    /\ disk' = [disk EXCEPT ![Root(prog.k)].emb[p] = prog.model + 1]
    /\ UNCHANGED <<settings, prog, started, crashes, result, torn, partly>>

(* The partitions of the last buffer state are dropped when it ends.       *)
TrainBuffered ==
    /\ prog.pc = "epoch" /\ settings.backend = "buffer"
    /\ IF disk[Root(prog.k)].emb = NoRows \/ disk[Root(prog.k)].state = NoRows THEN Fail
       ELSE prog' = AfterEpoch(prog)
    /\ UNCHANGED <<settings, disk, started, crashes, result, torn, partly>>

Next1 == [prog EXCEPT !.todo = Tail(@)]
Step(s) == prog.pc = "save" /\ prog.todo # <<>> /\ Head(prog.todo) = s

(* createDir(tmp_checkpoint_dir, false).                                   *)
MakeDir ==
    /\ Step("mkdir")
    /\ IF Exists(prog.target) THEN Fail /\ UNCHANGED disk
       ELSE prog' = Next1 /\ disk' = With(prog.target, EmptyDir)
    /\ UNCHANGED <<settings, started, crashes, result, torn, partly>>

(* The files in model_dir, which save() has yet to write.                  *)
CopyRows ==
    /\ Step("copy") /\ prog' = Next1
    /\ LET root == disk[Root(prog.k)] IN
       disk' = IF root.emb = NoRows THEN disk
               ELSE [disk EXCEPT ![prog.target].emb = root.emb,
                                 ![prog.target].state = IF settings.saveState THEN root.state ELSE @]
    /\ UNCHANGED <<settings, started, crashes, result, torn, partly>>

(* mutation of Written: only a table in a buffer *)
WrittenBuffered == settings.backend = "buffer"

(* write() of a table: nothing if it is not loaded, as a buffer is between *)
(* epochs.                                                                 *)
Written == settings.backend = "memory"

WritePart(s, p) ==
    /\ Step(s) /\ Written /\ disk[Root(prog.k)][s][p] # prog[s][p]
    /\ disk' = [disk EXCEPT ![Root(prog.k)][s][p] = prog[s][p]]
    /\ UNCHANGED <<settings, prog, started, crashes, result, torn, partly>>

WriteEnds(s) ==
    /\ Step(s) /\ (Written => disk[Root(prog.k)][s] = prog[s])
    /\ prog' = Next1
    /\ UNCHANGED <<settings, disk, started, crashes, result, torn, partly>>

WriteRows == \E s \in {"emb", "state"} : WriteEnds(s) \/ \E p \in Parts : WritePart(s, p)

(* model->save writes two files, saveMetadata a third.                     *)
SaveFile ==
    /\ \/ Step("model") /\ disk' = [disk EXCEPT ![prog.target].model = prog.model]
       \/ Step("optim") /\ disk' = [disk EXCEPT ![prog.target].optim = prog.optim]
       \/ Step("meta")  /\ disk' = [disk EXCEPT ![prog.target].meta = prog.count]
    /\ prog' = Next1
    /\ UNCHANGED <<settings, started, crashes, result, torn, partly>>

(* mutation of MayRename: replaces a checkpoint *)
MayReplace(d) == TRUE

(* rename() does not replace a directory that has files.                   *)
MayRename(d) == ~Exists(d)

RenameDir ==
    /\ Step("rename")
    /\ LET final == Checkpoint(prog.k, prog.target[3]) IN
       IF ~MayRename(final) THEN Fail /\ UNCHANGED disk
       ELSE /\ prog' = Next1
            /\ disk' = [d \in (DOMAIN disk \ {prog.target}) \cup {final} |->
                            disk[IF d = final THEN prog.target ELSE d]]
    /\ UNCHANGED <<settings, started, crashes, result, torn, partly>>

(* Back to the loop after a checkpoint, or to the end of marius_train.     *)
Saved ==
    /\ prog.pc = "save" /\ prog.todo = <<>>
    /\ IF prog.target = Root(prog.k)
       THEN /\ prog' = [prog EXCEPT !.pc = "done"]
            /\ result' = [result EXCEPT ![prog.k] =
                  [count |-> prog.count, model |-> prog.model, optim |-> prog.optim,
                   emb |-> prog.emb, state |-> prog.state]]
       ELSE prog' = [prog EXCEPT !.pc = "epoch"] /\ UNCHANGED result
    /\ UNCHANGED <<settings, disk, started, crashes, torn, partly>>

Exit ==
    /\ prog.pc \in {"done", "failed"} /\ prog' = Idle
    /\ UNCHANGED <<settings, disk, started, crashes, result, torn, partly>>

Saving == prog.pc = "save" /\ prog.target = Root(prog.k)

(* The machine or the program stops; what was written stays.               *)
Crash ==
    /\ prog.pc \notin {"idle", "done", "failed"} /\ prog' = Idle
    /\ torn' = (torn \/ (Saving /\ prog.todo # SaveSteps) \/ prog.pc = "copy")
    /\ partly' = partly \cup {d \in BeingCopied : Exists(d)}
    /\ crashes < MaxCrashes /\ crashes' = crashes + 1
    /\ UNCHANGED <<settings, disk, started, result>>

Next ==
    \/ Start \/ CopyFile \/ Copied \/ LoadNew \/ LoadSaved \/ TrainInMemory \/ TrainBuffered
    \/ \E p \in Parts : WriteBack(p)
    \/ MakeDir \/ CopyRows \/ WriteRows \/ SaveFile \/ RenameDir \/ Saved \/ Exit \/ Crash

Spec == Init /\ [][Next]_vars
==============================================================================
