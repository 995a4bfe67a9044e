---------------------------- MODULE TrainingProps ----------------------------
(* Properties of the training programs and of what they leave behind. *)
EXTENDS Training

Versions == -1..(NumEpochs * MaxPrograms)
Rows     == [Parts -> Versions]
Directory == [emb : Rows, state : Rows, model : Versions, optim : Versions, meta : Versions]

TypeOK ==
    /\ \A d \in DOMAIN disk : disk[d] \in Directory
    /\ prog.pc \in {"idle", "copy", "load", "epoch", "save", "done", "failed"}
    /\ prog.k \in Models /\ prog.epoch \in 0..NumEpochs
    /\ prog.emb \in Rows /\ prog.state \in Rows
    /\ prog.count \in Versions /\ prog.model \in Versions

Checkpoints == {d \in DOMAIN disk : IsCheckpoint(d)}

(* Wherever a program was stopped before, a directory that has the name of *)
(* a checkpoint is one: all its files are there, and its count is in its   *)
(* name (create_checkpoint, Checkpointer::load).  The exception is what an *)
(* interrupted copy_tree left, and copies of that.                         *)
CheckpointComplete ==
    \A d \in Checkpoints \ (BeingCopied \cup partly) :
        /\ disk[d].meta = d[3] /\ disk[d].model # None /\ disk[d].optim # None
        /\ disk[d].emb # NoRows /\ (settings.saveState => disk[d].state # NoRows)

Settled == {d \in DOMAIN disk : Len(d) = 1 \/ IsCheckpoint(d)}
               \ (BeingCopied \cup IF prog.pc = "save" THEN {prog.target} ELSE {})

(* The number of epochs a directory, or a program, claims is the number    *)
(* its model was trained for, over any sequence of resumed and interrupted *)
(* programs, unless a crash came between the files of a model directory    *)
(* (Checkpointer::save, copy_tree).                                        *)
CountsMatch ==
    ~torn =>
        /\ \A d \in Settled : disk[d].meta \in {None, disk[d].model} /\ disk[d].model = disk[d].optim
        /\ prog.pc \in {"epoch", "save"} => prog.processed = prog.model

(* A program that ended has left in its directory all that it had in       *)
(* memory, until another is started on that directory.                     *)
ResultSaved ==
    \A k \in Models : result[k] # NoResult =>
        LET d == disk[Root(k)] IN
        /\ d.model = result[k].model /\ d.optim = result[k].optim /\ d.meta = result[k].count
        /\ settings.backend = "memory" => d.emb = result[k].emb /\ d.state = result[k].state

(* A result is given up only to a program that resumes it or names its     *)
(* directory, as long as a number is free (get_model_dir_path).            *)
ResultsKept ==
    [][\A k \in Models : result[k] # NoResult /\ result'[k] = NoResult =>
            k # DefaultModel \/ prog'.kind = "resume" \/ Roots = Models]_vars

(* No step of a program changes or removes a finished checkpoint, save one *)
(* that copies over the model directory it was given: a training that      *)
(* comes to the same epoch again stops instead.                            *)
CheckpointsKept ==
    [][\A d \in Checkpoints :
          (prog.pc = "copy" /\ d[1] = prog.k) \/ (d \in DOMAIN disk' /\ disk'[d] = disk[d])]_vars

(* A checkpoint that has the optimiser state, and is not what a cut copy   *)
(* left, can be resumed in a new directory: loading it and training on     *)
(* never fails, whatever crashed before.                                   *)
CheckpointRestarts ==
    (/\ prog.kind = "from" /\ IsCheckpoint(prog.from) /\ prog.from \notin partly
     /\ prog.new /\ settings.saveState)
        => prog.pc # "failed"

(* What a checkpoint is for: it can be read and trained on.                *)
CheckpointsUsable == TypeOK /\ CheckpointComplete /\ CheckpointRestarts

(* What is on disk is not overwritten by who did not ask for it.           *)
NothingOverwritten == ResultsKept /\ CheckpointsKept

-------------------------------------------------------------------------------
(* What the code does not satisfy (README, section 3.2): that the model of *)
(* a checkpoint and its embeddings are of the same epoch.  create_checkpoint *)
(* copies the embeddings file before save() writes the embeddings to it.   *)
CheckpointConsistent ==
    settings.backend = "memory" =>
        \A d \in Checkpoints : disk[d].emb = [p \in Parts |-> disk[d].model]
==============================================================================
