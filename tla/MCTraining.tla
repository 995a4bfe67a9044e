----------------------------- MODULE MCTraining ------------------------------
(* A small instance of the training programs for TLC. *)
EXTENDS TrainingProps, TLC

(* A directory is listed in the order its files were made, or in the       *)
(* opposite one with its subdirectories first.                             *)
TwoListings ==
    {[emb |-> 1, state |-> 2, model |-> 3, optim |-> 4, meta |-> 5, dir |-> 6],
     [emb |-> 6, state |-> 5, model |-> 4, optim |-> 3, meta |-> 2, dir |-> 1]}

(* Nothing tells the parts of a table apart. *)
PartSymmetry == Permutations(Parts)
==============================================================================
