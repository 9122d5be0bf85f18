------------------------------- MODULE Trainer -------------------------------
(***************************************************************************)
(* One training job: the torchrun workers that run train.py, with          *)
(* dmlf/training and dmlf/distributed, over the attempts the manager       *)
(* dispatches with the same command line.  It dispatches a job of several  *)
(* nodes once per node that reports a failure, so attempts may overlap.    *)
(*                                                                         *)
(* Every worker runs the same program; they meet in collectives.  All the  *)
(* batches of an epoch are one step: DistributedSampler gives every rank   *)
(* as many, and each ends in an all-reduce that needs every rank.  The     *)
(* weights of a replica are the sequence of the epochs trained into them;  *)
(* the seed is fixed, so replicas that trained the same epochs are alike.  *)
(* One worker per node (nproc_per_node: 1).                                *)
(***************************************************************************)
EXTENDS Integers, Sequences

CONSTANTS
    Hosts,          \* machines an attempt may be placed on
    WorldSize,      \* ranks of an attempt
    Epochs,         \* --epochs
    Resumes,        \* epochs that may stand in the path given by --resume
    Dir,            \* Dir[h]: the storage behind the checkpoint_dir of host h
    MaxAttempts,    \* bound: dispatches of the job
    MayDie          \* hosts whose workers may die

ASSUME TrainerAssumption ==
    /\ WorldSize \in Nat \ {0} /\ Epochs \in Nat /\ MaxAttempts \in Nat
    /\ Resumes \subseteq Nat \cup {-1}
    /\ Hosts # {} /\ MayDie \subseteq Hosts

Ranks == 0..(WorldSize - 1)
Worker == (1..MaxAttempts) \X Ranks
Dirs == {Dir[h] : h \in Hosts}

\* The epochs that name a checkpoint: those saved, the last one of a job of no
\* epochs included, and those a command line may name.
Label == 0..(Epochs - 1) \cup {Epochs - 1} \cup Resumes

\* In place of an epoch: trained with the gradients of replicas not alike.
Mixed == -1

VARIABLES
    resume,     \* the epoch in the path given by --resume
    launched,   \* attempts made
    met,        \* history: attempts of which some rank had yet to load while a
                \* worker of another one was alive
    host,       \* where each worker runs
    pc,         \* where each worker is
    epoch,      \* DDPTrainer.current_epoch, then the loop's epoch
    weights,    \* the epochs trained into the worker's replica
    file,       \* file[d, e]: checkpoint_epoch_{e}.pt in storage d
    split       \* history: attempts whose ranks trained without being alike

vars == <<resume, launched, met, host, pc, epoch, weights, file, split>>

\* A file that torch.save has opened and not finished cannot be read.
NoFile == [state |-> "absent", weights |-> <<>>]
Partial == [state |-> "partial", weights |-> <<>>]
Whole(w) == [state |-> "whole", weights |-> w]
File == [state : {"absent", "partial", "whole"}, weights : Seq(Nat \cup {Mixed})]

Alive == {"setup", "load", "epoch", "end", "saving", "final", "closing"}
Running(w) == pc[w] \in Alive

TypeOK ==
    /\ resume \in Resumes
    /\ launched \in 0..MaxAttempts
    /\ met \subseteq 1..MaxAttempts /\ split \subseteq 1..MaxAttempts
    /\ host \in [Worker -> Hosts]
    /\ pc \in [Worker -> {"none", "dropped", "ok", "failed"} \cup Alive]
    /\ epoch \in [Worker -> 0..Epochs \cup {resume + 1}]
    /\ weights \in [Worker -> Seq(Nat \cup {Mixed})]
    /\ file \in [Dirs \X Label -> File]

\* The checkpoint named by --resume is nowhere, or has been put everywhere.
Init ==
    /\ resume \in Resumes
    /\ launched = 0 /\ met = {} /\ split = {}
    /\ host = [w \in Worker |-> CHOOSE h \in Hosts : TRUE]
    /\ pc = [w \in Worker |-> "none"]
    /\ epoch = [w \in Worker |-> 0]
    /\ weights = [w \in Worker |-> <<>>]
    /\ \E first \in {NoFile, Whole([i \in 1..(resume + 1) |-> i - 1])} :
          file = [f \in Dirs \X Label |-> IF f[2] = resume THEN first ELSE NoFile]

-----------------------------------------------------------------------------
(* torchrun. *)

Busy(h) == \E w \in Worker : host[w] = h /\ Running(w)
Loading(a) == \E r \in Ranks : pc[<<a, r>>] \in {"setup", "load"}

\* The next dispatch, whatever has become of the earlier ones: on any hosts, but
\* launch_torchrun drops the command of a rank whose host still has a process.
Launch ==
    /\ launched < MaxAttempts
    /\ launched' = launched + 1
    /\ \E place \in [Ranks -> Hosts] :
        /\ \A r, s \in Ranks : r # s => place[r] # place[s]
        /\ host' = [w \in Worker |-> IF w[1] = launched' THEN place[w[2]] ELSE host[w]]
        /\ pc' = [w \in Worker |->
                     IF w[1] # launched' THEN pc[w]
                     ELSE IF Busy(place[w[2]]) THEN "dropped" ELSE "setup"]
    /\ met' = met \cup {b \in 1..launched : Loading(b)}
                  \cup (IF \E w \in Worker : Running(w) THEN {launched'} ELSE {})
    /\ UNCHANGED <<resume, epoch, weights, file, split>>

\* The process ends with an error, and its memory is gone.
Fails(w) ==
    /\ pc' = [pc EXCEPT ![w] = "failed"]
    /\ epoch' = [epoch EXCEPT ![w] = 0]
    /\ weights' = [weights EXCEPT ![w] = <<>>]

\* Whatever kills a worker: the machine, an exception, the out-of-memory killer.
WorkerDies(w) ==
    /\ Running(w) /\ host[w] \in MayDie
    /\ Fails(w)
    /\ UNCHANGED <<resume, launched, met, host, file, split>>

-----------------------------------------------------------------------------
(* train.py: main, up to trainer.train(). *)

\* init_process_group, the barrier and the DDP constructor: every rank leaves
\* with the weights of rank 0, which are the initial ones.
SetupDistributed(a) ==
    /\ \A r \in Ranks : pc[<<a, r>>] = "setup"
    /\ pc' = [w \in Worker |-> IF w[1] = a THEN "load" ELSE pc[w]]
    /\ UNCHANGED <<resume, launched, met, host, epoch, weights, file, split>>

\* A collective some rank will not join any more raises an error in the
\* others: the connection is gone, or the timeout passes.
PeerLost(w) ==
    /\ pc[w] \in {"setup", "epoch"}
    /\ \E r \in Ranks : pc[<<w[1], r>>] \in {"dropped", "ok", "failed"}
    /\ Fails(w)
    /\ UNCHANGED <<resume, launched, met, host, file, split>>

\* Mutant: the counter is loaded as it was saved.
ResumedEpoch_same(label) == label

\* Mutant: the counter is not restored.
ResumedEpoch_zero(label) == 0

ResumedEpoch(label) == label + 1

\* Mutant: only the main process loads.
Loads_main(w) == w[2] = 0

\* Every rank calls load_checkpoint, on its own path.
Loads(w) == TRUE

\* Mutant: range(current_epoch, epochs + 1).
AtEpoch_inclusive(e) == IF e <= Epochs THEN "epoch" ELSE "final"

\* range(current_epoch, epochs), or the final save when it is empty.
AtEpoch(e) == IF e < Epochs THEN "epoch" ELSE "final"

\* load_checkpoint.  A missing file is no error, a torn one makes torch.load
\* raise.
LoadCheckpoint(w) ==
    /\ pc[w] = "load"
    /\ LET f == IF Loads(w) THEN file[<<Dir[host[w]], resume>>] ELSE NoFile
       IN  \/ /\ f.state = "absent"
              /\ pc' = [pc EXCEPT ![w] = AtEpoch(0)]
              /\ UNCHANGED <<epoch, weights>>
           \/ /\ f.state = "whole"
              /\ weights' = [weights EXCEPT ![w] = f.weights]
              /\ epoch' = [epoch EXCEPT ![w] = ResumedEpoch(resume)]
              /\ pc' = [pc EXCEPT ![w] = AtEpoch(ResumedEpoch(resume))]
           \/ /\ f.state = "partial"
              /\ Fails(w)
    /\ UNCHANGED <<resume, launched, met, host, file, split>>

-----------------------------------------------------------------------------
(* DDPTrainer.train and save_checkpoint. *)

Alike(a) ==
    \A r, s \in Ranks : /\ epoch[<<a, r>>] = epoch[<<a, s>>]
                        /\ weights[<<a, r>>] = weights[<<a, s>>]

\* The batches of one epoch, whichever epoch each rank takes it for: the
\* gradients are averaged over the ranks, the weights they are taken at are not.
TrainEpoch(a) ==
    /\ \A r \in Ranks : pc[<<a, r>>] = "epoch"
    /\ LET trained(w) == IF Alike(a) THEN epoch[w] ELSE Mixed
       IN  weights' = [w \in Worker |-> IF w[1] = a THEN Append(weights[w], trained(w))
                                                   ELSE weights[w]]
    /\ split' = IF Alike(a) THEN split ELSE split \cup {a}
    /\ pc' = [w \in Worker |-> IF w[1] = a THEN "end" ELSE pc[w]]
    /\ UNCHANGED <<resume, launched, met, host, epoch, file>>

\* torch.save opens the file of that epoch, truncating it.
Open(w, label) == file' = [file EXCEPT ![<<Dir[host[w]], label>>] = Partial]

\* torch.save ends.  Once attempts have overlapped, two of them may have written
\* the same file, with any result.
Close(w, label) ==
    \E content \in {Whole(weights[w])} \cup (IF met = {} THEN {} ELSE {Partial}) :
        file' = [file EXCEPT ![<<Dir[host[w]], label>>] = content]

NextEpoch(w) ==
    /\ epoch' = [epoch EXCEPT ![w] = @ + 1]
    /\ pc' = [pc EXCEPT ![w] = AtEpoch(epoch[w] + 1)]

\* The interval has not passed, or this is not the main process.
EpochEnds(w) ==
    /\ pc[w] = "end"
    /\ NextEpoch(w)
    /\ UNCHANGED <<resume, launched, met, host, weights, file, split>>

\* The interval has passed.
SaveBegins(w) ==
    /\ pc[w] = "end" /\ w[2] = 0
    /\ Open(w, epoch[w])
    /\ pc' = [pc EXCEPT ![w] = "saving"]
    /\ UNCHANGED <<resume, launched, met, host, epoch, weights, split>>

SaveEnds(w) ==
    /\ pc[w] = "saving"
    /\ Close(w, epoch[w])
    /\ NextEpoch(w)
    /\ UNCHANGED <<resume, launched, met, host, weights, split>>

\* torch.save goes on, in a file that another attempt has meanwhile closed.
SaveGoesOn(w) ==
    /\ pc[w] \in {"saving", "closing"}
    /\ LET label == IF pc[w] = "saving" THEN epoch[w] ELSE Epochs - 1
       IN  /\ file[<<Dir[host[w]], label>>].state = "whole"
           /\ Open(w, label)
    /\ UNCHANGED <<resume, launched, met, host, pc, epoch, weights, split>>

\* After the loop: the final checkpoint on rank 0, cleanup and exit code 0.
FinalSaveBegins(w) ==
    /\ pc[w] = "final" /\ w[2] = 0
    /\ Open(w, Epochs - 1)
    /\ pc' = [pc EXCEPT ![w] = "closing"]
    /\ UNCHANGED <<resume, launched, met, host, epoch, weights, split>>

FinalSaveEnds(w) ==
    /\ pc[w] = "closing"
    /\ Close(w, Epochs - 1)
    /\ pc' = [pc EXCEPT ![w] = "ok"]
    /\ UNCHANGED <<resume, launched, met, host, epoch, weights, split>>

Exits(w) ==
    /\ pc[w] = "final" /\ w[2] # 0
    /\ pc' = [pc EXCEPT ![w] = "ok"]
    /\ UNCHANGED <<resume, launched, met, host, epoch, weights, file, split>>

Save(w) == SaveBegins(w) \/ SaveEnds(w) \/ FinalSaveBegins(w) \/ FinalSaveEnds(w)
WorkerStep(w) == PeerLost(w) \/ LoadCheckpoint(w) \/ EpochEnds(w) \/ Save(w) \/ Exits(w)
Collective(a) == SetupDistributed(a) \/ TrainEpoch(a)

Next ==
    \/ Launch
    \/ \E w \in Worker : WorkerDies(w) \/ WorkerStep(w) \/ SaveGoesOn(w)
    \/ \E a \in 1..MaxAttempts : Collective(a)

\* Code that can run runs; nobody has to die, and nobody has to retry.
Fairness ==
    /\ WF_vars(Launch /\ launched = 0)
    /\ \A w \in Worker : WF_vars(WorkerStep(w))
    /\ \A a \in 1..MaxAttempts : WF_vars(Collective(a))

Spec == Init /\ [][Next]_vars
FairSpec == Spec /\ Fairness

-----------------------------------------------------------------------------
(* What a job may count on. *)

Straight(e) == [i \in 1..e |-> i - 1]

\* Weights w of a run over the first n epochs.
TrainedOver(w, n) ==
    /\ DOMAIN w = 1..n
    /\ \A i \in 1..n : w[i] = i - 1 \/ (w[i] = Mixed /\ split # {})

\* A readable checkpoint_epoch_{e}.pt holds the weights of a run over epochs
\* 0..e, each once and in order, whatever chain of attempts it comes from, and of
\* replicas that were alike unless the ranks of some attempt were not.  One file
\* may hold more than its name says: the final one of a job told to resume from
\* an epoch past its last, which saves what it has loaded under --epochs - 1.
CheckpointsFaithful ==
    \A d \in Dirs, e \in Label :
        LET f == file[<<d, e>>]
        IN  f.state = "whole" =>
               \/ TrainedOver(f.weights, e + 1)
               \/ /\ e = Epochs - 1 /\ resume >= Epochs
                  /\ TrainedOver(f.weights, resume + 1)

\* Each rank looks for the checkpoint on its own disk, after DDP has broadcast
\* the weights.  On one storage all ranks resume from the same state, if no other
\* attempt had a worker alive, to write there, before the last of them had loaded.
OneStorage(a) == \A r, s \in Ranks : Dir[host[<<a, r>>]] = Dir[host[<<a, s>>]]
AlikeOnOneStorage ==
    \A a \in (1..launched) \ met :
        OneStorage(a) => ((\A r \in Ranks : pc[<<a, r>>] = "epoch") => Alike(a))

\* On other storage, or beside another attempt, ranks may resume from different
\* states.  Then they do not all succeed: an attempt whose ranks all exit 0 has one
\* model, trained over every epoch, or over those of a checkpoint past the last.
\* This is so for the first attempt whose ranks were not alike (a checkpoint such
\* an attempt has left may make a later one succeed on two models), and where
\* there is an epoch to train.
NoSilentDivergence ==
    \A a \in 1..MaxAttempts :
        /\ Epochs > 0
        /\ \A r \in Ranks : pc[<<a, r>>] = "ok"
        /\ split \subseteq {a}
        => \/ \A r \in Ranks : weights[<<a, r>>] = Straight(Epochs)
           \/ /\ resume >= Epochs
              /\ \A r \in Ranks : weights[<<a, r>>] = Straight(resume + 1)

\* The first attempt succeeds unless a fault hits it or another attempt is
\* launched before it has loaded.  Resuming from the last epoch is excepted: rank 0
\* then rewrites the very checkpoint that the others may still be reading.
CompletesUnlessHit ==
    resume # Epochs - 1 =>
        <>(\/ \A r \in Ranks : pc[<<1, r>>] = "ok"
           \/ \E r \in Ranks : pc[<<1, r>>] = "failed" /\ host[<<1, r>>] \in MayDie
           \/ 1 \in met)

-----------------------------------------------------------------------------
(* Why the safety properties hold: inductive together with TypeOK and       *)
(* CheckpointsFaithful (TrainerProofs).                                     *)

\* The epochs behind a replica: current_epoch has yet to count the last one
\* while it is saved.
Trained(w) == IF pc[w] \in {"end", "saving"} THEN epoch[w] + 1 ELSE epoch[w]

\* A replica holds the epochs its counter says; past the last epoch it counts
\* only what it has loaded.
Counted ==
    \A w \in Worker :
        /\ TrainedOver(weights[w], Trained(w))
        /\ pc[w] \in {"none", "dropped", "setup", "load", "failed"} => epoch[w] = 0
        /\ pc[w] \in {"epoch", "end", "saving"} => epoch[w] < Epochs
        /\ pc[w] \in {"final", "closing", "ok"} => epoch[w] >= Epochs

\* While an attempt that met no other one loads, it is the only one to run.
Undisturbed ==
    /\ met \subseteq 1..launched
    /\ \A w \in Worker : pc[w] = "none" <=> w[1] > launched
    /\ \A a \in (1..launched) \ met :
          Loading(a) => \A w \in Worker : w[1] # a => ~Running(w)

\* While some ranks of an attempt have yet to load nobody trains, as no epoch
\* begins without all ranks: who is done has found nothing left to train ...
Done(w) == pc[w] \in {"final", "closing", "ok"}
NobodyAhead ==
    \A a \in 1..MaxAttempts :
        Loading(a) => \A r \in Ranks :
            /\ pc[<<a, r>>] \notin {"end", "saving"}
            /\ Done(<<a, r>>) => Epochs = 0 \/ epoch[<<a, r>>] = resume + 1

\* ... and who has found a checkpoint past the last epoch keeps the others from
\* ever training one.
PastTheLast ==
    \A a \in 1..MaxAttempts, r, s \in Ranks :
        Epochs > 0 /\ epoch[<<a, r>>] > Epochs =>
            /\ pc[<<a, s>>] \notin {"end", "saving"}
            /\ Done(<<a, s>>) => epoch[<<a, s>>] > Epochs

\* What a rank has just made of the checkpoint.
Loaded(w) ==
    LET f == file[<<Dir[host[w]], resume>>]
    IN  \/ f.state = "absent" /\ epoch[w] = 0 /\ weights[w] = <<>>
        \/ f.state = "whole" /\ epoch[w] = resume + 1 /\ weights[w] = f.weights

Training(w) == pc[w] \in {"epoch", "end", "saving"}

\* While some ranks of an attempt on one storage have yet to load, nobody writes
\* what the others have loaded, but a rank that is already at its final save, and
\* then the rest will find the last epoch too.
Unwritten(a) ==
    \A r \in Ranks :
        /\ pc[<<a, r>>] \notin {"end", "saving"}
        /\ pc[<<a, r>>] = "epoch" => Loaded(<<a, r>>)
        /\ Done(<<a, r>>) /\ Epochs > 0 =>
              /\ resume + 1 >= Epochs
              /\ file[<<Dir[host[<<a, r>>]], resume>>].state # "absent"

\* From then on its ranks train in step.
InStep(a) ==
    \A r, s \in Ranks :
        Training(<<a, r>>) /\ Training(<<a, s>>) =>
            /\ Trained(<<a, r>>) = Trained(<<a, s>>)
            /\ weights[<<a, r>>] = weights[<<a, s>>]

Complete(a) == \A r \in Ranks : pc[<<a, r>>] \notin {"dropped", "failed"}
Together ==
    \A a \in (1..launched) \ met :
        OneStorage(a) /\ Complete(a) => IF Loading(a) THEN Unwritten(a) ELSE InStep(a)

\* Ranks of the first split attempt never come to count the same epochs again,
\* so that some rank is at an epoch when another has none left.
OutOfStep ==
    \A a \in 1..MaxAttempts :
        split = {a} =>
            \/ \E r \in Ranks : pc[<<a, r>>] = "failed"
            \/ /\ \A r \in Ranks : pc[<<a, r>>] \notin {"none", "dropped", "setup", "load"}
               /\ \E r, s \in Ranks : Trained(<<a, r>>) # Trained(<<a, s>>)

Inductive ==
    /\ TypeOK /\ CheckpointsFaithful /\ Counted
    /\ Undisturbed /\ NobodyAhead /\ PastTheLast /\ Together /\ OutOfStep
=============================================================================
