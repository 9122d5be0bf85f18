---------------------------- MODULE TrainerProofs ----------------------------
(***************************************************************************)
(* What a training job may count on, for every number of ranks, epochs and *)
(* attempts, every placement and every layout of the storage: readable     *)
(* checkpoints are faithful, ranks on one storage resume alike, and an     *)
(* attempt whose ranks were not alike does not succeed.                    *)
(***************************************************************************)
EXTENDS Trainer, TLAPS, SequenceTheorems

(* The parts of a worker's name, and of the constants. *)
LEMMA Names ==
    /\ \A w \in Worker : w[1] \in 1..MaxAttempts /\ w[2] \in Ranks /\ w = <<w[1], w[2]>>
    /\ \A a \in 1..MaxAttempts, r \in Ranks : <<a, r>> \in Worker
    /\ 0 \in Ranks
    /\ MaxAttempts \in Nat /\ Epochs \in Nat
    /\ Label \subseteq Int /\ 0..(Epochs - 1) \subseteq Label /\ Epochs - 1 \in Label
    /\ \A R \in Resumes : R \in Label /\ R \in Int /\ R + 1 \in Nat
    /\ \A h \in Hosts : Dir[h] \in Dirs
BY TrainerAssumption DEF Worker, Ranks, Label, Dirs

LEMMA Counters ==
  ASSUME TypeOK
  PROVE  /\ resume \in Label /\ resume \in Int /\ resume + 1 \in Nat
         /\ \A w \in Worker : epoch[w] \in Nat
                           /\ (epoch[w] < Epochs => epoch[w] \in Label /\ epoch[w] + 1 \in 0..Epochs)
<1>1. resume \in Label /\ resume \in Int /\ resume + 1 \in Nat
    BY Names DEF TypeOK
<1>2. ASSUME NEW w \in Worker PROVE epoch[w] \in 0..Epochs \cup {resume + 1}
    BY DEF TypeOK
<1>3. \A w \in Worker : epoch[w] \in Nat
    BY <1>1, <1>2, Names
<1>4. \A w \in Worker : epoch[w] < Epochs => epoch[w] \in 0..(Epochs - 1) /\ epoch[w] + 1 \in 0..Epochs
    BY <1>3, Names
<1> QED
    BY <1>1, <1>3, <1>4, Names

\* A step of worker w leaves the others alone.
Aside(w) ==
    /\ \A x \in Worker \ {w} :
          pc'[x] = pc[x] /\ epoch'[x] = epoch[x] /\ weights'[x] = weights[x]
    /\ UNCHANGED <<resume, launched, met, host, split>>

\* The steps of a worker, and what each does to it.
LEMMA OwnSteps ==
  ASSUME TypeOK, NEW w \in Worker, WorkerDies(w) \/ WorkerStep(w) \/ SaveGoesOn(w)
  PROVE  /\ Aside(w) /\ Running(w)
         /\ pc'[w] \notin {"none", "dropped", "setup", "load"}
<1> USE DEF TypeOK, Aside, Running, Alive, Fails
<1>1. CASE WorkerDies(w)
    BY <1>1 DEF WorkerDies
<1>2. CASE PeerLost(w)
    BY <1>2 DEF PeerLost
<1>3. CASE LoadCheckpoint(w)
    BY <1>3 DEF LoadCheckpoint, AtEpoch
<1>4. CASE EpochEnds(w)
    BY <1>4 DEF EpochEnds, NextEpoch, AtEpoch
<1>5. CASE SaveBegins(w) \/ FinalSaveBegins(w)
    BY <1>5 DEF SaveBegins, FinalSaveBegins
<1>6. CASE SaveEnds(w)
    BY <1>6 DEF SaveEnds, NextEpoch, AtEpoch
<1>7. CASE FinalSaveEnds(w) \/ Exits(w)
    BY <1>7 DEF FinalSaveEnds, Exits
<1>8. CASE SaveGoesOn(w)
    BY <1>8 DEF SaveGoesOn
<1> QED
    BY <1>1, <1>2, <1>3, <1>4, <1>5, <1>6, <1>7, <1>8 DEF WorkerStep, Save

-----------------------------------------------------------------------------
(* Types. *)

LEMMA InitInductive == Init => Inductive
<1> SUFFICES ASSUME Init PROVE Inductive
    OBVIOUS
<1> USE Names DEF Init
<1>1. TypeOK
    <2>1. (CHOOSE h \in Hosts : TRUE) \in Hosts
        BY TrainerAssumption
    <2>2. NoFile \in File
        BY DEF NoFile, File
    <2>3. Whole([i \in 1..(resume + 1) |-> i - 1]) \in File
        <3>1. [i \in 1..(resume + 1) |-> i - 1] \in [1..(resume + 1) -> Nat \cup {Mixed}]
            OBVIOUS
        <3>2. resume + 1 \in Nat
            OBVIOUS
        <3>3. [i \in 1..(resume + 1) |-> i - 1] \in Seq(Nat \cup {Mixed})
            BY <3>1, <3>2, SeqDef
        <3> QED
            BY <3>3 DEF Whole, File
    <2>4. file \in [Dirs \X Label -> File]
        BY <2>2, <2>3
    <2>5. <<>> \in Seq(Nat \cup {Mixed})
        OBVIOUS
    <2>6. launched \in 0..MaxAttempts /\ epoch \in [Worker -> 0..Epochs \cup {resume + 1}]
        OBVIOUS
    <2> QED
        BY <2>1, <2>4, <2>5, <2>6 DEF TypeOK
<1>2. CheckpointsFaithful
    BY DEF CheckpointsFaithful, NoFile, Whole, TrainedOver
<1>3. Counted
    BY DEF Counted, TrainedOver, Trained
<1>4. Undisturbed
    BY DEF Undisturbed
<1>5. Together /\ OutOfStep
    BY DEF Together, OutOfStep
<1>6. NobodyAhead /\ PastTheLast
    BY DEF NobodyAhead, Loading, PastTheLast
<1> QED
    BY <1>1, <1>2, <1>3, <1>4, <1>5, <1>6 DEF Inductive

LEMMA TypeStep == TypeOK /\ CheckpointsFaithful /\ Counted /\ [Next]_vars => TypeOK'
<1> SUFFICES ASSUME TypeOK, CheckpointsFaithful, Counted, [Next]_vars PROVE TypeOK'
    OBVIOUS
<1> USE Names DEF TypeOK, Fails, Alive
<1>1. ASSUME Launch PROVE TypeOK'
    <2>1. launched' \in 1..MaxAttempts
        BY <1>1 DEF Launch
    <2>2. PICK place \in [Ranks -> Hosts] :
              host' = [w \in Worker |-> IF w[1] = launched' THEN place[w[2]] ELSE host[w]]
        BY <1>1 DEF Launch
    <2>3. host' \in [Worker -> Hosts]
        BY <2>2
    <2> QED
        BY <1>1, <2>1, <2>3 DEF Launch
<1>2. ASSUME NEW w \in Worker, WorkerDies(w) PROVE TypeOK'
    BY <1>2 DEF WorkerDies
<1>3. ASSUME NEW a \in 1..MaxAttempts, SetupDistributed(a) PROVE TypeOK'
    BY <1>3 DEF SetupDistributed
<1>4. ASSUME NEW w \in Worker, PeerLost(w) PROVE TypeOK'
    BY <1>4 DEF PeerLost
<1>5. ASSUME NEW w \in Worker, LoadCheckpoint(w) PROVE TypeOK'
    <2>1. file[<<Dir[host[w]], resume>>].weights \in Seq(Nat \cup {Mixed})
        BY DEF File
    <2>2. resume + 1 \in 0..Epochs \cup {resume + 1}
        OBVIOUS
    <2>3. \A e : AtEpoch(e) \in {"epoch", "final"}
        BY DEF AtEpoch
    <2>4. epoch' \in [Worker -> 0..Epochs \cup {resume + 1}]
        <3>1. \/ epoch' = epoch \/ epoch' = [epoch EXCEPT ![w] = 0]
              \/ epoch' = [epoch EXCEPT ![w] = resume + 1]
            BY <1>5 DEF LoadCheckpoint, ResumedEpoch
        <3>2. 0 \in 0..Epochs
            OBVIOUS
        <3> QED
            BY <2>2, <3>1, <3>2
    <2>5. weights' \in [Worker -> Seq(Nat \cup {Mixed})]
        <3>1. \/ weights' = weights
              \/ weights' = [weights EXCEPT ![w] = <<>>]
              \/ weights' = [weights EXCEPT ![w] = file[<<Dir[host[w]], resume>>].weights]
            BY <1>5 DEF LoadCheckpoint, Loads
        <3>2. <<>> \in Seq(Nat \cup {Mixed})
            OBVIOUS
        <3> QED
            BY <2>1, <3>1, <3>2
    <2>6. pc' \in [Worker -> {"none", "dropped", "ok", "failed"} \cup Alive]
        BY <1>5, <2>3 DEF LoadCheckpoint
    <2>7. UNCHANGED <<resume, launched, met, host, file, split>>
        BY <1>5 DEF LoadCheckpoint
    <2> QED
        BY <2>4, <2>5, <2>6, <2>7
<1>6. ASSUME NEW a \in 1..MaxAttempts, TrainEpoch(a) PROVE TypeOK'
    <2> DEFINE trained(w) == IF Alike(a) THEN epoch[w] ELSE Mixed
    <2>1. \A w \in Worker : w[1] = a => trained(w) \in Nat \cup {Mixed}
        BY <1>6 DEF TrainEpoch, Counted
    <2>2. \A w \in Worker : w[1] = a => Append(weights[w], trained(w)) \in Seq(Nat \cup {Mixed})
        BY <2>1
    <2>3. weights' = [w \in Worker |-> IF w[1] = a THEN Append(weights[w], trained(w))
                                                   ELSE weights[w]]
        BY <1>6 DEF TrainEpoch
    <2>4. weights' \in [Worker -> Seq(Nat \cup {Mixed})]
        BY <2>2, <2>3
    <2> QED
        BY <1>6, <2>4 DEF TrainEpoch
<1>7. ASSUME NEW w \in Worker, EpochEnds(w) PROVE TypeOK'
    <2>1. epoch[w] + 1 \in 0..Epochs
        BY <1>7, Counters DEF EpochEnds, Counted
    <2> QED
        BY <1>7, <2>1 DEF EpochEnds, NextEpoch, AtEpoch
<1>8. ASSUME NEW w \in Worker, NEW e \in Label, Open(w, e) \/ Close(w, e)
      PROVE  file' \in [Dirs \X Label -> File]
    <2>1. Partial \in File /\ Whole(weights[w]) \in File
        BY DEF Partial, Whole, File
    <2> QED
        BY <1>8, <2>1 DEF Open, Close
<1>9. ASSUME NEW w \in Worker, Save(w) PROVE TypeOK'
    <2>1. pc[w] \in {"end", "saving"} => epoch[w] \in Label /\ epoch[w] + 1 \in 0..Epochs
        BY Counters DEF Counted
    <2>2. CASE SaveBegins(w)
        BY <1>8, <2>1, <2>2 DEF SaveBegins
    <2>3. CASE SaveEnds(w)
        BY <1>8, <2>1, <2>3 DEF SaveEnds, NextEpoch, AtEpoch
    <2>4. CASE FinalSaveBegins(w) \/ FinalSaveEnds(w)
        BY <1>8, <2>4 DEF FinalSaveBegins, FinalSaveEnds
    <2> QED
        BY <1>9, <2>2, <2>3, <2>4 DEF Save
<1>10. ASSUME NEW w \in Worker, Exits(w) PROVE TypeOK'
    BY <1>10 DEF Exits
<1>11. ASSUME NEW w \in Worker, SaveGoesOn(w) PROVE TypeOK'
    <2>1. pc[w] = "saving" => epoch[w] \in Label
        BY Counters DEF Counted
    <2> QED
        BY <1>8, <1>11, <2>1 DEF SaveGoesOn
<1>12. CASE UNCHANGED vars
    BY <1>12 DEF vars
<1> QED
    BY <1>1, <1>2, <1>3, <1>4, <1>5, <1>6, <1>7, <1>9, <1>10, <1>11, <1>12
    DEF Next, WorkerStep, Collective
-----------------------------------------------------------------------------
(* Replicas and checkpoints. *)

\* What the file of label e may hold.
Holds(w, e) ==
    \/ TrainedOver(w, e + 1)
    \/ e = Epochs - 1 /\ resume >= Epochs /\ TrainedOver(w, resume + 1)

LEMMA FaithfulStep ==
  ASSUME TypeOK, CheckpointsFaithful, Counted, [Next]_vars
  PROVE  CheckpointsFaithful'
<1> USE Names
<1> DEFINE files == \A d \in Dirs, e \in Label :
                       file[<<d, e>>].state = "whole" => Holds(file[<<d, e>>].weights, e)
<1>1. files /\ (CheckpointsFaithful' <=> files')
    BY DEF CheckpointsFaithful, Holds
<1> HIDE DEF files
<1>2. ASSUME UNCHANGED <<resume, file>>, split # {} => split' # {} PROVE CheckpointsFaithful'
    BY <1>1, <1>2 DEF files, Holds, TrainedOver
<1>3. ASSUME NEW w \in Worker, NEW e \in Label, Open(w, e), UNCHANGED <<resume, split>>
      PROVE  CheckpointsFaithful'
    <2>1. ASSUME NEW d \in Dirs, NEW l \in Label, file'[<<d, l>>].state = "whole"
          PROVE  Holds(file[<<d, l>>].weights, l)'
        <3>1. file'[<<d, l>>] = file[<<d, l>>]
            BY <1>3, <2>1 DEF Open, Partial, TypeOK
        <3>2. Holds(file[<<d, l>>].weights, l)
            BY <1>1, <2>1, <3>1 DEF files
        <3> QED
            BY <1>3, <3>1, <3>2 DEF Holds, TrainedOver
    <2> QED
        BY <1>1, <2>1 DEF files
<1>4. ASSUME NEW w \in Worker, NEW e \in Label, Close(w, e), UNCHANGED <<resume, split>>,
             Holds(weights[w], e)
      PROVE  CheckpointsFaithful'
    <2>1. PICK content \in {Whole(weights[w]), Partial} :
              file' = [file EXCEPT ![<<Dir[host[w]], e>>] = content]
        BY <1>4 DEF Close
    <2>2. ASSUME NEW d \in Dirs, NEW l \in Label, file'[<<d, l>>].state = "whole"
          PROVE  Holds(file[<<d, l>>].weights, l)'
        <3>1. CASE <<d, l>> = <<Dir[host[w]], e>>
            <4>1. file'[<<d, l>>] = content
                BY <2>1, <3>1 DEF TypeOK
            <4>2. file'[<<d, l>>].weights = weights[w] /\ l = e
                BY <2>2, <3>1, <4>1 DEF Partial, Whole
            <4> QED
                BY <1>4, <4>2 DEF Holds, TrainedOver
        <3>2. CASE <<d, l>> # <<Dir[host[w]], e>>
            <4>1. file'[<<d, l>>] = file[<<d, l>>]
                BY <2>1, <3>2 DEF TypeOK
            <4> QED
                BY <1>1, <1>4, <2>2, <4>1 DEF files, Holds, TrainedOver
        <3> QED
            BY <3>1, <3>2
    <2> QED
        BY <1>1, <2>2 DEF files
<1>5. ASSUME NEW w \in Worker, SaveBegins(w) \/ FinalSaveBegins(w) \/ SaveGoesOn(w)
      PROVE  CheckpointsFaithful'
    <2>1. pc[w] \in {"end", "saving"} => epoch[w] \in Label
        BY Counters DEF Counted
    <2> QED
        BY <1>3, <1>5, <2>1 DEF SaveBegins, FinalSaveBegins, SaveGoesOn
<1>6. ASSUME NEW w \in Worker, SaveEnds(w) PROVE CheckpointsFaithful'
    <2>1. epoch[w] \in Label /\ TrainedOver(weights[w], epoch[w] + 1)
        BY <1>6, Counters DEF SaveEnds, Counted, Trained
    <2> QED
        BY <1>4, <1>6, <2>1 DEF SaveEnds, Holds
<1>7. ASSUME NEW w \in Worker, FinalSaveEnds(w) PROVE CheckpointsFaithful'
    <2>1. /\ TrainedOver(weights[w], epoch[w]) /\ epoch[w] >= Epochs
          /\ epoch[w] \in 0..Epochs \cup {resume + 1} /\ resume \in Int
        BY <1>7 DEF FinalSaveEnds, Counted, TypeOK, Trained
    <2>2. epoch[w] = (Epochs - 1) + 1 \/ (epoch[w] = resume + 1 /\ resume >= Epochs)
        BY <2>1
    <2>3. Holds(weights[w], Epochs - 1)
        BY <2>1, <2>2 DEF Holds
    <2> QED
        BY <1>4, <1>7, <2>3 DEF FinalSaveEnds
<1>8. CASE UNCHANGED vars
    BY <1>2, <1>8 DEF vars
<1>9. CASE Launch
    BY <1>2, <1>9 DEF Launch
<1>10. ASSUME NEW a \in 1..MaxAttempts, Collective(a) PROVE CheckpointsFaithful'
    BY <1>2, <1>10 DEF Collective, SetupDistributed, TrainEpoch
<1>11. ASSUME NEW w \in Worker,
              WorkerDies(w) \/ PeerLost(w) \/ LoadCheckpoint(w) \/ EpochEnds(w) \/ Exits(w)
       PROVE  CheckpointsFaithful'
    BY <1>2, <1>11 DEF WorkerDies, PeerLost, LoadCheckpoint, EpochEnds, Exits
<1> QED
    BY <1>5, <1>6, <1>7, <1>8, <1>9, <1>10, <1>11 DEF Next, WorkerStep, Save

\* Counted says this of each worker.
CountedOf(w) ==
    /\ TrainedOver(weights[w], Trained(w))
    /\ pc[w] \in {"none", "dropped", "setup", "load", "failed"} => epoch[w] = 0
    /\ pc[w] \in {"epoch", "end", "saving"} => epoch[w] < Epochs
    /\ pc[w] \in {"final", "closing", "ok"} => epoch[w] >= Epochs

LEMMA CountedStep ==
  ASSUME TypeOK, CheckpointsFaithful, Counted, Undisturbed, [Next]_vars
  PROVE  Counted'
<1> USE Names
<1>1. ASSUME NEW w \in Worker, CountedOf(w)', Aside(w) PROVE Counted'
    BY <1>1 DEF Aside, Counted, CountedOf, Trained, TrainedOver
<1>2. ASSUME NEW w \in Worker, Fails(w) PROVE CountedOf(w)'
    BY <1>2 DEF Fails, CountedOf, TypeOK, TrainedOver, Trained
<1>3. ASSUME NEW w \in Worker, WorkerDies(w) \/ PeerLost(w) PROVE Counted'
    BY <1>1, <1>2, <1>3, OwnSteps DEF WorkerDies, PeerLost, WorkerStep
<1>4. ASSUME NEW w \in Worker, LoadCheckpoint(w) PROVE Counted'
    <2> SUFFICES CountedOf(w)'
        BY <1>1, <1>4, OwnSteps DEF WorkerStep
    <2> DEFINE f == file[<<Dir[host[w]], resume>>]
    <2>1. CASE f.state = "absent"
        <3>1. /\ UNCHANGED <<epoch, weights, split>> /\ pc[w] = "load"
              /\ pc'[w] = IF 0 < Epochs THEN "epoch" ELSE "final"
            BY <1>4, <2>1 DEF LoadCheckpoint, Loads, AtEpoch, TypeOK
        <3> QED
            BY <3>1, Counters DEF CountedOf, Counted, Trained, TrainedOver
    <2>2. CASE f.state = "whole"
        <3>1. TrainedOver(f.weights, resume + 1) /\ resume + 1 \in Nat
            BY <2>2 DEF CheckpointsFaithful, TypeOK
        <3>2. /\ weights'[w] = f.weights /\ epoch'[w] = resume + 1
              /\ pc'[w] = AtEpoch(resume + 1) /\ UNCHANGED split
            BY <1>4, <2>2 DEF LoadCheckpoint, Loads, ResumedEpoch, TypeOK
        <3>3. TrainedOver(weights[w], resume + 1)' /\ resume' = resume
            BY <1>4, <3>1, <3>2 DEF TrainedOver, LoadCheckpoint
        <3>4. CASE resume + 1 < Epochs
            <4>1. pc'[w] = "epoch" /\ Trained(w)' = resume' + 1
                BY <3>2, <3>3, <3>4 DEF AtEpoch, Trained
            <4> QED
                BY <3>2, <3>3, <3>4, <4>1 DEF CountedOf
        <3>5. CASE ~(resume + 1 < Epochs)
            <4>1. pc'[w] = "final" /\ Trained(w)' = resume' + 1
                BY <3>2, <3>3, <3>5 DEF AtEpoch, Trained
            <4> QED
                BY <3>1, <3>2, <3>3, <3>5, <4>1 DEF CountedOf
        <3> QED
            BY <3>4, <3>5
    <2>3. CASE f.state = "partial"
        BY <1>2, <1>4, <2>3 DEF LoadCheckpoint, Loads
    <2> QED
        BY <1>4, <2>1, <2>2, <2>3 DEF LoadCheckpoint, Loads
<1>5. ASSUME NEW w \in Worker, EpochEnds(w) \/ SaveEnds(w) PROVE Counted'
    <2>1. /\ epoch'[w] = epoch[w] + 1 /\ pc'[w] = AtEpoch(epoch[w] + 1)
          /\ UNCHANGED <<weights, split>> /\ pc[w] \in {"end", "saving"}
        BY <1>5 DEF EpochEnds, SaveEnds, NextEpoch, TypeOK
    <2>2. CountedOf(w)'
        BY <2>1, Counters DEF CountedOf, Counted, AtEpoch, Trained, TrainedOver
    <2> QED
        BY <1>1, <1>5, <2>2, OwnSteps DEF WorkerStep, Save
<1>6. ASSUME NEW w \in Worker,
             \/ SaveBegins(w) \/ SaveGoesOn(w)
             \/ FinalSaveBegins(w) \/ FinalSaveEnds(w) \/ Exits(w)
      PROVE  Counted'
    <2>1. CountedOf(w)'
        BY <1>6 DEF SaveBegins, SaveGoesOn, FinalSaveBegins, FinalSaveEnds, Exits, CountedOf,
                    Counted, Trained, TrainedOver, TypeOK
    <2> QED
        BY <1>1, <1>6, <2>1, OwnSteps DEF WorkerStep, Save
<1>7. CASE Launch
    <2>1. \A w \in Worker :
             /\ epoch'[w] = epoch[w] /\ weights'[w] = weights[w]
             /\ pc'[w] = pc[w] \/ (pc[w] = "none" /\ pc'[w] \in {"setup", "dropped"})
        BY <1>7 DEF Launch, Undisturbed, TypeOK
    <2> QED
        BY <1>7, <2>1 DEF Launch, Counted, Trained, TrainedOver
<1>8. ASSUME NEW a \in 1..MaxAttempts, SetupDistributed(a) PROVE Counted'
    <2>1. \A w \in Worker :
             /\ epoch'[w] = epoch[w] /\ weights'[w] = weights[w]
             /\ pc'[w] = pc[w] \/ (pc[w] = "setup" /\ pc'[w] = "load")
        BY <1>8 DEF SetupDistributed, TypeOK
    <2> QED
        BY <1>8, <2>1 DEF SetupDistributed, Counted, Trained, TrainedOver
<1>9. ASSUME NEW a \in 1..MaxAttempts, TrainEpoch(a) PROVE Counted'
    <2>1. ASSUME NEW w \in Worker PROVE CountedOf(w)'
        <3>1. CASE w[1] # a
            BY <1>9, <2>1, <3>1 DEF TrainEpoch, CountedOf, Counted, Trained, TrainedOver, TypeOK
        <3>2. CASE w[1] = a
            <4>1. pc[w] = "epoch" /\ pc'[w] = "end" /\ epoch'[w] = epoch[w]
                BY <1>9, <3>2 DEF TrainEpoch, TypeOK
            <4>2. /\ weights[w] \in Seq(Nat \cup {Mixed}) /\ epoch[w] \in Nat
                  /\ Len(weights[w]) = epoch[w]
                <5>1. weights[w] \in Seq(Nat \cup {Mixed}) /\ epoch[w] \in Nat
                    BY DEF TypeOK
                <5>2. TrainedOver(weights[w], epoch[w])
                    BY <4>1 DEF Counted, Trained
                <5>3. DOMAIN weights[w] = 1..epoch[w]
                    BY <5>2 DEF TrainedOver
                <5> QED
                    BY <5>1, <5>3
            <4>3. PICK t \in Nat \cup {Mixed} :
                      /\ weights'[w] = Append(weights[w], t)
                      /\ t = epoch[w] \/ (t = Mixed /\ split' # {})
                <5>1. weights'[w] = Append(weights[w], IF Alike(a) THEN epoch[w] ELSE Mixed)
                    BY <1>9, <3>2 DEF TrainEpoch
                <5>2. Alike(a) \/ split' # {}
                    BY <1>9 DEF TrainEpoch
                <5>3. epoch[w] \in Nat
                    BY <4>2
                <5> QED
                    BY <5>1, <5>2, <5>3
            <4>4. /\ DOMAIN weights'[w] = 1..(epoch[w] + 1)
                  /\ \A i \in 1..epoch[w] : weights'[w][i] = weights[w][i]
                  /\ weights'[w][epoch[w] + 1] = t
                BY <4>2, <4>3
            <4>5. split # {} => split' # {}
                BY <1>9 DEF TrainEpoch
            <4>6. TrainedOver(weights[w], epoch[w]) /\ epoch[w] < Epochs
                BY <4>1 DEF Counted, Trained
            <4>7. TrainedOver(weights[w], epoch[w] + 1)'
                BY <4>1, <4>2, <4>3, <4>4, <4>5, <4>6 DEF TrainedOver
            <4> QED
                BY <4>1, <4>6, <4>7 DEF CountedOf, Trained
        <3> QED
            BY <3>1, <3>2
    <2> QED
        BY <2>1 DEF Counted, CountedOf
<1>10. CASE UNCHANGED vars
    BY <1>10 DEF vars, Counted, Trained, TrainedOver
<1> QED
    BY <1>3, <1>4, <1>5, <1>6, <1>7, <1>8, <1>9, <1>10
    DEF Next, WorkerStep, Save, Collective

-----------------------------------------------------------------------------
(* Attempts. *)

LEMMA UndisturbedStep ==
  ASSUME TypeOK, Undisturbed, [Next]_vars
  PROVE  Undisturbed'
<1> USE Names
<1>1. ASSUME UNCHANGED <<launched, met>>,
             \A w \in Worker :
                \/ pc'[w] = pc[w]
                \/ Running(w) /\ pc'[w] \notin {"none", "dropped", "setup"}
                   /\ (pc'[w] = "load" => pc[w] = "setup")
      PROVE  Undisturbed'
    <2>1. \A w \in Worker : pc'[w] = "none" <=> pc[w] = "none"
        BY <1>1 DEF Running, Alive
    <2>2. \A w \in Worker : Running(w)' => Running(w)
        BY <1>1 DEF Running
    <2>3. 1..launched \subseteq 1..MaxAttempts
        BY DEF TypeOK
    <2>4. \A a \in 1..launched : Loading(a)' => Loading(a)
        BY <1>1, <2>3 DEF Loading
    <2> QED
        BY <1>1, <2>1, <2>2, <2>4 DEF Undisturbed
<1>2. ASSUME NEW w \in Worker, WorkerDies(w) \/ WorkerStep(w) \/ SaveGoesOn(w)
      PROVE  Undisturbed'
    BY <1>1, <1>2, OwnSteps DEF Aside
<1>3. ASSUME NEW a \in 1..MaxAttempts, Collective(a) PROVE Undisturbed'
    <2>1. \A w \in Worker :
             \/ pc'[w] = pc[w]
             \/ Running(w) /\ pc'[w] \notin {"none", "dropped", "setup"}
                /\ (pc'[w] = "load" => pc[w] = "setup")
        BY <1>3 DEF Collective, SetupDistributed, TrainEpoch, Running, Alive
    <2> QED
        BY <1>1, <1>3, <2>1 DEF Collective, SetupDistributed, TrainEpoch
<1>4. CASE Launch
    <2>1. /\ launched \in Nat /\ launched' = launched + 1
          /\ 1..launched' \subseteq 1..MaxAttempts
        BY <1>4 DEF Launch, TypeOK
    <2>2. \A w \in Worker : IF w[1] = launched' THEN pc'[w] \in {"setup", "dropped"}
                                               ELSE pc'[w] = pc[w]
        BY <1>4 DEF Launch
    <2>3. met' \subseteq 1..launched'
        BY <1>4, <2>1 DEF Launch, Undisturbed
    <2>4. \A w \in Worker : pc'[w] = "none" <=> w[1] > launched'
        BY <2>1, <2>2 DEF Undisturbed
    <2>5. ASSUME NEW a \in 1..launched', a \notin met', Loading(a)',
                 NEW w \in Worker, w[1] # a
          PROVE  ~Running(w)'
        <3>1. CASE a = launched'
            <4>1. ~Running(w)
                BY <1>4, <2>5, <3>1 DEF Launch
            <4> QED
                BY <2>2, <2>5, <3>1, <4>1 DEF Running
        <3>2. CASE a # launched'
            <4>1. a \in 1..launched /\ a \in 1..MaxAttempts
                BY <2>1, <3>2
            <4>2. ~Loading(a)
                BY <1>4, <2>5, <4>1 DEF Launch
            <4>3. \A r \in Ranks : pc'[<<a, r>>] = pc[<<a, r>>]
                BY <2>2, <3>2, <4>1
            <4> QED
                BY <2>5, <4>2, <4>3 DEF Loading
        <3> QED
            BY <3>1, <3>2
    <2> QED
        BY <2>3, <2>4, <2>5 DEF Undisturbed
<1>5. CASE UNCHANGED vars
    BY <1>1, <1>5 DEF vars
<1> QED
    BY <1>2, <1>3, <1>4, <1>5 DEF Next

\* A replica of unmixed gradients is known by its length.
LEMMA UnmixedIsStraight ==
  ASSUME TypeOK, split = {}, NEW w \in Worker, NEW n \in Int, TrainedOver(weights[w], n)
  PROVE  weights[w] = Straight(n)
<1>1. /\ DOMAIN weights[w] = 1..n
      /\ \A i \in 1..n : weights[w][i] = i - 1
    BY DEF TrainedOver
<1>2. weights[w] \in Seq(Nat \cup {Mixed})
    BY DEF TypeOK
<1>3. PICK k \in Nat : weights[w] \in [1..k -> Nat \cup {Mixed}]
    BY <1>2, SeqDef
<1>4. weights[w] = [i \in 1..n |-> weights[w][i]]
    BY <1>1, <1>3
<1> QED
    BY <1>1, <1>4 DEF Straight

\* A rank that has failed is dead for good, and one that has gone past the load
\* keeps the epochs behind it.
LEMMA OutOfStepKeeps ==
  ASSUME OutOfStep, UNCHANGED split,
         \A w \in Worker :
            /\ pc[w] = "failed" => pc'[w] = "failed"
            /\ pc[w] \notin {"none", "dropped", "setup", "load"} =>
                  \/ pc'[w] = "failed"
                  \/ pc'[w] \notin {"none", "dropped", "setup", "load"} /\ Trained(w)' = Trained(w)
  PROVE  OutOfStep'
<1> SUFFICES ASSUME NEW a \in 1..MaxAttempts, split = {a},
                    \A r \in Ranks : pc'[<<a, r>>] # "failed"
             PROVE  /\ \A r \in Ranks : pc'[<<a, r>>] \notin {"none", "dropped", "setup", "load"}
                    /\ \E r, s \in Ranks : Trained(<<a, r>>)' # Trained(<<a, s>>)'
    BY DEF OutOfStep
<1>1. \A r \in Ranks : pc[<<a, r>>] # "failed"
    BY Names
<1>2. /\ \A r \in Ranks : pc[<<a, r>>] \notin {"none", "dropped", "setup", "load"}
      /\ \E r, s \in Ranks : Trained(<<a, r>>) # Trained(<<a, s>>)
    BY <1>1 DEF OutOfStep
<1> QED
    BY <1>2, Names

LEMMA OutOfStepStep ==
  ASSUME TypeOK, Counted, Undisturbed, OutOfStep, [Next]_vars
  PROVE  OutOfStep'
<1> USE Names
<1>1. ASSUME NEW w \in Worker,
             \/ pc'[w] = "failed"
             \/ pc[w] = "load"
             \/ pc[w] \in {"end", "saving", "final", "closing"} /\ Trained(w)' = Trained(w)
             , WorkerDies(w) \/ WorkerStep(w) \/ SaveGoesOn(w)
      PROVE  OutOfStep'
    <2>1. Aside(w) /\ Running(w) /\ pc'[w] \notin {"none", "dropped", "setup", "load"}
        BY <1>1, OwnSteps
    <2> QED
        BY <1>1, <2>1, OutOfStepKeeps DEF Aside, Running, Alive, Trained
<1>2. ASSUME NEW w \in Worker, WorkerDies(w) \/ PeerLost(w) PROVE OutOfStep'
    <2>1. pc'[w] = "failed"
        BY <1>2 DEF WorkerDies, PeerLost, Fails, TypeOK
    <2> QED
        BY <1>1, <1>2, <2>1 DEF WorkerStep
<1>3. ASSUME NEW w \in Worker, LoadCheckpoint(w) PROVE OutOfStep'
    BY <1>1, <1>3 DEF LoadCheckpoint, WorkerStep
<1>4. ASSUME NEW w \in Worker, EpochEnds(w) \/ SaveEnds(w) PROVE OutOfStep'
    <2>1. Trained(w)' = Trained(w) /\ pc[w] \in {"end", "saving"}
        BY <1>4 DEF EpochEnds, SaveEnds, NextEpoch, AtEpoch, Trained, TypeOK
    <2> QED
        BY <1>1, <1>4, <2>1 DEF WorkerStep, Save
<1>5. ASSUME NEW w \in Worker,
             \/ SaveBegins(w) \/ SaveGoesOn(w)
             \/ FinalSaveBegins(w) \/ FinalSaveEnds(w) \/ Exits(w)
      PROVE  OutOfStep'
    <2>1. Trained(w)' = Trained(w) /\ pc[w] \in {"end", "saving", "final", "closing"}
        BY <1>5 DEF SaveBegins, SaveGoesOn, FinalSaveBegins, FinalSaveEnds, Exits, Trained, TypeOK
    <2> QED
        BY <1>1, <1>5, <2>1 DEF WorkerStep, Save
<1>6. CASE Launch
    <2>1. \A w \in Worker :
             /\ epoch'[w] = epoch[w]
             /\ pc'[w] = pc[w] \/ (pc[w] = "none" /\ pc'[w] \in {"setup", "dropped"})
        BY <1>6 DEF Launch, Undisturbed, TypeOK
    <2> QED
        BY <1>6, <2>1, OutOfStepKeeps DEF Launch, Trained
<1>7. ASSUME NEW a \in 1..MaxAttempts, SetupDistributed(a) PROVE OutOfStep'
    <2>1. \A w \in Worker :
             /\ epoch'[w] = epoch[w]
             /\ pc'[w] = pc[w] \/ (pc[w] = "setup" /\ pc'[w] = "load")
        BY <1>7 DEF SetupDistributed, TypeOK
    <2> QED
        BY <1>7, <2>1, OutOfStepKeeps DEF SetupDistributed, Trained
<1>8. ASSUME NEW a \in 1..MaxAttempts, TrainEpoch(a) PROVE OutOfStep'
    <2>1. \A w \in Worker :
             IF w[1] = a THEN pc[w] = "epoch" /\ pc'[w] = "end" /\ epoch'[w] = epoch[w]
                         ELSE pc'[w] = pc[w] /\ epoch'[w] = epoch[w]
        BY <1>8 DEF TrainEpoch, TypeOK
    <2>2. \A w \in Worker : Trained(w)' = IF w[1] = a THEN Trained(w) + 1 ELSE Trained(w)
        BY <2>1 DEF Trained
    <2>3. \A w \in Worker : Trained(w) \in Nat
        BY Counters DEF Trained
    <2>4. ASSUME NEW b \in 1..MaxAttempts, split' = {b}
          PROVE  \/ \E r \in Ranks : pc'[<<b, r>>] = "failed"
                 \/ /\ \A r \in Ranks : pc'[<<b, r>>] \notin {"none", "dropped", "setup", "load"}
                    /\ \E r, s \in Ranks : Trained(<<b, r>>)' # Trained(<<b, s>>)'
        <3>1. CASE split = {b}
            <4>1. \/ \E r \in Ranks : pc[<<b, r>>] = "failed"
                  \/ /\ \A r \in Ranks : pc[<<b, r>>] \notin {"none", "dropped", "setup", "load"}
                     /\ \E r, s \in Ranks : Trained(<<b, r>>) # Trained(<<b, s>>)
                BY <3>1 DEF OutOfStep
            <4>2. CASE b = a
                <5>1. PICK r \in Ranks, s \in Ranks : Trained(<<a, r>>) # Trained(<<a, s>>)
                    BY <2>1, <4>1, <4>2
                <5>2. Trained(<<a, r>>)' # Trained(<<a, s>>)'
                    BY <2>2, <2>3, <5>1
                <5> QED
                    BY <2>1, <4>2, <5>2
            <4>3. CASE b # a
                <5>1. \A r \in Ranks : /\ pc'[<<b, r>>] = pc[<<b, r>>]
                                       /\ Trained(<<b, r>>)' = Trained(<<b, r>>)
                    BY <2>1, <2>2, <4>3
                <5> QED
                    BY <4>1, <5>1
            <4> QED
                BY <4>2, <4>3
        <3>2. CASE split # {b}
            <4>1. split = {} /\ b = a /\ ~Alike(a)
                BY <1>8, <2>4, <3>2 DEF TrainEpoch
            <4>2. PICK r \in Ranks, s \in Ranks :
                      \/ epoch[<<a, r>>] # epoch[<<a, s>>]
                      \/ weights[<<a, r>>] # weights[<<a, s>>]
                BY <4>1 DEF Alike
            <4>3. ASSUME NEW w \in Worker, w[1] = a
                  PROVE  weights[w] = Straight(epoch[w])
                <5>1. TrainedOver(weights[w], epoch[w])
                    BY <2>1, <4>3 DEF Counted, Trained
                <5>2. epoch[w] \in Int
                    BY DEF TypeOK
                <5> QED
                    BY <4>1, <5>1, <5>2, UnmixedIsStraight
            <4>4. epoch[<<a, r>>] # epoch[<<a, s>>]
                BY <4>2, <4>3
            <4>5. Trained(<<a, r>>) # Trained(<<a, s>>)
                BY <2>1, <4>4 DEF Trained
            <4>6. Trained(<<a, r>>)' # Trained(<<a, s>>)'
                BY <2>2, <2>3, <4>5
            <4> QED
                BY <2>1, <4>1, <4>6
        <3> QED
            BY <3>1, <3>2
    <2> QED
        BY <2>4 DEF OutOfStep
<1>9. CASE UNCHANGED vars
    BY <1>9, OutOfStepKeeps DEF vars, Trained
<1> QED
    BY <1>2, <1>3, <1>4, <1>5, <1>6, <1>7, <1>8, <1>9
    DEF Next, WorkerStep, Save, Collective

-----------------------------------------------------------------------------
(* Who is ahead of whom. *)

LEMMA NobodyAheadStep ==
  ASSUME TypeOK, Counted, Undisturbed, NobodyAhead, [Next]_vars
  PROVE  NobodyAhead'
<1> USE Names
\* Only the worker that moves can get ahead.
<1>1. ASSUME NEW w \in Worker, Aside(w), UNCHANGED resume,
             pc'[w] \notin {"none", "dropped", "setup", "load"},
             Loading(w[1]) => /\ pc'[w] \notin {"end", "saving"}
                              /\ Done(w)' => Epochs = 0 \/ epoch'[w] = resume + 1
      PROVE  NobodyAhead'
    <2> SUFFICES ASSUME NEW a \in 1..MaxAttempts, Loading(a)', NEW r \in Ranks
                 PROVE  /\ pc'[<<a, r>>] \notin {"end", "saving"}
                        /\ Done(<<a, r>>)' => Epochs = 0 \/ epoch'[<<a, r>>] = resume + 1
        BY <1>1 DEF NobodyAhead
    <2>1. \A s \in Ranks : <<a, s>> # w => /\ pc'[<<a, s>>] = pc[<<a, s>>]
                                          /\ epoch'[<<a, s>>] = epoch[<<a, s>>]
        BY <1>1 DEF Aside
    <2>2. Loading(a)
        BY <1>1, <2>1 DEF Loading
    <2>3. CASE <<a, r>> = w
        BY <1>1, <2>2, <2>3
    <2>4. CASE <<a, r>> # w
        BY <2>1, <2>2, <2>4 DEF NobodyAhead, Done
    <2> QED
        BY <2>3, <2>4
<1>2. ASSUME NEW w \in Worker, WorkerDies(w) \/ WorkerStep(w) \/ SaveGoesOn(w)
      PROVE  /\ Aside(w) /\ UNCHANGED resume
             /\ pc'[w] \notin {"none", "dropped", "setup", "load"}
    BY <1>2, OwnSteps DEF Aside
<1>3. ASSUME NEW w \in Worker, WorkerDies(w) \/ PeerLost(w) PROVE NobodyAhead'
    <2>1. pc'[w] = "failed"
        BY <1>3 DEF WorkerDies, PeerLost, Fails, TypeOK
    <2> QED
        BY <1>1, <1>2, <1>3, <2>1 DEF WorkerStep, Done
<1>4. ASSUME NEW w \in Worker, LoadCheckpoint(w) PROVE NobodyAhead'
    <2>1. \/ pc'[w] = "failed"
          \/ pc'[w] = AtEpoch(0)
          \/ pc'[w] \in {"epoch", "final"} /\ epoch'[w] = resume + 1
        BY <1>4 DEF LoadCheckpoint, Fails, ResumedEpoch, AtEpoch, TypeOK
    <2>2. /\ pc'[w] \notin {"end", "saving"}
          /\ Done(w)' => Epochs = 0 \/ epoch'[w] = resume + 1
        BY <2>1 DEF AtEpoch, Done
    <2> QED
        BY <1>1, <1>2, <1>4, <2>2 DEF WorkerStep
<1>5. ASSUME NEW w \in Worker,
             \/ EpochEnds(w) \/ Save(w) \/ Exits(w) \/ SaveGoesOn(w)
      PROVE  NobodyAhead'
    <2>1. ASSUME pc[w] \in {"end", "saving"} PROVE ~Loading(w[1])
        BY <2>1 DEF NobodyAhead
    <2>2. ASSUME pc[w] \notin {"end", "saving"}
          PROVE  pc[w] \in {"final", "closing"} /\ pc'[w] \in {"closing", "ok"}
                 /\ epoch'[w] = epoch[w]
        BY <1>5, <2>2 DEF EpochEnds, Save, SaveBegins, SaveEnds, FinalSaveBegins,
                          FinalSaveEnds, Exits, SaveGoesOn, TypeOK
    <2>3. Loading(w[1]) => /\ pc'[w] \notin {"end", "saving"}
                           /\ Done(w)' => Epochs = 0 \/ epoch'[w] = resume + 1
        BY <2>1, <2>2 DEF NobodyAhead, Done
    <2> QED
        BY <1>1, <1>2, <1>5, <2>3 DEF WorkerStep
<1>6. CASE Launch
    <2>1. UNCHANGED <<resume, epoch>>
        BY <1>6 DEF Launch
    <2>2. \A w \in Worker : IF w[1] = launched' THEN pc'[w] \in {"setup", "dropped"}
                                               ELSE pc'[w] = pc[w]
        BY <1>6 DEF Launch
    <2> QED
        BY <2>1, <2>2 DEF NobodyAhead, Loading, Done
<1>7. ASSUME NEW b \in 1..MaxAttempts, Collective(b) PROVE NobodyAhead'
    <2>1. /\ UNCHANGED <<resume, epoch>>
          /\ \A w \in Worker : w[1] # b => pc'[w] = pc[w]
          /\ \/ \A r \in Ranks : pc'[<<b, r>>] = "load"
             \/ \A r \in Ranks : pc'[<<b, r>>] = "end"
        BY <1>7 DEF Collective, SetupDistributed, TrainEpoch
    <2>2. ASSUME NEW a \in 1..MaxAttempts, Loading(a)', NEW r \in Ranks
          PROVE  /\ pc'[<<a, r>>] \notin {"end", "saving"}
                 /\ Done(<<a, r>>)' => Epochs = 0 \/ epoch'[<<a, r>>] = resume + 1
        <3>1. CASE a = b
            BY <2>1, <2>2, <3>1 DEF Loading, Done
        <3>2. CASE a # b
            <4>1. \A s \in Ranks : pc'[<<a, s>>] = pc[<<a, s>>]
                BY <2>1, <3>2
            <4> QED
                BY <2>1, <2>2, <4>1 DEF NobodyAhead, Loading, Done
        <3> QED
            BY <3>1, <3>2
    <2> QED
        BY <2>1, <2>2 DEF NobodyAhead
<1>8. CASE UNCHANGED vars
    BY <1>8 DEF vars, NobodyAhead, Loading, Done
<1> QED
    BY <1>3, <1>4, <1>5, <1>6, <1>7, <1>8 DEF Next, WorkerStep, Save

\* Nobody has found a checkpoint past the last epoch: so it is where a rank of the
\* attempt trains.
LEMMA NoneIsPast ==
  ASSUME PastTheLast, Epochs > 0, NEW w \in Worker, pc[w] \in {"end", "saving"},
         NEW r \in Ranks
  PROVE  ~(epoch[<<w[1], r>>] > Epochs)
BY Names DEF PastTheLast

LEMMA PastTheLastStep ==
  ASSUME TypeOK, Counted, Undisturbed, NobodyAhead, PastTheLast, [Next]_vars
  PROVE  PastTheLast'
<1> USE Names
<1> DEFINE past(a, r, s) ==
              epoch[<<a, r>>] > Epochs =>
                 /\ pc[<<a, s>>] \notin {"end", "saving"}
                 /\ Done(<<a, s>>) => epoch[<<a, s>>] > Epochs
<1> SUFFICES ASSUME Epochs > 0, NEW a \in 1..MaxAttempts, NEW r \in Ranks, NEW s \in Ranks
             PROVE  past(a, r, s)'
    BY DEF PastTheLast
<1>1. past(a, r, s)
    BY DEF PastTheLast
<1> DEFINE x == <<a, r>>
           y == <<a, s>>
<1>2. x \in Worker /\ y \in Worker
    OBVIOUS
<1>3. ASSUME epoch'[x] = epoch[x], epoch'[y] = epoch[y],
             \/ pc'[y] = pc[y]
             \/ pc'[y] \notin {"end", "saving"} /\ (Done(y)' => Done(y))
      PROVE  past(a, r, s)'
    BY <1>1, <1>3 DEF Done
<1>4. ASSUME NEW w \in Worker, w \notin {x, y}, Aside(w) PROVE past(a, r, s)'
    BY <1>2, <1>3, <1>4 DEF Aside
<1>5. ASSUME NEW w \in Worker, Aside(w), pc'[w] = "failed", epoch'[w] = 0
      PROVE  past(a, r, s)'
    <2>1. CASE w = x
        BY <1>5, <2>1
    <2>2. CASE w # x
        <3>1. epoch'[x] = epoch[x] /\ ~Done(w)' /\ pc'[w] \notin {"end", "saving"}
            BY <1>2, <1>5, <2>2 DEF Aside, Done
        <3>2. CASE w = y
            BY <3>1, <3>2
        <3>3. CASE w # y
            BY <1>4, <1>5, <2>2, <3>3
        <3> QED
            BY <3>2, <3>3
    <2> QED
        BY <2>1, <2>2
<1>6. ASSUME NEW w \in Worker, WorkerDies(w) \/ PeerLost(w) PROVE past(a, r, s)'
    <2>1. pc'[w] = "failed" /\ epoch'[w] = 0
        BY <1>6 DEF WorkerDies, PeerLost, Fails, TypeOK
    <2> QED
        BY <1>5, <1>6, <2>1, OwnSteps DEF WorkerStep
<1>7. ASSUME NEW w \in Worker, LoadCheckpoint(w) PROVE past(a, r, s)'
    <2>1. Aside(w) /\ pc[w] = "load" /\ epoch[w] = 0 /\ resume + 1 \in Nat
        BY <1>7, OwnSteps DEF WorkerStep, LoadCheckpoint, Counted, TypeOK
    <2>2. \/ pc'[w] = "failed" /\ epoch'[w] = 0
          \/ pc'[w] = "epoch" /\ epoch'[w] = 0
          \/ pc'[w] = AtEpoch(resume + 1) /\ epoch'[w] = resume + 1
        BY <1>7, <2>1 DEF LoadCheckpoint, Fails, ResumedEpoch, AtEpoch, TypeOK
    <2>3. CASE w \notin {x, y}
        BY <1>4, <2>1, <2>3
    <2>4. CASE w \in {x, y}
        <3> SUFFICES ASSUME epoch'[x] > Epochs
                     PROVE  /\ pc'[y] \notin {"end", "saving"}
                            /\ Done(y)' => epoch'[y] > Epochs
            OBVIOUS
        <3>1. resume + 1 > Epochs
            <4>1. CASE w = x
                BY <2>2, <4>1
            <4>2. CASE w # x
                <5>1. epoch[x] > Epochs
                    BY <1>2, <2>1, <4>2 DEF Aside
                <5>2. epoch[x] \in 0..Epochs \cup {resume + 1}
                    BY <1>2 DEF TypeOK
                <5> QED
                    BY <5>1, <5>2
            <4> QED
                BY <4>1, <4>2
        <3>2. CASE w = y
            BY <2>2, <3>1, <3>2 DEF AtEpoch, Done
        <3>3. CASE w # y
            <4>1. pc'[y] = pc[y] /\ epoch'[y] = epoch[y]
                BY <1>2, <2>1, <3>3 DEF Aside
            <4>2. Loading(a)
                BY <2>1, <2>4 DEF Loading
            <4>3. pc[y] \notin {"end", "saving"} /\ (Done(y) => epoch[y] = resume + 1)
                BY <4>2 DEF NobodyAhead
            <4> QED
                BY <3>1, <4>1, <4>3 DEF Done
        <3> QED
            BY <3>2, <3>3
    <2> QED
        BY <2>3, <2>4
<1>8. ASSUME NEW w \in Worker, EpochEnds(w) \/ SaveBegins(w) \/ SaveEnds(w)
      PROVE  past(a, r, s)'
    <2>1. Aside(w)
        BY <1>8, OwnSteps DEF WorkerStep, Save
    <2>2. /\ pc[w] \in {"end", "saving"}
          /\ epoch'[w] \in {epoch[w], epoch[w] + 1}
        BY <1>8 DEF EpochEnds, SaveBegins, SaveEnds, NextEpoch, TypeOK
    <2>3. epoch[w] \in Int /\ epoch[w] < Epochs
        BY <2>2 DEF Counted, TypeOK
    <2>4. CASE w \notin {x, y}
        BY <1>4, <2>1, <2>4
    <2>5. CASE w \in {x, y}
        <3>1. ~(epoch[x] > Epochs)
            BY <1>2, <2>2, <2>5, NoneIsPast
        <3>2. ~(epoch'[x] > Epochs)
            BY <1>2, <2>1, <2>2, <2>3, <3>1 DEF Aside
        <3> QED
            BY <3>2
    <2> QED
        BY <2>4, <2>5
<1>9. ASSUME NEW w \in Worker,
             SaveGoesOn(w) \/ FinalSaveBegins(w) \/ FinalSaveEnds(w) \/ Exits(w)
      PROVE  past(a, r, s)'
    <2>1. Aside(w)
        BY <1>9, OwnSteps DEF WorkerStep, Save
    <2>2. /\ epoch' = epoch
          /\ pc'[w] = pc[w] \/ (Done(w) /\ pc'[w] \in {"closing", "ok"})
        BY <1>9 DEF SaveGoesOn, FinalSaveBegins, FinalSaveEnds, Exits, TypeOK, Done
    <2>3. pc'[y] = pc[y] \/ (Done(y) /\ pc'[y] \in {"closing", "ok"})
        BY <1>2, <2>1, <2>2 DEF Aside
    <2> QED
        BY <1>3, <2>2, <2>3
<1>10. CASE Launch
    <2>1. UNCHANGED epoch
        BY <1>10 DEF Launch
    <2>2. \A w \in Worker : pc'[w] = pc[w] \/ pc'[w] \in {"setup", "dropped"}
        BY <1>10 DEF Launch
    <2> QED
        BY <1>2, <1>3, <2>1, <2>2 DEF Done
<1>11. ASSUME NEW b \in 1..MaxAttempts, SetupDistributed(b) PROVE past(a, r, s)'
    <2>1. UNCHANGED epoch /\ \A w \in Worker : pc'[w] = pc[w] \/ pc'[w] = "load"
        BY <1>11 DEF SetupDistributed
    <2> QED
        BY <1>2, <1>3, <2>1 DEF Done
<1>12. ASSUME NEW b \in 1..MaxAttempts, TrainEpoch(b) PROVE past(a, r, s)'
    <2>1. UNCHANGED epoch /\ \A w \in Worker : w[1] # b => pc'[w] = pc[w]
        BY <1>12 DEF TrainEpoch
    <2>2. CASE a = b
        <3>1. epoch[x] < Epochs /\ epoch[x] \in Int
            BY <1>2, <1>12, <2>2 DEF TrainEpoch, Counted, TypeOK
        <3> QED
            BY <2>1, <3>1
    <2>3. CASE a # b
        BY <1>2, <1>3, <2>1, <2>3
    <2> QED
        BY <2>2, <2>3
<1>13. CASE UNCHANGED vars
    BY <1>3, <1>13 DEF vars, Done
<1> QED
    BY <1>6, <1>7, <1>8, <1>9, <1>10, <1>11, <1>12, <1>13
    DEF Next, WorkerStep, Save, Collective

-----------------------------------------------------------------------------
(* Ranks on one storage. *)

\* Together says this of each attempt that met no other one.
Alone == (1..launched) \ met
TogetherOf(a) ==
    OneStorage(a) /\ Complete(a) => IF Loading(a) THEN Unwritten(a) ELSE InStep(a)

\* A step of a worker matters to its own attempt only: any other that met none has
\* loaded, and no longer looks at the files.
LEMMA OwnAttempt ==
  ASSUME TypeOK, Undisturbed, Together, NEW w \in Worker, Running(w), Aside(w),
         w[1] \in Alone => TogetherOf(w[1])'
  PROVE  Together'
<1> USE Names DEF Alone
<1> SUFFICES ASSUME NEW a \in Alone, a # w[1] PROVE TogetherOf(a)'
    BY DEF Together, TogetherOf, Aside
<1>1. ~Loading(a) /\ a \in 1..MaxAttempts
    BY DEF Undisturbed, TypeOK
<1>2. \A r \in Ranks : /\ <<a, r>> \in Worker \ {w}
                       /\ pc'[<<a, r>>] = pc[<<a, r>>]
                       /\ epoch'[<<a, r>>] = epoch[<<a, r>>]
                       /\ weights'[<<a, r>>] = weights[<<a, r>>]
                       /\ host'[<<a, r>>] = host[<<a, r>>]
    BY <1>1 DEF Aside
<1>3. /\ OneStorage(a)' => OneStorage(a)
      /\ Complete(a)' => Complete(a)
      /\ ~Loading(a)'
      /\ InStep(a) => InStep(a)'
    BY <1>1, <1>2 DEF OneStorage, Complete, Loading, InStep, Training, Trained
<1> QED
    BY <1>1, <1>3 DEF Together, TogetherOf

\* A step of a worker that fails it, or keeps the epochs behind it and begins no
\* load, keeps ranks in step.
LEMMA KeepsStep ==
  ASSUME NEW a \in 1..MaxAttempts, TogetherOf(a), ~Loading(a), UNCHANGED host,
         \A r \in Ranks :
            \/ pc'[<<a, r>>] = "failed"
            \/ /\ pc'[<<a, r>>] \notin {"setup", "load"}
               /\ pc[<<a, r>>] \in {"dropped", "failed"} => pc'[<<a, r>>] = pc[<<a, r>>]
               /\ Training(<<a, r>>)' =>
                     /\ Training(<<a, r>>) /\ weights'[<<a, r>>] = weights[<<a, r>>]
                     /\ Trained(<<a, r>>)' = Trained(<<a, r>>)
  PROVE  TogetherOf(a)'
<1> SUFFICES ASSUME OneStorage(a), Complete(a)' PROVE ~Loading(a)' /\ InStep(a)'
    BY DEF TogetherOf, OneStorage
<1>1. ~Loading(a)'
    BY DEF Loading
<1>2. InStep(a)
    BY DEF TogetherOf, Complete
<1> QED
    BY <1>1, <1>2 DEF InStep, Complete

LEMMA TogetherStep ==
  ASSUME TypeOK, Counted, Undisturbed, NobodyAhead, Together, [Next]_vars
  PROVE  Together'
<1> USE Names
<1>1. Alone \subseteq 1..MaxAttempts /\ \A a \in Alone : TogetherOf(a)
    BY DEF TypeOK, Together, TogetherOf, Alone
<1>2. ASSUME NEW w \in Worker, WorkerDies(w) \/ PeerLost(w) PROVE Together'
    <2>1. Aside(w) /\ Running(w) /\ pc'[w] = "failed"
        BY <1>2, OwnSteps DEF WorkerStep, WorkerDies, PeerLost, Fails, TypeOK
    <2>2. TogetherOf(w[1])'
        BY <2>1 DEF TogetherOf, Complete
    <2> QED
        BY <2>1, <2>2, OwnAttempt
<1>3. ASSUME NEW w \in Worker,
             \/ EpochEnds(w) \/ SaveBegins(w) \/ SaveEnds(w)
             \/ SaveGoesOn(w) /\ pc[w] = "saving"
      PROVE  Together'
    <2>1. Aside(w) /\ Running(w) /\ pc'[w] \notin {"none", "dropped", "setup", "load"}
        BY <1>3, OwnSteps DEF WorkerStep, Save
    <2>2. /\ pc[w] \in {"end", "saving"} /\ pc'[w] # "failed" /\ UNCHANGED weights
          /\ Trained(w)' = Trained(w)
        BY <1>3 DEF EpochEnds, SaveBegins, SaveEnds, SaveGoesOn, NextEpoch, AtEpoch, Trained,
                    TypeOK
    <2>3. ASSUME w[1] \in Alone PROVE TogetherOf(w[1])'
        <3> DEFINE a == w[1]
        <3>1. ~Loading(a)
            BY <2>2 DEF NobodyAhead
        <3>2. \A r \in Ranks : pc[<<a, r>>] \notin {"setup", "load"}
            BY <3>1 DEF Loading
        <3> QED
            BY <1>1, <2>1, <2>2, <2>3, <3>1, <3>2, KeepsStep DEF Aside, Training, Trained
    <2> QED
        BY <2>1, <2>3, OwnAttempt
<1>4. ASSUME NEW w \in Worker,
             \/ FinalSaveBegins(w) \/ FinalSaveEnds(w) \/ Exits(w)
             \/ SaveGoesOn(w) /\ pc[w] = "closing"
      PROVE  Together'
    <2>1. Aside(w) /\ Running(w) /\ pc'[w] \notin {"none", "dropped", "setup", "load"}
        BY <1>4, OwnSteps DEF WorkerStep, Save
    <2>2. /\ pc[w] \in {"final", "closing"} /\ pc'[w] \in {"closing", "ok"}
          /\ UNCHANGED weights
        BY <1>4 DEF FinalSaveBegins, FinalSaveEnds, Exits, SaveGoesOn, TypeOK
    <2>3. \A d \in Dirs, e \in Label :
             file'[<<d, e>>] = file[<<d, e>>] \/ file'[<<d, e>>].state # "absent"
        <3>1. \/ UNCHANGED file
              \/ \E content : /\ content.state # "absent"
                              /\ file' = [file EXCEPT ![<<Dir[host[w]], Epochs - 1>>] = content]
            BY <1>4 DEF FinalSaveBegins, FinalSaveEnds, Exits, SaveGoesOn, Open, Close, Whole,
                        Partial
        <3> QED
            BY <3>1 DEF TypeOK
    <2>4. ASSUME w[1] \in Alone PROVE TogetherOf(w[1])'
        <3> DEFINE a == w[1]
        <3> SUFFICES ASSUME OneStorage(a)', Complete(a)' PROVE TogetherOf(a)'
            BY DEF TogetherOf
        <3>1. OneStorage(a) /\ Complete(a)
            BY <2>1, <2>2 DEF OneStorage, Complete, Aside
        <3>2. CASE ~Loading(a)
            <4>1. \A r \in Ranks : pc[<<a, r>>] \notin {"setup", "load"}
                BY <3>2 DEF Loading
            <4> QED
                BY <1>1, <2>1, <2>2, <2>4, <3>1, <3>2, <4>1, KeepsStep
                DEF Aside, Training, Trained, Complete
        <3>3. CASE Loading(a)
            <4>1. Unwritten(a)
                BY <1>1, <2>4, <3>1, <3>3 DEF TogetherOf
            <4>2. Done(w) /\ a \in 1..MaxAttempts /\ resume \in Label /\ resume + 1 \in Nat
                BY <2>2 DEF Done, TypeOK
            <4>3. Epochs > 0 => /\ resume + 1 >= Epochs
                                /\ file[<<Dir[host[w]], resume>>].state # "absent"
                BY <4>1, <4>2 DEF Unwritten
            <4>4. \A r \in Ranks : Dir[host[<<a, r>>]] = Dir[host[w]]
                BY <3>1 DEF OneStorage
            <4>5. ASSUME NEW r \in Ranks, pc[<<a, r>>] = "epoch" PROVE FALSE
                <5>1. <<a, r>> \in Worker
                    OBVIOUS
                <5>2. epoch[<<a, r>>] < Epochs /\ epoch[<<a, r>>] \in Nat
                    BY <4>2, <4>5, <5>1 DEF Counted, TypeOK
                <5>3. Epochs > 0 /\ Loaded(<<a, r>>)
                    <6>1. Epochs > 0
                        BY <5>2, Names
                    <6>2. Loaded(<<a, r>>)
                        BY <4>1, <4>5 DEF Unwritten
                    <6> QED
                        BY <6>1, <6>2
                <5>4. epoch[<<a, r>>] = resume + 1
                    BY <4>3, <4>4, <5>3 DEF Loaded
                <5> QED
                    BY <4>2, <4>3, <5>2, <5>3, <5>4
            <4>6. Dir[host[w]] \in Dirs /\ host' = host /\ resume' = resume
                BY <2>1 DEF Aside, TypeOK
            <4>7. Epochs > 0 => file'[<<Dir[host[w]], resume>>].state # "absent"
                BY <2>3, <4>2, <4>3, <4>6
            <4>8. \A r \in Ranks : /\ pc'[<<a, r>>] \notin {"end", "saving", "epoch"}
                                   /\ Done(<<a, r>>)' => Done(<<a, r>>)
                BY <2>1, <2>2, <4>1, <4>5 DEF Unwritten, Aside, Done
            <4>9. Unwritten(a)'
                BY <4>3, <4>4, <4>6, <4>7, <4>8 DEF Unwritten
            <4>10. Loading(a)'
                BY <2>1, <2>2, <3>3 DEF Loading, Aside
            <4> QED
                BY <4>9, <4>10 DEF TogetherOf
        <3> QED
            BY <3>2, <3>3
    <2> QED
        BY <2>1, <2>4, OwnAttempt
<1>5. ASSUME NEW w \in Worker, LoadCheckpoint(w) PROVE Together'
    <2>1. /\ Aside(w) /\ Running(w) /\ pc'[w] \notin {"none", "dropped", "setup", "load"}
          /\ pc[w] = "load" /\ UNCHANGED file
        BY <1>5, OwnSteps DEF WorkerStep, LoadCheckpoint
    <2>2. ASSUME w[1] \in Alone PROVE TogetherOf(w[1])'
        <3> DEFINE a == w[1]
                   f == file[<<Dir[host[w]], resume>>]
        <3> SUFFICES ASSUME OneStorage(a)', Complete(a)' PROVE TogetherOf(a)'
            BY DEF TogetherOf
        <3>1. OneStorage(a) /\ Complete(a) /\ pc'[w] # "failed" /\ a \in 1..MaxAttempts
            BY <2>1 DEF OneStorage, Complete, Aside
        <3>2. Loading(a)
            BY <2>1 DEF Loading
        <3>3. Unwritten(a)
            BY <1>1, <2>2, <3>1, <3>2 DEF TogetherOf
        <3>4. \/ pc'[w] = "epoch" /\ Loaded(w)'
              \/ /\ pc'[w] = "final"
                 /\ Epochs > 0 => resume + 1 >= Epochs /\ f.state # "absent"
            <4>1. pc'[w] # "failed" /\ resume + 1 \in Nat
                BY <3>1 DEF TypeOK
            <4>2. CASE f.state = "absent"
                <5>1. /\ pc'[w] = IF 0 < Epochs THEN "epoch" ELSE "final"
                      /\ UNCHANGED <<epoch, weights>>
                    BY <1>5, <4>2 DEF LoadCheckpoint, Loads, AtEpoch, TypeOK
                <5>2. TrainedOver(weights[w], 0) /\ epoch[w] = 0
                    BY <2>1 DEF Counted, Trained
                <5>3. weights[w] = <<>>
                    <6>1. weights[w] \in Seq(Nat \cup {Mixed})
                        BY DEF TypeOK
                    <6>2. DOMAIN weights[w] = 1..0
                        BY <5>2 DEF TrainedOver
                    <6>3. Len(weights[w]) \in Nat /\ DOMAIN weights[w] = 1..Len(weights[w])
                        BY <6>1, LenProperties
                    <6>4. Len(weights[w]) \notin Nat \ {0}
                        <7>1. 1 \notin 1..Len(weights[w])
                            BY <6>2, <6>3, 1 \notin 1..0
                        <7> QED
                            BY <6>3, <7>1
                    <6> QED
                        BY <6>1, <6>4, EmptySeq
                <5> QED
                    BY <2>1, <4>2, <5>1, <5>2, <5>3 DEF Loaded, Aside
            <4>3. CASE f.state = "whole"
                <5>1. /\ weights'[w] = f.weights /\ epoch'[w] = resume + 1
                      /\ pc'[w] = AtEpoch(resume + 1)
                    BY <1>5, <4>3 DEF LoadCheckpoint, Loads, ResumedEpoch, TypeOK
                <5>2. Loaded(w)'
                    BY <2>1, <4>3, <5>1 DEF Loaded, Aside
                <5> QED
                    BY <4>1, <4>3, <5>1, <5>2 DEF AtEpoch
            <4>4. CASE f.state = "partial"
                BY <1>5, <4>1, <4>4 DEF LoadCheckpoint, Loads, Fails, TypeOK
            <4> QED
                BY <1>5, <4>2, <4>3, <4>4 DEF LoadCheckpoint, Loads
        <3>5. Unwritten(a)'
            <4>1. ASSUME NEW r \in Ranks, <<a, r>> # w
                  PROVE  /\ pc'[<<a, r>>] = pc[<<a, r>>]
                         /\ Loaded(<<a, r>>) => Loaded(<<a, r>>)'
                BY <2>1, <4>1 DEF Aside, Loaded
            <4>2. UNCHANGED <<host, file, resume>>
                BY <2>1 DEF Aside
            <4>3. ASSUME NEW r \in Ranks
                  PROVE  /\ pc'[<<a, r>>] \notin {"end", "saving"}
                         /\ pc'[<<a, r>>] = "epoch" => Loaded(<<a, r>>)'
                         /\ Done(<<a, r>>)' /\ Epochs > 0 =>
                               /\ resume + 1 >= Epochs
                               /\ file'[<<Dir[host'[<<a, r>>]], resume>>].state # "absent"
                <5>1. CASE <<a, r>> = w
                    BY <3>4, <4>2, <5>1 DEF Done
                <5>2. CASE <<a, r>> # w
                    BY <3>3, <4>1, <4>2, <5>2 DEF Unwritten, Done
                <5> QED
                    BY <5>1, <5>2
            <4> QED
                BY <4>2, <4>3 DEF Unwritten
        <3>6. InStep(a)'
            <4>1. ASSUME NEW r \in Ranks, Training(<<a, r>>)'
                  PROVE  /\ pc'[<<a, r>>] = "epoch" /\ Loaded(<<a, r>>)'
                         /\ Dir[host'[<<a, r>>]] = Dir[host[w]]
                <5>1. pc'[<<a, r>>] \in {"epoch", "end", "saving"}
                    BY <4>1 DEF Training
                <5>2. pc'[<<a, r>>] = "epoch" /\ Loaded(<<a, r>>)'
                    BY <3>5, <5>1 DEF Unwritten
                <5>3. Dir[host'[<<a, r>>]] = Dir[host[w]]
                    BY <2>1, <3>1 DEF OneStorage, Aside
                <5> QED
                    BY <5>2, <5>3
            <4>2. ASSUME NEW r \in Ranks, NEW s \in Ranks,
                         Training(<<a, r>>)', Training(<<a, s>>)'
                  PROVE  /\ Trained(<<a, r>>)' = Trained(<<a, s>>)'
                         /\ weights'[<<a, r>>] = weights'[<<a, s>>]
                <5>1. /\ pc'[<<a, r>>] = "epoch" /\ pc'[<<a, s>>] = "epoch"
                      /\ Loaded(<<a, r>>)' /\ Loaded(<<a, s>>)'
                      /\ Dir[host'[<<a, r>>]] = Dir[host'[<<a, s>>]]
                    BY <4>1, <4>2
                <5>2. /\ epoch'[<<a, r>>] = epoch'[<<a, s>>]
                      /\ weights'[<<a, r>>] = weights'[<<a, s>>]
                    BY <5>1 DEF Loaded
                <5> QED
                    BY <5>1, <5>2 DEF Trained
            <4> QED
                BY <4>2 DEF InStep
        <3> QED
            BY <3>5, <3>6 DEF TogetherOf
    <2> QED
        BY <2>1, <2>2, OwnAttempt
<1>6. CASE Launch
    <2>1. /\ launched \in 0..MaxAttempts /\ launched' = launched + 1
          /\ launched' \in 1..MaxAttempts
          /\ UNCHANGED <<epoch, weights>>
        BY <1>6 DEF Launch, TypeOK
    <2>2. \A w \in Worker : IF w[1] = launched'
                            THEN pc'[w] \in {"setup", "dropped"}
                            ELSE pc'[w] = pc[w] /\ host'[w] = host[w]
        BY <1>6 DEF Launch, TypeOK
    <2>3. ASSUME NEW a \in Alone', OneStorage(a)', Complete(a)'
          PROVE  IF Loading(a)' THEN Unwritten(a)' ELSE InStep(a)'
        <3>1. CASE a = launched'
            <4>1. \A r \in Ranks : pc'[<<a, r>>] = "setup"
                BY <2>1, <2>2, <2>3, <3>1 DEF Complete
            <4> QED
                BY <4>1 DEF Loading, Unwritten, Done
        <3>2. CASE a # launched'
            <4>1. a \in 1..launched /\ a \in 1..MaxAttempts /\ a \notin met'
                BY <2>1, <2>3, <3>2 DEF Alone
            <4>2. ~Loading(a) /\ a \in Alone
                BY <1>6, <4>1 DEF Launch, Alone
            <4>3. \A r \in Ranks : /\ pc'[<<a, r>>] = pc[<<a, r>>]
                                   /\ host'[<<a, r>>] = host[<<a, r>>]
                BY <2>2, <3>2, <4>1
            <4>4. OneStorage(a) /\ Complete(a) /\ ~Loading(a)'
                BY <2>3, <4>2, <4>3 DEF OneStorage, Complete, Loading
            <4>5. InStep(a)
                BY <1>1, <4>2, <4>4 DEF TogetherOf
            <4> QED
                BY <2>1, <4>3, <4>4, <4>5 DEF InStep, Training, Trained
        <3> QED
            BY <3>1, <3>2
    <2> QED
        BY <2>3 DEF Together, Alone
<1>7. ASSUME NEW b \in 1..MaxAttempts, Collective(b),
             b \in Alone => TogetherOf(b)'
      PROVE  Together'
    <2>1. /\ UNCHANGED <<resume, launched, met, host, epoch, file>>
          /\ \A w \in Worker : w[1] # b => pc'[w] = pc[w] /\ weights'[w] = weights[w]
        BY <1>7 DEF Collective, SetupDistributed, TrainEpoch, TypeOK
    <2>2. ASSUME NEW a \in Alone, a # b PROVE TogetherOf(a)'
        <3>1. \A r \in Ranks : /\ pc'[<<a, r>>] = pc[<<a, r>>]
                               /\ weights'[<<a, r>>] = weights[<<a, r>>]
                               /\ epoch'[<<a, r>>] = epoch[<<a, r>>]
                               /\ host'[<<a, r>>] = host[<<a, r>>]
            BY <1>1, <2>1, <2>2
        <3>2. /\ OneStorage(a)' => OneStorage(a)
              /\ Complete(a)' => Complete(a)
              /\ Loading(a)' <=> Loading(a)
              /\ Unwritten(a) => Unwritten(a)'
            <4>1. \A r \in Ranks : Loaded(<<a, r>>) => Loaded(<<a, r>>)'
                BY <2>1, <3>1 DEF Loaded
            <4>2. Unwritten(a) => Unwritten(a)'
                BY <2>1, <3>1, <4>1 DEF Unwritten, Done
            <4>3. (OneStorage(a)' => OneStorage(a)) /\ (Complete(a)' => Complete(a))
                BY <3>1 DEF OneStorage, Complete
            <4>4. Loading(a)' <=> Loading(a)
                BY <3>1 DEF Loading
            <4> QED
                BY <4>2, <4>3, <4>4
        <3>3. InStep(a) => InStep(a)'
            BY <3>1 DEF InStep, Training, Trained
        <3> QED
            BY <1>1, <3>1, <3>2, <3>3 DEF TogetherOf
    <2> QED
        BY <1>7, <2>1, <2>2 DEF Together, TogetherOf, Alone
<1>8. ASSUME NEW a \in 1..MaxAttempts, SetupDistributed(a) PROVE Together'
    <2>1. \A r \in Ranks : pc[<<a, r>>] = "setup" /\ pc'[<<a, r>>] = "load"
        BY <1>8 DEF SetupDistributed
    <2>2. TogetherOf(a)'
        BY <2>1 DEF TogetherOf, Loading, Unwritten, Done
    <2> QED
        BY <1>7, <1>8, <2>1, <2>2 DEF Collective
<1>9. ASSUME NEW a \in 1..MaxAttempts, TrainEpoch(a) PROVE Together'
    <2>1. \A r \in Ranks : /\ pc[<<a, r>>] = "epoch" /\ pc'[<<a, r>>] = "end"
                           /\ epoch'[<<a, r>>] = epoch[<<a, r>>]
        BY <1>9 DEF TrainEpoch
    <2>2. ASSUME a \in Alone PROVE TogetherOf(a)'
        <3> SUFFICES ASSUME OneStorage(a)' PROVE ~Loading(a)' /\ InStep(a)'
            BY DEF TogetherOf
        <3>1. OneStorage(a) /\ ~Loading(a) /\ ~Loading(a)'
            BY <1>9, <2>1 DEF TrainEpoch, OneStorage, Loading
        <3>2. InStep(a)
            BY <1>1, <2>1, <2>2, <3>1 DEF TogetherOf, Complete
        <3>3. Alike(a)
            BY <2>1, <3>2 DEF InStep, Alike, Training, Trained
        <3>4. \A r \in Ranks :
                 weights'[<<a, r>>] = Append(weights[<<a, r>>], epoch[<<a, r>>])
            BY <1>9, <3>3 DEF TrainEpoch
        <3>5. InStep(a)'
            <4>1. ASSUME NEW r \in Ranks, NEW s \in Ranks
                  PROVE  /\ Trained(<<a, r>>)' = Trained(<<a, s>>)'
                         /\ weights'[<<a, r>>] = weights'[<<a, s>>]
                <5>1. /\ epoch[<<a, r>>] = epoch[<<a, s>>]
                      /\ weights[<<a, r>>] = weights[<<a, s>>]
                    BY <3>3 DEF Alike
                <5>2. weights'[<<a, r>>] = weights'[<<a, s>>]
                    BY <3>4, <5>1
                <5>3. Trained(<<a, r>>)' = Trained(<<a, s>>)'
                    BY <2>1, <5>1 DEF Trained
                <5> QED
                    BY <5>2, <5>3
            <4> QED
                BY <4>1 DEF InStep
        <3> QED
            BY <3>1, <3>5
    <2> QED
        BY <1>7, <1>9, <2>1, <2>2 DEF Collective
<1>10. CASE UNCHANGED vars
    <2>1. \A a \in Alone : /\ OneStorage(a)' <=> OneStorage(a)
                           /\ Complete(a)' <=> Complete(a)
                           /\ Loading(a)' <=> Loading(a)
                           /\ Unwritten(a)' <=> Unwritten(a)
                           /\ InStep(a)' <=> InStep(a)
        BY <1>10 DEF vars, OneStorage, Complete, Loading, Unwritten, Loaded, Done, InStep,
                     Training, Trained
    <2> QED
        BY <1>1, <1>10, <2>1 DEF vars, Together, TogetherOf, Alone
<1>11. ASSUME NEW w \in Worker, SaveGoesOn(w) PROVE Together'
    BY <1>3, <1>4, <1>11 DEF SaveGoesOn
<1> QED
    BY <1>2, <1>3, <1>4, <1>5, <1>6, <1>8, <1>9, <1>10, <1>11
    DEF Next, WorkerStep, Save, Collective

-----------------------------------------------------------------------------
(* Theorems. *)

\* The inductive invariant.
THEOREM TrainerInvariant == Spec => []Inductive
<1>1. Inductive /\ [Next]_vars => Inductive'
    BY TypeStep, FaithfulStep, CountedStep, UndisturbedStep, NobodyAheadStep, PastTheLastStep,
       TogetherStep, OutOfStepStep
    DEF Inductive
<1> QED
    BY InitInductive, <1>1, PTL DEF Spec

\* The variables keep their types; no counter leaves --epochs (train.py,
\* DDPTrainer.train).
THEOREM TrainerTypes == Spec => []TypeOK
<1>1. Inductive => TypeOK
    BY DEF Inductive
<1> QED
    BY <1>1, TrainerInvariant, PTL

\* A readable checkpoint of save_checkpoint holds the run its name says, through
\* any chain of attempts, deaths, torn and overlapping writes, but for the final
\* one of a job resumed from an epoch past its last, which holds what was loaded.
THEOREM FaithfulCheckpoints == Spec => []CheckpointsFaithful
<1>1. Inductive => CheckpointsFaithful
    BY DEF Inductive
<1> QED
    BY <1>1, TrainerInvariant, PTL

\* load_checkpoint on one storage gives all ranks the same epoch and weights, when
\* no worker of another attempt was alive before the last of them had loaded.
THEOREM ResumesAlike == Spec => []AlikeOnOneStorage
<1>1. Inductive => AlikeOnOneStorage
    <2> SUFFICES ASSUME Inductive, NEW a \in (1..launched) \ met, OneStorage(a),
                        \A r \in Ranks : pc[<<a, r>>] = "epoch"
                 PROVE  Alike(a)
        BY DEF AlikeOnOneStorage
    <2>1. ~Loading(a) /\ Complete(a)
        BY DEF Loading, Complete
    <2>2. InStep(a)
        BY <2>1 DEF Inductive, Together
    <2> QED
        BY <2>2 DEF InStep, Alike, Training, Trained
<1> QED
    BY <1>1, TrainerInvariant, PTL

\* The first attempt whose ranks trained without being alike never ends with
\* exit code 0 on every rank; without one, success is one model on every rank, of
\* all the epochs or of a checkpoint past the last.
THEOREM DivergenceIsSeen == Spec => []NoSilentDivergence
<1>1. Inductive => NoSilentDivergence
    <2> SUFFICES ASSUME Inductive, Epochs > 0, NEW a \in 1..MaxAttempts, split \subseteq {a},
                        \A r \in Ranks : pc[<<a, r>>] = "ok"
                 PROVE  \/ \A r \in Ranks : weights[<<a, r>>] = Straight(Epochs)
                        \/ /\ resume >= Epochs
                           /\ \A r \in Ranks : weights[<<a, r>>] = Straight(resume + 1)
        BY DEF NoSilentDivergence
    <2> USE Names DEF Inductive
    <2>1. \A r \in Ranks : /\ Trained(<<a, r>>) = epoch[<<a, r>>]
                            /\ epoch[<<a, r>>] >= Epochs
                            /\ epoch[<<a, r>>] \in 0..Epochs \cup {resume + 1}
                            /\ TrainedOver(weights[<<a, r>>], epoch[<<a, r>>])
        BY DEF Counted, Trained, TypeOK
    <2>2. resume \in Int
        BY DEF TypeOK
    <2>3. \/ \A r \in Ranks : epoch[<<a, r>>] = Epochs
          \/ resume >= Epochs /\ \A r \in Ranks : epoch[<<a, r>>] = resume + 1
        <3>1. CASE \E r \in Ranks : epoch[<<a, r>>] > Epochs
            <4>1. \A r \in Ranks : epoch[<<a, r>>] > Epochs
                BY <3>1 DEF PastTheLast, Done
            <4> QED
                BY <2>1, <2>2, <4>1
        <3>2. CASE \A r \in Ranks : ~(epoch[<<a, r>>] > Epochs)
            BY <2>1, <2>2, <3>2
        <3> QED
            BY <3>1, <3>2
    <2>4. split = {}
        <3> SUFFICES ASSUME split = {a} PROVE FALSE
            OBVIOUS
        <3>1. \/ \E s \in Ranks : pc[<<a, s>>] = "failed"
              \/ \E s, t \in Ranks : Trained(<<a, s>>) # Trained(<<a, t>>)
            BY DEF OutOfStep
        <3>2. \A s, t \in Ranks : epoch[<<a, s>>] = epoch[<<a, t>>]
            BY <2>3
        <3>3. \A s, t \in Ranks : Trained(<<a, s>>) = Trained(<<a, t>>)
            BY <2>1, <3>2
        <3> QED
            BY <3>1, <3>3
    <2>5. \A r \in Ranks : weights[<<a, r>>] = Straight(epoch[<<a, r>>])
        BY <2>1, <2>2, <2>4, UnmixedIsStraight
    <2> QED
        BY <2>3, <2>5
<1> QED
    BY <1>1, TrainerInvariant, PTL
=============================================================================
