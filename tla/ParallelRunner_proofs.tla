------------------------ MODULE ParallelRunner_proofs ------------------------
(***************************************************************************)
(* What ParallelRunner promises of the dataset, for every set of inputs    *)
(* and of workers and every bound on runs, killed runs and lost workers.   *)
(***************************************************************************)
EXTENDS ParallelRunner, FiniteSetTheorems, TLAPS

\* No two workers hold one job.
JobsDistinct ==
    \A v, w \in Workers : v # w /\ worker[v].at # "free" => worker[v].job # worker[w].job

\* A job that is held is neither in the queue nor reported; nor is a job of
\* the queue reported.
JobsPending ==
    /\ \A w \in Workers : worker[w].at # "free" =>
           worker[w].job \notin queue /\ result[worker[w].job] = "none"
    /\ \A i \in queue : result[i] = "none"

\* Between runs nothing is held or queued.
Quiet == run # "running" => queue = {} /\ \A w \in Workers : worker[w] = Free

\* A process has the owner that waits for it or is about to kill it.
Owned ==
    \A w \in Workers, i \in Inputs :
        owner[i] = w <=> worker[w].job = i /\ worker[w].at \in {"wait", "kill"}

\* A process that has exited waits for its owner to reap it, a process has an
\* output file, and one that succeeded has written all of it.
Processes ==
    \A i \in Inputs : /\ opt[i] \in {"0", "1"} => owner[i] # Nobody
                      /\ opt[i] # "none" => output[i] # "absent"
                      /\ opt[i] = "0" => output[i] = "whole"

\* A job about to open its file has none; one about to remove it has no process.
Places ==
    \A w \in Workers :
        /\ worker[w].at = "open" => output[worker[w].job] = "absent"
        /\ worker[w].at = "remove" => opt[worker[w].job] = "none"

\* What a result that a run has received says of the file, and that no process
\* is left to change it.
Results ==
    \A i \in Inputs :
        /\ result[i] = "ok" => output[i] = "whole" /\ opt[i] = "none"
        /\ result[i] = "timeout" => output[i] = "absent" /\ opt[i] = "none"

IInv == /\ TypeOK /\ JobsDistinct /\ JobsPending /\ Quiet
        /\ Owned /\ Processes /\ Places /\ Results

-----------------------------------------------------------------------------
\* The places of process_input_file: a worker is free and holds no job, or is
\* at a place and holds one.
LEMMA WorkerPlaces ==
    ASSUME TypeOK, NEW w \in Workers
    PROVE  /\ worker[w].at \in {"free", "open", "wait", "kill", "remove"}
           /\ worker[w].at = "free" <=> worker[w] = Free
           /\ worker[w].at = "free" <=> worker[w].job = NoInput
           /\ worker[w].at # "free" => worker[w].job \in Inputs
           /\ worker[w].at # "free" =>
                  worker[w] = [at |-> worker[w].at, job |-> worker[w].job]
  BY RunnerAssumption DEF TypeOK, Free

\* A worker that waits for a process, or is about to kill it, owns that of its
\* job and no other.
LEMMA OwnsOne ==
    ASSUME Owned, NEW w \in Workers, NEW i \in Inputs,
           worker[w].job = i, worker[w].at \in {"wait", "kill"}
    PROVE  owner[i] = w /\ \A j \in Inputs \ {i} : owner[j] # w
<1>1. owner[i] = w
  BY DEF Owned
<1>2. ASSUME NEW j \in Inputs \ {i} PROVE owner[j] # w
  BY DEF Owned
<1>. QED
  BY <1>1, <1>2

\* The dataset and the pool before the first run satisfy the invariant.
LEMMA InitInv == Init => IInv
  BY RunnerAssumption DEF Init, IInv, TypeOK, JobsDistinct, JobsPending, Quiet,
     Owned, Processes, Places, Results, Free

\* A run queues every job and forgets the results of the run before it.
LEMMA StartRunInv ==
    ASSUME IInv, StartRun
    PROVE  IInv'
<1>1. TypeOK'
  BY RunnerAssumption DEF IInv, TypeOK, StartRun
<1>2. /\ run # "running" /\ run' = "running" /\ queue' = Inputs
      /\ worker' = worker /\ output' = output /\ opt' = opt /\ owner' = owner
      /\ \A i \in Inputs : result'[i] = "none"
  BY DEF StartRun
<1>3. JobsDistinct'
  BY <1>1, <1>2, WorkerPlaces DEF IInv, TypeOK, JobsDistinct
<1>4. JobsPending'
  BY <1>1, <1>2, WorkerPlaces DEF IInv, TypeOK, JobsPending, Quiet
<1>5. Quiet'
  BY <1>1, <1>2, WorkerPlaces DEF IInv, TypeOK, Quiet
<1>6. Owned'
  BY <1>1, <1>2, WorkerPlaces DEF IInv, TypeOK, Owned
<1>7. Processes'
  BY <1>1, <1>2, WorkerPlaces DEF IInv, TypeOK, Processes
<1>8. Places'
  BY <1>1, <1>2, WorkerPlaces DEF IInv, TypeOK, Places
<1>9. Results'
  BY <1>1, <1>2, WorkerPlaces DEF IInv, TypeOK, Results
<1>. QED
  BY <1>1, <1>2, <1>3, <1>4, <1>5, <1>6, <1>7, <1>8, <1>9 DEF IInv

\* A run ends when every job has a result, so nothing is queued or held.
LEMMA EndRunInv ==
    ASSUME IInv, EndRun
    PROVE  IInv'
<1>1. TypeOK'
  BY DEF IInv, TypeOK, EndRun, counters
<1>2. /\ queue' = queue /\ worker' = worker /\ output' = output
      /\ opt' = opt /\ owner' = owner /\ result' = result
      /\ \A i \in Inputs : result[i] # "none"
  BY DEF EndRun
<1>3. JobsDistinct'
  BY <1>1, <1>2, WorkerPlaces DEF IInv, TypeOK, JobsDistinct
<1>4. JobsPending'
  BY <1>1, <1>2, WorkerPlaces DEF IInv, TypeOK, JobsPending
<1>5. Quiet'
  BY <1>1, <1>2, WorkerPlaces DEF IInv, TypeOK, Quiet, JobsPending
<1>6. Owned'
  BY <1>1, <1>2, WorkerPlaces DEF IInv, TypeOK, Owned
<1>7. Processes'
  BY <1>1, <1>2, WorkerPlaces DEF IInv, TypeOK, Processes
<1>8. Places'
  BY <1>1, <1>2, WorkerPlaces DEF IInv, TypeOK, Places
<1>9. Results'
  BY <1>1, <1>2, WorkerPlaces DEF IInv, TypeOK, Results
<1>. QED
  BY <1>1, <1>2, <1>3, <1>4, <1>5, <1>6, <1>7, <1>8, <1>9 DEF IInv

\* A killed run leaves opt processes without an owner, and nothing held.
LEMMA KillRunInv ==
    ASSUME IInv, KillRun
    PROVE  IInv'
<1>1. TypeOK'
  BY RunnerAssumption DEF IInv, TypeOK, KillRun, Orphaned
<1>2. /\ queue' = {} /\ output' = output
      /\ \A v \in Workers : /\ worker'[v] = Free /\ worker'[v].at = "free"
                            /\ worker'[v].job = NoInput
      /\ \A i \in Inputs : /\ result'[i] = "none" /\ owner'[i] = Nobody
                           /\ opt'[i] # "none" => opt'[i] = "running" /\ opt[i] = "running"
  BY RunnerAssumption DEF IInv, TypeOK, Processes, KillRun, Orphaned, Free
<1>3. Nobody \notin Workers /\ NoInput \notin Inputs
  BY RunnerAssumption
<1>4. JobsDistinct'
  BY <1>1, <1>2, <1>3, WorkerPlaces DEF IInv, JobsDistinct
<1>5. JobsPending'
  BY <1>1, <1>2, <1>3, WorkerPlaces DEF IInv, JobsPending
<1>6. Quiet'
  BY <1>1, <1>2, <1>3, WorkerPlaces DEF IInv, Quiet
<1>7. Owned'
  BY <1>1, <1>2, <1>3, WorkerPlaces DEF IInv, Owned
<1>8. Processes'
  BY <1>1, <1>2, <1>3, WorkerPlaces DEF IInv, Processes
<1>9. Places'
  BY <1>1, <1>2, <1>3, WorkerPlaces DEF IInv, Places
<1>10. Results'
  BY <1>1, <1>2, <1>3, WorkerPlaces DEF IInv, Results
<1>. QED
  BY <1>1, <1>2, <1>3, <1>4, <1>5, <1>6, <1>7, <1>8, <1>9, <1>10 DEF IInv

\* A job is taken from the queue, and held only if it has no output.
LEMMA TakeInv ==
    ASSUME IInv, NEW w \in Workers, Take(w)
    PROVE  IInv'
<1>1. PICK i \in queue : /\ At(w, "free") /\ queue' = queue \ {i}
                         /\ IF output[i] = "absent"
                            THEN /\ worker' = [worker EXCEPT ![w] = [at |-> "open", job |-> i]]
                                 /\ UNCHANGED result
                            ELSE Return(w, i, "skipped")
                         /\ UNCHANGED <<output, opt, owner, run, counters>>
  BY DEF Take
<1>2. /\ i \in Inputs /\ i \in queue /\ NoInput \notin Inputs
      /\ run = "running" /\ worker[w].at = "free"
  BY <1>1, RunnerAssumption DEF IInv, TypeOK, At
<1>3. TypeOK'
  BY <1>1, <1>2 DEF IInv, TypeOK, Return, counters
<1>4. /\ queue' = queue \ {i} /\ output' = output /\ opt' = opt
      /\ owner' = owner /\ run' = run
      /\ \A v \in Workers \ {w} : worker'[v] = worker[v]
      /\ \A j \in Inputs \ {i} : result'[j] = result[j]
      /\ \/ /\ output[i] = "absent" /\ result'[i] = result[i]
            /\ worker'[w].at = "open" /\ worker'[w].job = i
         \/ /\ result'[i] = "skipped"
            /\ worker'[w].at = "free" /\ worker'[w].job = NoInput
  BY <1>1, <1>2 DEF IInv, TypeOK, Return, Free, counters
<1>5. JobsDistinct'
  BY <1>1, <1>2, <1>3, <1>4, WorkerPlaces DEF IInv, TypeOK, JobsDistinct, JobsPending
<1>6. JobsPending'
  BY <1>1, <1>2, <1>3, <1>4, WorkerPlaces DEF IInv, TypeOK, JobsPending
<1>7. Quiet'
  BY <1>1, <1>2, <1>3, <1>4, WorkerPlaces DEF IInv, TypeOK, Quiet
<1>8. Owned'
  BY <1>1, <1>2, <1>3, <1>4, WorkerPlaces DEF IInv, TypeOK, Owned
<1>9. Processes'
  BY <1>1, <1>2, <1>3, <1>4, WorkerPlaces DEF IInv, TypeOK, Processes
<1>10. Places'
  BY <1>1, <1>2, <1>3, <1>4, WorkerPlaces DEF IInv, TypeOK, Places
<1>11. Results'
  BY <1>1, <1>2, <1>3, <1>4, WorkerPlaces DEF IInv, TypeOK, Results
<1>. QED
  BY <1>1, <1>2, <1>3, <1>4, <1>5, <1>6, <1>7, <1>8, <1>9, <1>10, <1>11 DEF IInv

\* A job whose input cannot be read is reported and not held.
LEMMA ReadFailsInv ==
    ASSUME IInv, NEW w \in Workers, ReadFails(w)
    PROVE  IInv'
<1>1. PICK i \in queue : /\ At(w, "free") /\ queue' = queue \ {i} /\ Return(w, i, "failed")
                         /\ UNCHANGED <<output, opt, owner, run, counters>>
  BY DEF ReadFails
<1>2. /\ i \in Inputs /\ i \in queue /\ NoInput \notin Inputs
      /\ run = "running" /\ worker[w].at = "free"
  BY <1>1, RunnerAssumption DEF IInv, TypeOK, At
<1>3. TypeOK'
  BY <1>1, <1>2 DEF IInv, TypeOK, Return, counters
<1>4. /\ queue' = queue \ {i} /\ output' = output /\ opt' = opt
      /\ owner' = owner /\ run' = run
      /\ \A v \in Workers \ {w} : worker'[v] = worker[v]
      /\ \A j \in Inputs \ {i} : result'[j] = result[j]
      /\ result'[i] = "failed"
      /\ worker'[w].at = "free" /\ worker'[w].job = NoInput
  BY <1>1, <1>2 DEF IInv, TypeOK, Return, Free, counters
<1>5. JobsDistinct'
  BY <1>1, <1>2, <1>3, <1>4, WorkerPlaces DEF IInv, TypeOK, JobsDistinct
<1>6. JobsPending'
  BY <1>1, <1>2, <1>3, <1>4, WorkerPlaces DEF IInv, TypeOK, JobsPending
<1>7. Quiet'
  BY <1>1, <1>2, <1>3, <1>4, WorkerPlaces DEF IInv, TypeOK, Quiet
<1>8. Owned'
  BY <1>1, <1>2, <1>3, <1>4, WorkerPlaces DEF IInv, TypeOK, Owned
<1>9. Processes'
  BY <1>1, <1>2, <1>3, <1>4, WorkerPlaces DEF IInv, TypeOK, Processes
<1>10. Places'
  BY <1>1, <1>2, <1>3, <1>4, WorkerPlaces DEF IInv, TypeOK, Places
<1>11. Results'
  BY <1>1, <1>2, <1>3, <1>4, WorkerPlaces DEF IInv, TypeOK, Results
<1>. QED
  BY <1>1, <1>2, <1>3, <1>4, <1>5, <1>6, <1>7, <1>8, <1>9, <1>10, <1>11 DEF IInv

\* The job opens its file and starts opt: neither was there.
LEMMA StartInv ==
    ASSUME IInv, NEW w \in Workers, Start(w)
    PROVE  IInv'
<1>1. /\ run = "running" /\ worker[w].at = "open" /\ worker[w].job \in Inputs
      /\ NoInput \notin Inputs /\ Nobody \notin Workers
  BY RunnerAssumption, WorkerPlaces DEF IInv, Start, At
<1>2. PICK i \in Inputs : i = worker[w].job
  BY <1>1
<1>3. worker[w] = [at |-> "open", job |-> i]
  BY <1>1, <1>2, WorkerPlaces DEF IInv
<1>4. output[i] = "absent" /\ opt[i] = "none" /\ \A j \in Inputs : owner[j] # w
  BY <1>1, <1>2, <1>3 DEF IInv, TypeOK, Owned, Places, Processes
<1>5. TypeOK'
  BY <1>1, <1>2, <1>3 DEF IInv, TypeOK, Start, counters
<1>6. /\ run' = run /\ queue' = queue /\ result' = result
      /\ \A v \in Workers \ {w} : worker'[v] = worker[v]
      /\ worker'[w].at = "wait" /\ worker'[w].job = i
      /\ \A j \in Inputs \ {i} : /\ output'[j] = output[j] /\ opt'[j] = opt[j]
                                 /\ owner'[j] = owner[j]
      /\ output'[i] = "partial" /\ opt'[i] = "running" /\ owner'[i] = w
  BY <1>1, <1>2, <1>3 DEF IInv, TypeOK, Start, counters
<1>7. JobsDistinct'
  BY <1>1, <1>2, <1>3, <1>4, <1>5, <1>6, WorkerPlaces DEF IInv, TypeOK, JobsDistinct
<1>8. JobsPending'
  BY <1>1, <1>2, <1>3, <1>4, <1>5, <1>6, WorkerPlaces DEF IInv, TypeOK, JobsPending
<1>9. Quiet'
  BY <1>1, <1>2, <1>3, <1>4, <1>5, <1>6, WorkerPlaces DEF IInv, TypeOK, Quiet
<1>10. Owned'
  BY <1>1, <1>2, <1>3, <1>4, <1>5, <1>6, WorkerPlaces
     DEF IInv, TypeOK, Owned, JobsDistinct
<1>11. Processes'
  BY <1>1, <1>2, <1>3, <1>4, <1>5, <1>6, WorkerPlaces DEF IInv, TypeOK, Processes
<1>12. Places'
  BY <1>1, <1>2, <1>3, <1>4, <1>5, <1>6, WorkerPlaces
     DEF IInv, TypeOK, Places, JobsDistinct
<1>13. Results'
  BY <1>1, <1>2, <1>3, <1>4, <1>5, <1>6, WorkerPlaces
     DEF IInv, TypeOK, Results, JobsPending
<1>. QED
  BY <1>1, <1>2, <1>3, <1>4, <1>5, <1>6, <1>7, <1>8, <1>9, <1>10, <1>11, <1>12, <1>13
     DEF IInv

\* A job that cannot start opt may have made its file, and is reported as failed.
LEMMA StartFailsInv ==
    ASSUME IInv, NEW w \in Workers, StartFails(w)
    PROVE  IInv'
<1>1. /\ run = "running" /\ worker[w].at = "open" /\ worker[w].job \in Inputs
      /\ NoInput \notin Inputs /\ Nobody \notin Workers
  BY RunnerAssumption, WorkerPlaces DEF IInv, StartFails, At
<1>2. PICK i \in Inputs : i = worker[w].job
  BY <1>1
<1>3. worker[w] = [at |-> "open", job |-> i]
  BY <1>1, <1>2, WorkerPlaces DEF IInv
<1>4. output[i] = "absent" /\ opt[i] = "none" /\ \A j \in Inputs : owner[j] # w
  BY <1>1, <1>2, <1>3 DEF IInv, TypeOK, Owned, Places, Processes
<1>5. TypeOK'
  BY <1>1, <1>2, <1>3 DEF IInv, TypeOK, StartFails, Return, Free, counters
<1>6. /\ run' = run /\ queue' = queue /\ opt' = opt /\ owner' = owner
      /\ \A v \in Workers \ {w} : worker'[v] = worker[v]
      /\ worker'[w].at = "free" /\ worker'[w].job = NoInput
      /\ \A j \in Inputs \ {i} : output'[j] = output[j] /\ result'[j] = result[j]
      /\ output'[i] \in {"absent", "partial", "whole"} /\ result'[i] = "failed"
      /\ output'[i] \in {output[i], "partial"}
  BY <1>1, <1>2, <1>3 DEF IInv, TypeOK, StartFails, Return, Free, counters
<1>7. JobsDistinct'
  BY <1>1, <1>2, <1>3, <1>4, <1>5, <1>6, WorkerPlaces DEF IInv, TypeOK, JobsDistinct
<1>8. JobsPending'
  BY <1>1, <1>2, <1>3, <1>4, <1>5, <1>6, WorkerPlaces
     DEF IInv, TypeOK, JobsPending, JobsDistinct
<1>9. Quiet'
  BY <1>1, <1>2, <1>3, <1>4, <1>5, <1>6, WorkerPlaces DEF IInv, TypeOK, Quiet
<1>10. Owned'
  BY <1>1, <1>2, <1>3, <1>4, <1>5, <1>6, WorkerPlaces
     DEF IInv, TypeOK, Owned, JobsDistinct
<1>11. Processes'
  BY <1>1, <1>2, <1>3, <1>4, <1>5, <1>6, WorkerPlaces
     DEF IInv, TypeOK, Processes, Places
<1>12. Places'
  BY <1>1, <1>2, <1>3, <1>4, <1>5, <1>6, WorkerPlaces
     DEF IInv, TypeOK, Places, JobsDistinct
<1>13. Results'
  BY <1>1, <1>2, <1>3, <1>4, <1>5, <1>6, WorkerPlaces
     DEF IInv, TypeOK, Results, JobsPending
<1>. QED
  BY <1>1, <1>2, <1>3, <1>4, <1>5, <1>6, <1>7, <1>8, <1>9, <1>10, <1>11, <1>12, <1>13
     DEF IInv

\* A job is reported as completed only with the exit code 0, which opt gives
\* once the file is whole.
LEMMA FinishInv ==
    ASSUME IInv, NEW w \in Workers, Finish(w)
    PROVE  IInv'
<1>1. /\ run = "running" /\ worker[w].at = "wait" /\ worker[w].job \in Inputs
      /\ NoInput \notin Inputs /\ Nobody \notin Workers
  BY RunnerAssumption, WorkerPlaces DEF IInv, Finish, At
<1>2. PICK i \in Inputs : i = worker[w].job
  BY <1>1
<1>3. worker[w] = [at |-> "wait", job |-> i]
  BY <1>1, <1>2, WorkerPlaces DEF IInv
<1>4. owner[i] = w /\ \A j \in Inputs \ {i} : owner[j] # w
  BY <1>1, <1>2, OwnsOne DEF IInv
<1>5. TypeOK'
  BY <1>1, <1>2, <1>3 DEF IInv, TypeOK, Finish, Reap, Return, Free, counters
<1>6. /\ run' = run /\ queue' = queue /\ output' = output
      /\ \A v \in Workers \ {w} : worker'[v] = worker[v]
      /\ worker'[w].at = "free" /\ worker'[w].job = NoInput
      /\ \A j \in Inputs \ {i} : /\ opt'[j] = opt[j] /\ owner'[j] = owner[j]
                                 /\ result'[j] = result[j]
      /\ opt'[i] = "none" /\ owner'[i] = Nobody
      /\ result'[i] = "failed" \/ (result'[i] = "ok" /\ opt[i] = "0")
  BY <1>1, <1>2, <1>3 DEF IInv, TypeOK, Finish, Reap, Return, Free, counters
<1>7. JobsDistinct'
  BY <1>1, <1>2, <1>3, <1>4, <1>5, <1>6, WorkerPlaces DEF IInv, TypeOK, JobsDistinct
<1>8. JobsPending'
  BY <1>1, <1>2, <1>3, <1>4, <1>5, <1>6, WorkerPlaces
     DEF IInv, TypeOK, JobsPending, JobsDistinct
<1>9. Quiet'
  BY <1>1, <1>2, <1>3, <1>4, <1>5, <1>6, WorkerPlaces DEF IInv, TypeOK, Quiet
<1>10. Owned'
  BY <1>1, <1>2, <1>3, <1>4, <1>5, <1>6, WorkerPlaces
     DEF IInv, TypeOK, Owned, JobsDistinct
<1>11. Processes'
  BY <1>1, <1>2, <1>3, <1>4, <1>5, <1>6, WorkerPlaces DEF IInv, TypeOK, Processes
<1>12. Places'
  BY <1>1, <1>2, <1>3, <1>4, <1>5, <1>6, WorkerPlaces DEF IInv, TypeOK, Places
<1>13. Results'
  BY <1>1, <1>2, <1>3, <1>4, <1>5, <1>6, WorkerPlaces
     DEF IInv, TypeOK, Results, Processes
<1>. QED
  BY <1>1, <1>2, <1>3, <1>4, <1>5, <1>6, <1>7, <1>8, <1>9, <1>10, <1>11, <1>12, <1>13
     DEF IInv

\* A job whose time is over keeps its process until it has killed it.
LEMMA ExpireInv ==
    ASSUME IInv, NEW w \in Workers, Expire(w)
    PROVE  IInv'
<1>1. /\ run = "running" /\ worker[w].at = "wait" /\ worker[w].job \in Inputs
      /\ NoInput \notin Inputs /\ Nobody \notin Workers
  BY RunnerAssumption, WorkerPlaces DEF IInv, Expire, At
<1>2. PICK i \in Inputs : i = worker[w].job
  BY <1>1
<1>3. worker[w] = [at |-> "wait", job |-> i]
  BY <1>1, <1>2, WorkerPlaces DEF IInv
<1>4. owner[i] = w /\ \A j \in Inputs \ {i} : owner[j] # w
  BY <1>1, <1>2, OwnsOne DEF IInv
<1>5. TypeOK'
  BY <1>1, <1>2, <1>3 DEF IInv, TypeOK, Expire, counters
<1>6. /\ run' = run /\ queue' = queue /\ output' = output /\ opt' = opt
      /\ owner' = owner /\ result' = result
      /\ \A v \in Workers \ {w} : worker'[v] = worker[v]
      /\ worker'[w].at = "kill" /\ worker'[w].job = i
  BY <1>1, <1>2, <1>3 DEF IInv, TypeOK, Expire, counters
<1>7. JobsDistinct'
  BY <1>1, <1>2, <1>3, <1>4, <1>5, <1>6, WorkerPlaces DEF IInv, TypeOK, JobsDistinct
<1>8. JobsPending'
  BY <1>1, <1>2, <1>3, <1>4, <1>5, <1>6, WorkerPlaces DEF IInv, TypeOK, JobsPending
<1>9. Quiet'
  BY <1>1, <1>2, <1>3, <1>4, <1>5, <1>6, WorkerPlaces DEF IInv, TypeOK, Quiet
<1>10. Owned'
  BY <1>1, <1>2, <1>3, <1>4, <1>5, <1>6, WorkerPlaces
     DEF IInv, TypeOK, Owned, JobsDistinct
<1>11. Processes'
  BY <1>1, <1>2, <1>3, <1>4, <1>5, <1>6, WorkerPlaces DEF IInv, TypeOK, Processes
<1>12. Places'
  BY <1>1, <1>2, <1>3, <1>4, <1>5, <1>6, WorkerPlaces DEF IInv, TypeOK, Places
<1>13. Results'
  BY <1>1, <1>2, <1>3, <1>4, <1>5, <1>6, WorkerPlaces DEF IInv, TypeOK, Results
<1>. QED
  BY <1>1, <1>2, <1>3, <1>4, <1>5, <1>6, <1>7, <1>8, <1>9, <1>10, <1>11, <1>12, <1>13
     DEF IInv

\* killpg leaves no process to write the file that is to be removed.
LEMMA KillInv ==
    ASSUME IInv, NEW w \in Workers, Kill(w)
    PROVE  IInv'
<1>1. /\ run = "running" /\ worker[w].at = "kill" /\ worker[w].job \in Inputs
      /\ NoInput \notin Inputs /\ Nobody \notin Workers
  BY RunnerAssumption, WorkerPlaces DEF IInv, Kill, At
<1>2. PICK i \in Inputs : i = worker[w].job
  BY <1>1
<1>3. worker[w] = [at |-> "kill", job |-> i]
  BY <1>1, <1>2, WorkerPlaces DEF IInv
<1>4. owner[i] = w /\ \A j \in Inputs \ {i} : owner[j] # w
  BY <1>1, <1>2, OwnsOne DEF IInv
<1>5. TypeOK'
  BY <1>1, <1>2, <1>3 DEF IInv, TypeOK, Kill, Reap, counters
<1>6. /\ run' = run /\ queue' = queue /\ output' = output /\ result' = result
      /\ \A v \in Workers \ {w} : worker'[v] = worker[v]
      /\ worker'[w].at = "remove" /\ worker'[w].job = i
      /\ \A j \in Inputs \ {i} : opt'[j] = opt[j] /\ owner'[j] = owner[j]
      /\ opt'[i] = "none" /\ owner'[i] = Nobody
  BY <1>1, <1>2, <1>3 DEF IInv, TypeOK, Kill, Reap, counters
<1>7. JobsDistinct'
  BY <1>1, <1>2, <1>3, <1>4, <1>5, <1>6, WorkerPlaces DEF IInv, TypeOK, JobsDistinct
<1>8. JobsPending'
  BY <1>1, <1>2, <1>3, <1>4, <1>5, <1>6, WorkerPlaces DEF IInv, TypeOK, JobsPending
<1>9. Quiet'
  BY <1>1, <1>2, <1>3, <1>4, <1>5, <1>6, WorkerPlaces DEF IInv, TypeOK, Quiet
<1>10. Owned'
  BY <1>1, <1>2, <1>3, <1>4, <1>5, <1>6, WorkerPlaces
     DEF IInv, TypeOK, Owned, JobsDistinct
<1>11. Processes'
  BY <1>1, <1>2, <1>3, <1>4, <1>5, <1>6, WorkerPlaces DEF IInv, TypeOK, Processes
<1>12. Places'
  BY <1>1, <1>2, <1>3, <1>4, <1>5, <1>6, WorkerPlaces DEF IInv, TypeOK, Places
<1>13. Results'
  BY <1>1, <1>2, <1>3, <1>4, <1>5, <1>6, WorkerPlaces DEF IInv, TypeOK, Results
<1>. QED
  BY <1>1, <1>2, <1>3, <1>4, <1>5, <1>6, <1>7, <1>8, <1>9, <1>10, <1>11, <1>12, <1>13
     DEF IInv

\* The file of a job that timed out is removed when its process is gone.
LEMMA RemoveInv ==
    ASSUME IInv, NEW w \in Workers, Remove(w)
    PROVE  IInv'
<1>1. /\ run = "running" /\ worker[w].at = "remove" /\ worker[w].job \in Inputs
      /\ NoInput \notin Inputs /\ Nobody \notin Workers
  BY RunnerAssumption, WorkerPlaces DEF IInv, Remove, At
<1>2. PICK i \in Inputs : i = worker[w].job
  BY <1>1
<1>3. worker[w] = [at |-> "remove", job |-> i]
  BY <1>1, <1>2, WorkerPlaces DEF IInv
<1>4. opt[i] = "none" /\ \A j \in Inputs : owner[j] # w
  BY <1>1, <1>2, <1>3 DEF IInv, Owned, Places
<1>5. TypeOK'
  BY <1>1, <1>2, <1>3 DEF IInv, TypeOK, Remove, Return, Free, counters
<1>6. /\ run' = run /\ queue' = queue /\ opt' = opt /\ owner' = owner
      /\ \A v \in Workers \ {w} : worker'[v] = worker[v]
      /\ worker'[w].at = "free" /\ worker'[w].job = NoInput
      /\ \A j \in Inputs \ {i} : output'[j] = output[j] /\ result'[j] = result[j]
      /\ output'[i] = "absent" /\ result'[i] = "timeout"
  BY <1>1, <1>2, <1>3 DEF IInv, TypeOK, Remove, Return, Free, counters
<1>7. JobsDistinct'
  BY <1>1, <1>2, <1>3, <1>4, <1>5, <1>6, WorkerPlaces DEF IInv, TypeOK, JobsDistinct
<1>8. JobsPending'
  BY <1>1, <1>2, <1>3, <1>4, <1>5, <1>6, WorkerPlaces
     DEF IInv, TypeOK, JobsPending, JobsDistinct
<1>9. Quiet'
  BY <1>1, <1>2, <1>3, <1>4, <1>5, <1>6, WorkerPlaces DEF IInv, TypeOK, Quiet
<1>10. Owned'
  BY <1>1, <1>2, <1>3, <1>4, <1>5, <1>6, WorkerPlaces
     DEF IInv, TypeOK, Owned, JobsDistinct
<1>11. Processes'
  BY <1>1, <1>2, <1>3, <1>4, <1>5, <1>6, WorkerPlaces
     DEF IInv, TypeOK, Processes, Places
<1>12. Places'
  BY <1>1, <1>2, <1>3, <1>4, <1>5, <1>6, WorkerPlaces DEF IInv, TypeOK, Places
<1>13. Results'
  BY <1>1, <1>2, <1>3, <1>4, <1>5, <1>6, WorkerPlaces DEF IInv, TypeOK, Results, Places
<1>. QED
  BY <1>1, <1>2, <1>3, <1>4, <1>5, <1>6, <1>7, <1>8, <1>9, <1>10, <1>11, <1>12, <1>13
     DEF IInv

\* A lost worker orphans its process and holds nothing; its job is in no queue.
LEMMA LoseWorkerInv ==
    ASSUME IInv, NEW w \in Workers, LoseWorker(w)
    PROVE  IInv'
<1>1. run = "running" /\ NoInput \notin Inputs /\ Nobody \notin Workers
  BY RunnerAssumption DEF LoseWorker
<1>2. TypeOK'
  BY RunnerAssumption DEF IInv, TypeOK, LoseWorker, Orphaned
<1>3. /\ run' = run /\ queue' = queue /\ output' = output /\ result' = result
      /\ \A v \in Workers \ {w} : worker'[v] = worker[v]
      /\ worker'[w].at = "free" /\ worker'[w].job = NoInput
      /\ \A i \in Inputs : \/ /\ owner[i] = w /\ owner'[i] = Nobody
                              /\ (opt'[i] = opt[i] \/ opt'[i] = "none")
                              /\ opt'[i] # "none" => opt[i] = "running"
                           \/ owner[i] # w /\ owner'[i] = owner[i] /\ opt'[i] = opt[i]
  BY DEF IInv, TypeOK, LoseWorker, Orphaned, Free
<1>4. JobsDistinct'
  BY <1>1, <1>2, <1>3, WorkerPlaces DEF IInv, TypeOK, JobsDistinct
<1>5. JobsPending'
  BY <1>1, <1>2, <1>3, WorkerPlaces DEF IInv, TypeOK, JobsPending
<1>6. Quiet'
  BY <1>1, <1>2, <1>3, WorkerPlaces DEF IInv, TypeOK, Quiet
<1>7. Owned'
  BY <1>1, <1>2, <1>3, WorkerPlaces DEF IInv, TypeOK, Owned
<1>8. Processes'
  BY <1>1, <1>2, <1>3, WorkerPlaces DEF IInv, TypeOK, Processes
<1>9. Places'
  BY <1>1, <1>2, <1>3, WorkerPlaces DEF IInv, TypeOK, Places
<1>10. Results'
  BY <1>1, <1>2, <1>3, WorkerPlaces DEF IInv, TypeOK, Results
<1>. QED
  BY <1>1, <1>2, <1>3, <1>4, <1>5, <1>6, <1>7, <1>8, <1>9, <1>10 DEF IInv

\* An opt that succeeds has made its file whole, and has an owner or is gone.
LEMMA OptSucceedsInv ==
    ASSUME IInv, NEW i \in Inputs, OptSucceeds(i)
    PROVE  IInv'
<1>1. TypeOK'
  BY DEF IInv, TypeOK, OptSucceeds, counters
<1>2. /\ opt[i] = "running" /\ owner' = owner /\ run' = run
      /\ queue' = queue /\ worker' = worker /\ result' = result
      /\ \A j \in Inputs \ {i} : opt'[j] = opt[j] /\ output'[j] = output[j]
      /\ output'[i] = "whole"
      /\ opt'[i] = IF owner[i] = Nobody THEN "none" ELSE "0"
  BY DEF IInv, TypeOK, OptSucceeds
<1>3. JobsDistinct'
  BY <1>1, <1>2, WorkerPlaces DEF IInv, TypeOK, JobsDistinct
<1>4. JobsPending'
  BY <1>1, <1>2, WorkerPlaces DEF IInv, TypeOK, JobsPending
<1>5. Quiet'
  BY <1>1, <1>2, WorkerPlaces DEF IInv, TypeOK, Quiet
<1>6. Owned'
  BY <1>1, <1>2, WorkerPlaces DEF IInv, TypeOK, Owned
<1>7. Processes'
  BY <1>1, <1>2, WorkerPlaces DEF IInv, TypeOK, Processes
<1>8. Places'
  BY <1>1, <1>2, WorkerPlaces DEF IInv, TypeOK, Places, Processes
<1>9. Results'
  BY <1>1, <1>2, WorkerPlaces DEF IInv, TypeOK, Results
<1>. QED
  BY <1>1, <1>2, <1>3, <1>4, <1>5, <1>6, <1>7, <1>8, <1>9 DEF IInv

\* An opt that fails leaves its file as it is, and has an owner or is gone.
LEMMA OptFailsInv ==
    ASSUME IInv, NEW i \in Inputs, OptFails(i)
    PROVE  IInv'
<1>1. TypeOK'
  BY DEF IInv, TypeOK, OptFails, counters
<1>2. /\ opt[i] = "running" /\ owner' = owner /\ run' = run
      /\ queue' = queue /\ worker' = worker /\ result' = result
      /\ \A j \in Inputs \ {i} : opt'[j] = opt[j] /\ output'[j] = output[j]
      /\ output'[i] = output[i]
      /\ opt'[i] = IF owner[i] = Nobody THEN "none" ELSE "1"
  BY DEF IInv, TypeOK, OptFails
<1>3. JobsDistinct'
  BY <1>1, <1>2, WorkerPlaces DEF IInv, TypeOK, JobsDistinct
<1>4. JobsPending'
  BY <1>1, <1>2, WorkerPlaces DEF IInv, TypeOK, JobsPending
<1>5. Quiet'
  BY <1>1, <1>2, WorkerPlaces DEF IInv, TypeOK, Quiet
<1>6. Owned'
  BY <1>1, <1>2, WorkerPlaces DEF IInv, TypeOK, Owned
<1>7. Processes'
  BY <1>1, <1>2, WorkerPlaces DEF IInv, TypeOK, Processes
<1>8. Places'
  BY <1>1, <1>2, WorkerPlaces DEF IInv, TypeOK, Places
<1>9. Results'
  BY <1>1, <1>2, WorkerPlaces DEF IInv, TypeOK, Results
<1>. QED
  BY <1>1, <1>2, <1>3, <1>4, <1>5, <1>6, <1>7, <1>8, <1>9 DEF IInv

-----------------------------------------------------------------------------
\* Every step of the runner, of a worker and of opt keeps the invariant.
LEMMA NextInv == IInv /\ [Next]_vars => IInv'
<1> SUFFICES ASSUME IInv, [Next]_vars PROVE IInv'
  OBVIOUS
<1>1. CASE StartRun
  BY <1>1, StartRunInv
<1>2. CASE EndRun
  BY <1>2, EndRunInv
<1>3. CASE KillRun
  BY <1>3, KillRunInv
<1>4. ASSUME NEW w \in Workers, Work(w) PROVE IInv'
  BY <1>4, TakeInv, ReadFailsInv, StartInv, StartFailsInv, FinishInv, ExpireInv,
     KillInv, RemoveInv DEF Work
<1>5. ASSUME NEW w \in Workers, LoseWorker(w) PROVE IInv'
  BY <1>5, LoseWorkerInv
<1>6. ASSUME NEW i \in Inputs, OptSucceeds(i) \/ OptFails(i) PROVE IInv'
  BY <1>6, OptSucceedsInv, OptFailsInv
<1>7. CASE UNCHANGED vars
  BY <1>7 DEF vars, IInv, TypeOK, JobsDistinct, JobsPending, Quiet, Owned,
     Processes, Places, Results
<1>. QED
  BY <1>1, <1>2, <1>3, <1>4, <1>5, <1>6, <1>7 DEF Next, Terminated

LEMMA Invariant == Spec => []IInv
  BY InitInv, NextInv, PTL DEF Spec

\* Every variable of ParallelRunner keeps its type.
THEOREM TypeCorrect == Spec => []TypeOK
<1>1. IInv => TypeOK
  BY DEF IInv
<1>. QED
  BY <1>1, Invariant, PTL

\* No two opt processes write one output.txt, whatever runs were killed and
\* whatever orphans they left.
THEOREM OneWriterAlways == Spec => []OneWriter
<1>1. IInv => OneWriter
  BY WorkerPlaces DEF IInv, OneWriter, At, JobsDistinct, Places, Processes
<1>. QED
  BY <1>1, Invariant, PTL

\* A job counted as completed has left a report that is whole.
THEOREM OkIsWholeAlways == Spec => []OkIsWhole
<1>1. IInv => OkIsWhole
  BY DEF IInv, OkIsWhole, Results
<1>. QED
  BY <1>1, Invariant, PTL

\* A job that timed out leaves neither a file nor a process.
THEOREM TimedOutRemovedAlways == Spec => []TimedOutRemoved
<1>1. IInv => TimedOutRemoved
  BY DEF IInv, TimedOutRemoved, Results
<1>. QED
  BY <1>1, Invariant, PTL

-----------------------------------------------------------------------------
\* A worker that opens a file finds none; one that removes a file is the one
\* that Settled excludes.
LEMMA WorkKeeps ==
    ASSUME IInv, NEW i \in Inputs, Settled(i), NEW w \in Workers, Work(w)
    PROVE  output'[i] = "whole"
<1>1. output[i] = "whole" /\ output \in [Inputs -> {"absent", "partial", "whole"}]
  BY DEF IInv, TypeOK, Settled
<1>2. CASE output' = output
  BY <1>1, <1>2
<1>3. CASE Start(w) \/ StartFails(w)
  <2>1. worker[w].at = "open"
    BY <1>3 DEF Start, StartFails, At
  <2>2. worker[w].job # i
    BY <1>1, <2>1 DEF IInv, Places
  <2>. QED
    BY <1>1, <1>3, <2>2 DEF Start, StartFails
<1>4. CASE Remove(w)
  <2>1. worker[w].job # i
    BY <1>4 DEF Remove, At, Settled
  <2>. QED
    BY <1>1, <1>4, <2>1 DEF Remove
<1>. QED
  BY <1>2, <1>3, <1>4 DEF Work, Take, ReadFails, Finish, Expire, Kill

\* A report that is whole is never truncated or removed by this run or a later
\* one, unless its job has just timed out.
THEOREM ReportsKeptAlways == Spec => ReportsKept
<1>1. ASSUME IInv, [Next]_vars, NEW i \in Inputs, Settled(i)
      PROVE  output'[i] = "whole"
  <2>1. output[i] = "whole" /\ opt[i] = "none"
    BY <1>1 DEF Settled
  <2>2. CASE output' = output
    BY <2>1, <2>2
  <2>3. ASSUME NEW w \in Workers, Work(w) PROVE output'[i] = "whole"
    BY <1>1, <2>3, WorkKeeps
  <2>4. ASSUME NEW j \in Inputs, OptSucceeds(j) PROVE output'[i] = "whole"
    BY <1>1, <2>1, <2>4 DEF IInv, TypeOK, OptSucceeds
  <2>. QED
    BY <1>1, <2>2, <2>3, <2>4
       DEF Next, StartRun, EndRun, KillRun, LoseWorker, OptFails, Terminated, vars
<1>2. IInv /\ [Next]_vars =>
        [\A i \in Inputs : Settled(i) => output'[i] = "whole"]_vars
  BY <1>1
<1>. QED
  BY <1>2, Invariant, PTL DEF Spec, ReportsKept

-----------------------------------------------------------------------------
\* A step of a worker hands its job on: from the queue to itself, or to the
\* results.
LEMMA WorkMissesNone ==
    ASSUME IInv, NEW w \in Workers, Work(w)
    PROVE  Missing' \subseteq Missing
<1>1. /\ run' = run /\ queue' \subseteq queue
      /\ worker \in [Workers -> {Free} \cup
                        [at : {"open", "wait", "kill", "remove"}, job : Inputs]]
      /\ result \in [Inputs -> {"none", "ok", "skipped", "failed", "timeout"}]
      /\ NoInput \notin Inputs /\ queue \subseteq Inputs
  BY RunnerAssumption
  DEF IInv, TypeOK, Work, Take, ReadFails, Start, StartFails, Finish, Expire,
      Kill, Remove
<1>2. SUFFICES ASSUME NEW j \in Missing'
               PROVE  /\ j \notin queue /\ result[j] = "none"
                      /\ \A v \in Workers : worker[v].job # j
  BY <1>1 DEF Missing
<1>3. /\ j \in Inputs /\ j \notin queue' /\ result'[j] = "none"
      /\ \A v \in Workers : worker'[v].job # j
  BY <1>2 DEF Missing
<1>4. CASE Take(w) \/ ReadFails(w)
  <2>1. PICK i \in queue :
          /\ At(w, "free") /\ queue' = queue \ {i}
          /\ \/ /\ worker' = [worker EXCEPT ![w] = [at |-> "open", job |-> i]]
                /\ result' = result
             \/ \E outcome \in {"skipped", "failed"} : Return(w, i, outcome)
    BY <1>4 DEF Take, ReadFails
  <2>2. worker[w].job = NoInput /\ \A v \in Workers \ {w} : worker'[v] = worker[v]
    BY <1>1, <2>1, WorkerPlaces DEF IInv, At, Return
  <2>3. i # j /\ result'[j] = result[j]
    <3>1. CASE worker' = [worker EXCEPT ![w] = [at |-> "open", job |-> i]]
               /\ result' = result
      BY <1>1, <1>3, <3>1
    <3>2. CASE \E outcome \in {"skipped", "failed"} : Return(w, i, outcome)
      BY <1>1, <1>3, <2>1, <3>2 DEF Return
    <3> QED
      BY <2>1, <3>1, <3>2
  <2> QED
    BY <1>1, <1>3, <2>1, <2>2, <2>3
<1>5. CASE Start(w) \/ Expire(w) \/ Kill(w)
  <2>1. queue' = queue /\ result' = result
        /\ \E place : worker' = [worker EXCEPT ![w].at = place]
    BY <1>5 DEF Start, Expire, Kill
  <2>2. \A v \in Workers : worker'[v].job = worker[v].job
    BY <1>1, <2>1 DEF Free
  <2> QED
    BY <1>3, <2>1, <2>2
<1>6. CASE StartFails(w) \/ Finish(w) \/ Remove(w)
  <2>1. worker[w].at # "free" /\ queue' = queue
        /\ \E outcome \in {"ok", "failed", "timeout"} :
              Return(w, worker[w].job, outcome)
    BY <1>6 DEF StartFails, Finish, Remove, At
  <2>2. worker[w].job \in Inputs
    BY <2>1, WorkerPlaces DEF IInv
  <2>3. worker[w].job # j /\ result'[j] = result[j]
        /\ \A v \in Workers \ {w} : worker'[v] = worker[v]
    BY <1>1, <1>3, <2>1, <2>2 DEF Return
  <2> QED
    BY <1>3, <2>1, <2>3
<1> QED
  BY <1>4, <1>5, <1>6 DEF Work

\* A lost worker takes the job it holds with it.
LEMMA LossMissesOne ==
    ASSUME IInv, NEW w \in Workers, LoseWorker(w)
    PROVE  Missing' \subseteq Missing \cup {worker[w].job}
<1>1. /\ run' = run /\ queue' = queue /\ result' = result
      /\ \A v \in Workers \ {w} : worker'[v] = worker[v]
  BY DEF IInv, TypeOK, LoseWorker
<1> QED
  BY <1>1 DEF Missing

\* No job goes missing but with a worker.
LEMMA StepMisses ==
    ASSUME IInv, [Next]_vars
    PROVE  \/ Missing' = {} /\ losses' = losses
           \/ Missing' \subseteq Missing /\ losses' = losses
           \/ \E i : Missing' \subseteq Missing \cup {i} /\ losses' = losses + 1
<1>1. CASE StartRun \/ EndRun \/ KillRun
  BY <1>1 DEF StartRun, EndRun, KillRun, Missing, counters
<1>2. ASSUME NEW w \in Workers, Work(w)
      PROVE  Missing' \subseteq Missing /\ losses' = losses
  <2>1. losses' = losses
    BY <1>2 DEF Work, Take, ReadFails, Start, StartFails, Finish, Expire, Kill,
                Remove, counters
  <2> QED
    BY <1>2, <2>1, WorkMissesNone
<1>3. ASSUME NEW w \in Workers, LoseWorker(w)
      PROVE  \E i : Missing' \subseteq Missing \cup {i} /\ losses' = losses + 1
  <2>1. losses' = losses + 1
    BY <1>3 DEF LoseWorker
  <2> QED
    BY <1>3, <2>1, LossMissesOne
<1>4. ASSUME NEW i \in Inputs, OptSucceeds(i) \/ OptFails(i)
      PROVE  Missing' = Missing /\ losses' = losses
  BY <1>4 DEF OptSucceeds, OptFails, Missing, counters
<1>5. CASE UNCHANGED vars
  BY <1>5 DEF vars, Missing
<1> QED
  BY <1>1, <1>2, <1>3, <1>4, <1>5 DEF Next, Terminated

\* A run does every job once, and loses one only with the worker that holds it.
THEOREM JobsKeptAlways == Spec => []JobsKept
<1> DEFINE Accounted == Cardinality(Missing) <= losses
<1>1. Init => Accounted
  <2>1. Init => Missing = {} /\ losses = 0
    BY DEF Init, Missing
  <2> QED
    BY <2>1, FS_EmptySet
<1>2. IInv /\ Accounted /\ [Next]_vars => Accounted'
  <2> SUFFICES ASSUME IInv, Accounted, [Next]_vars
               PROVE  Accounted'
    OBVIOUS
  <2>1. IsFiniteSet(Missing) /\ Cardinality(Missing) \in Nat /\ losses \in Nat
    <3>1. Missing \subseteq Inputs
      BY DEF Missing
    <3> QED
      BY <3>1, RunnerAssumption, FS_Subset, FS_CardinalityType DEF IInv, TypeOK
  <2>2. CASE Missing' = {} /\ losses' = losses
    BY <2>1, <2>2, FS_EmptySet
  <2>3. CASE Missing' \subseteq Missing /\ losses' = losses
    <3>1. Cardinality(Missing') <= Cardinality(Missing) /\ Cardinality(Missing') \in Nat
      BY <2>1, <2>3, FS_Subset, FS_CardinalityType
    <3> QED
      BY <2>1, <2>3, <3>1
  <2>4. ASSUME NEW i, Missing' \subseteq Missing \cup {i}, losses' = losses + 1
        PROVE  Accounted'
    <3>1. IsFiniteSet(Missing \cup {i})
          /\ Cardinality(Missing \cup {i}) <= Cardinality(Missing) + 1
      BY <2>1, FS_AddElement
    <3>2. Cardinality(Missing') <= Cardinality(Missing \cup {i})
          /\ Cardinality(Missing') \in Nat /\ Cardinality(Missing \cup {i}) \in Nat
      BY <2>4, <3>1, FS_Subset, FS_CardinalityType
    <3> QED
      BY <2>1, <2>4, <3>1, <3>2
  <2> QED
    BY <2>2, <2>3, <2>4, StepMisses
<1>3. IInv /\ Accounted => JobsKept
  <2> SUFFICES ASSUME IInv, NEW i \in Inputs, NEW w \in Workers, worker[w].job = i
               PROVE  /\ i \notin queue /\ result[i] = "none"
                      /\ \A v \in Workers \ {w} : worker[v].job # i
    BY DEF IInv, JobsPending, JobsKept
  <2>1. worker[w].at # "free"
    BY WorkerPlaces, RunnerAssumption DEF IInv
  <2> QED
    BY <2>1 DEF IInv, JobsDistinct, JobsPending
<1> QED
  BY <1>1, <1>2, <1>3, Invariant, PTL DEF Spec
=============================================================================
