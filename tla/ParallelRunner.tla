--------------------------- MODULE ParallelRunner ---------------------------
(***************************************************************************)
(* ss-analysis-parallel.py: a pool of workers runs opt on every input of   *)
(* the dataset.  What outlives a run is the dataset directory: a later run *)
(* takes an input whose output.txt exists for one that is done.            *)
(*                                                                         *)
(* opt is started in a session of its own, so it goes on, and goes on      *)
(* writing its output file, when the runner or its worker is killed.       *)
(* A run may be killed and started again, a worker may be killed alone     *)
(* (the pool replaces it, its job is lost), and opt may fail or hang.      *)
(* Tests of one condition and the step that follows it are separate steps  *)
(* where the code gives another process time to act between them.          *)
(***************************************************************************)
EXTENDS Integers, FiniteSets

CONSTANTS Inputs,      \* the inputs, dataset/<NAME>/<N>.input.txt
          Workers,     \* the processes of the Pool
          Nobody, NoInput, \* stand for no worker and for no input
          HasTimeout,  \* --timeout is given
          MaxRuns, MaxKills, MaxLosses \* bounds: runs, killed runs and workers

ASSUME RunnerAssumption ==
    /\ Nobody \notin Workers /\ NoInput \notin Inputs
    /\ IsFiniteSet(Inputs) /\ HasTimeout \in BOOLEAN
    /\ {MaxRuns, MaxKills, MaxLosses} \subseteq Nat

VARIABLES
    output,  \* output.txt of each input: absent, partial or whole
    opt,     \* the opt process that writes it: none, running, 0 or 1 (exited)
    owner,   \* the worker that waits for that process, or Nobody
    run,     \* the runner: idle, running or done
    queue,   \* the jobs the pool has not handed out
    worker,  \* what each worker does, and for which input
    result,  \* the tuples the runner has received: none, ok, skipped, failed or timeout
    runs, kills, losses

vars == <<output, opt, owner, run, queue, worker, result, runs, kills, losses>>
counters == <<runs, kills, losses>>

Free == [at |-> "free", job |-> NoInput]

Init ==
    /\ output = [i \in Inputs |-> "absent"]
    /\ opt = [i \in Inputs |-> "none"] /\ owner = [i \in Inputs |-> Nobody]
    /\ run = "idle" /\ queue = {} /\ worker = [w \in Workers |-> Free]
    /\ result = [i \in Inputs |-> "none"]
    /\ runs = 0 /\ kills = 0 /\ losses = 0

-----------------------------------------------------------------------------
(* The runner *)

StartRun ==
    /\ run # "running" /\ runs < MaxRuns
    /\ run' = "running" /\ queue' = Inputs /\ runs' = runs + 1
    /\ result' = [i \in Inputs |-> "none"]
    /\ UNCHANGED <<output, opt, owner, worker, kills, losses>>

\* imap_unordered has yielded a tuple for every job.
EndRun ==
    /\ run = "running" /\ \A i \in Inputs : result[i] # "none"
    /\ run' = "done"
    /\ UNCHANGED <<output, opt, owner, queue, worker, result, counters>>

\* What becomes of the opt processes whose worker is gone: one that runs goes
\* on, one that has exited is reaped by init.
Orphaned(lost) ==
    /\ owner' = [i \in Inputs |-> IF owner[i] \in lost THEN Nobody ELSE owner[i]]
    /\ opt' = [i \in Inputs |->
                 IF owner[i] \in lost /\ opt[i] # "running" THEN "none" ELSE opt[i]]

\* Ctrl-C or a lost terminal ends runner and workers; not opt, whose session
\* is its own.
KillRun ==
    /\ run = "running" /\ kills < MaxKills /\ kills' = kills + 1
    /\ run' = "idle" /\ queue' = {} /\ worker' = [w \in Workers |-> Free]
    /\ Orphaned(Workers)
    /\ result' = [i \in Inputs |-> "none"]
    /\ UNCHANGED <<output, runs, losses>>

-----------------------------------------------------------------------------
(* process_input_file, one worker *)

At(w, place) == run = "running" /\ worker[w].at = place

\* Variant: the worker keeps the job it has returned
ReturnKeeping(w, i, outcome) ==
    /\ result' = [result EXCEPT ![i] = outcome]
    /\ worker' = [worker EXCEPT ![w].at = "free"]

Return(w, i, outcome) ==
    /\ result' = [result EXCEPT ![i] = outcome]
    /\ worker' = [worker EXCEPT ![w] = Free]

\* Variant: a job starts whether or not its output exists
TakeRegardless(w) ==
    \E i \in queue :
      /\ At(w, "free") /\ queue' = queue \ {i}
      /\ worker' = [worker EXCEPT ![w] = [at |-> "open", job |-> i]]
      /\ UNCHANGED <<output, opt, owner, run, counters, result>>

\* "Skip if output file already exists".  The pool hands the jobs out in the
\* order of the names; here in any order.
Take(w) ==
    \E i \in queue :
      /\ At(w, "free") /\ queue' = queue \ {i}
      /\ IF output[i] = "absent"
         THEN /\ worker' = [worker EXCEPT ![w] = [at |-> "open", job |-> i]]
              /\ UNCHANGED result
         ELSE Return(w, i, "skipped")
      /\ UNCHANGED <<output, opt, owner, run, counters>>

\* The input cannot be read; this comes before the test for the output.
ReadFails(w) ==
    \E i \in queue :
      /\ At(w, "free") /\ queue' = queue \ {i} /\ Return(w, i, "failed")
      /\ UNCHANGED <<output, opt, owner, run, counters>>

\* open(output_file, 'w') and Popen
Start(w) ==
    LET i == worker[w].job IN
    /\ At(w, "open")
    /\ output' = [output EXCEPT ![i] = "partial"]
    /\ opt' = [opt EXCEPT ![i] = "running"]
    /\ owner' = [owner EXCEPT ![i] = w]
    /\ worker' = [worker EXCEPT ![w].at = "wait"]
    /\ UNCHANGED <<run, queue, result, counters>>

\* Popen, or the open, raises: "except Exception".
StartFails(w) ==
    LET i == worker[w].job IN
    /\ At(w, "open")
    /\ output' \in {output, [output EXCEPT ![i] = "partial"]}
    /\ Return(w, i, "failed")
    /\ UNCHANGED <<opt, owner, run, queue, counters>>

Reap(i) ==
    /\ opt' = [opt EXCEPT ![i] = "none"]
    /\ owner' = [owner EXCEPT ![i] = Nobody]

\* Variant: the exit code of opt is not looked at
FinishRegardless(w) ==
    LET i == worker[w].job IN
    /\ At(w, "wait") /\ opt[i] \in {"0", "1"} /\ Reap(i) /\ Return(w, i, "ok")
    /\ UNCHANGED <<output, run, queue, counters>>

\* proc.wait returns, two lines are appended, which may raise, and returncode
\* decides; the output of a job that failed stays.
Finish(w) ==
    LET i == worker[w].job IN
    /\ At(w, "wait") /\ opt[i] \in {"0", "1"} /\ Reap(i)
    /\ \/ Return(w, i, IF opt[i] = "0" THEN "ok" ELSE "failed")
       \/ Return(w, i, "failed")
    /\ UNCHANGED <<output, run, queue, counters>>

\* Variant: the time limit is not passed on to wait
ExpireNever(w) == FALSE /\ UNCHANGED vars

\* proc.wait raises TimeoutExpired.  opt may exit before the next step.
Expire(w) ==
    /\ HasTimeout /\ At(w, "wait") /\ opt[worker[w].job] = "running"
    /\ worker' = [worker EXCEPT ![w].at = "kill"]
    /\ UNCHANGED <<output, opt, owner, run, queue, result, counters>>

\* Variant: only the child of the worker, /usr/bin/time, is killed
KillWrapper(w) ==
    /\ At(w, "kill")
    /\ owner' = [owner EXCEPT ![worker[w].job] = Nobody]
    /\ worker' = [worker EXCEPT ![w].at = "remove"]
    /\ UNCHANGED <<output, opt, run, queue, result, counters>>

\* killpg takes opt with it, and finds no process if opt has exited.
Kill(w) ==
    /\ At(w, "kill") /\ Reap(worker[w].job)
    /\ worker' = [worker EXCEPT ![w].at = "remove"]
    /\ UNCHANGED <<output, run, queue, result, counters>>

\* Variant: the handler of the timeout returns no tuple
RemoveSilently(w) ==
    /\ At(w, "remove")
    /\ output' = [output EXCEPT ![worker[w].job] = "absent"]
    /\ worker' = [worker EXCEPT ![w] = Free]
    /\ UNCHANGED <<opt, owner, run, queue, result, counters>>

\* os.remove(output_file)
Remove(w) ==
    LET i == worker[w].job IN
    /\ At(w, "remove")
    /\ output' = [output EXCEPT ![i] = "absent"]
    /\ Return(w, i, "timeout")
    /\ UNCHANGED <<opt, owner, run, queue, counters>>

\* The OOM killer takes a worker; the pool starts another in its place and
\* never learns what became of the job.
LoseWorker(w) ==
    /\ run = "running" /\ worker[w] # Free
    /\ losses < MaxLosses /\ losses' = losses + 1
    /\ worker' = [worker EXCEPT ![w] = Free]
    /\ Orphaned({w})
    /\ UNCHANGED <<output, run, queue, result, runs, kills>>

Work(w) ==
    \/ Take(w) \/ ReadFails(w) \/ Start(w) \/ StartFails(w)
    \/ Finish(w) \/ Expire(w) \/ Kill(w) \/ Remove(w)

-----------------------------------------------------------------------------
(* opt: it finishes the report, or fails before.  It may also never end. *)

OptSucceeds(i) ==
    /\ opt[i] = "running"
    /\ output' = [output EXCEPT ![i] = "whole"]
    /\ opt' = [opt EXCEPT ![i] = IF owner[i] = Nobody THEN "none" ELSE "0"]
    /\ UNCHANGED <<owner, run, queue, worker, result, counters>>

OptFails(i) ==
    /\ opt[i] = "running"
    /\ opt' = [opt EXCEPT ![i] = IF owner[i] = Nobody THEN "none" ELSE "1"]
    /\ UNCHANGED <<output, owner, run, queue, worker, result, counters>>

Terminated ==
    /\ run # "running" /\ runs = MaxRuns
    /\ UNCHANGED vars

Next ==
    \/ StartRun \/ EndRun \/ KillRun
    \/ \E w \in Workers : Work(w) \/ LoseWorker(w)
    \/ \E i \in Inputs : OptSucceeds(i) \/ OptFails(i)
    \/ Terminated

\* A worker that can take a step does, and so does the runner; the operating
\* system gives them the processor.  Nothing makes opt end.
Spec == /\ Init /\ [][Next]_vars
        /\ WF_vars(EndRun) /\ \A w \in Workers : WF_vars(Work(w))

-----------------------------------------------------------------------------
(* Properties *)

\* Every variable of the runner and of the dataset has its type.
TypeOK ==
    /\ output \in [Inputs -> {"absent", "partial", "whole"}]
    /\ opt \in [Inputs -> {"none", "running", "0", "1"}]
    /\ owner \in [Inputs -> Workers \cup {Nobody}]
    /\ run \in {"idle", "running", "done"} /\ queue \subseteq Inputs
    /\ worker \in [Workers -> {Free} \cup
                      [at : {"open", "wait", "kill", "remove"}, job : Inputs]]
    /\ result \in [Inputs -> {"none", "ok", "skipped", "failed", "timeout"}]
    /\ runs \in 0..MaxRuns /\ kills \in 0..MaxKills /\ losses \in 0..MaxLosses

\* Two opt processes never write one output.txt: the job that is about to open
\* it (148) finds neither a file nor an orphan of an earlier run that would go
\* on writing it.
OneWriter ==
    \A w \in Workers :
        At(w, "open") => /\ output[worker[w].job] = "absent"
                         /\ opt[worker[w].job] = "none"
                         /\ \A v \in Workers \ {w} : worker[v].job # worker[w].job

\* A job counted as completed (190-191) has left a report that is whole, and
\* stays so until the end of the run.
OkIsWhole == \A i \in Inputs : result[i] = "ok" => output[i] = "whole"

\* A job that timed out (172-180) leaves no output.txt, which a later run would
\* take for a report, and no opt that goes on consuming memory, even if opt
\* ended, well or not, while it was being killed.
TimedOutRemoved ==
    \A i \in Inputs : result[i] = "timeout" => output[i] = "absent" /\ opt[i] = "none"

\* A report that is whole and that no job is about to remove for its timeout
\* is never truncated or removed, by this run or by a later one (97-99).
Settled(i) ==
    /\ output[i] = "whole" /\ opt[i] = "none"
    /\ \A w \in Workers : worker[w].job = i => worker[w].at \notin {"kill", "remove"}
ReportsKept == [][\A i \in Inputs : Settled(i) => output'[i] = "whole"]_vars

\* The jobs of a run that are nowhere: neither queued, nor held, nor reported
Missing ==
    {i \in Inputs : /\ run = "running" /\ i \notin queue /\ result[i] = "none"
                    /\ \A w \in Workers : worker[w].job # i}

\* imap_unordered yields a tuple for every job and one only (312-317): a job is
\* queued, or held by one worker, or reported, through every failure and timeout
\* of opt; and a worker that is lost takes no job with it but the one it holds.
JobsKept ==
    /\ \A i \in queue : result[i] = "none"
    /\ \A i \in Inputs, w \in Workers : worker[w].job = i =>
          /\ i \notin queue /\ result[i] = "none"
          /\ \A v \in Workers \ {w} : worker[v].job # i
    /\ Cardinality(Missing) <= losses

\* With a time limit every run comes to its summary (321) or is killed, though
\* opt may hang: the time limit frees the worker (163-180).  A run that lost a
\* worker waits for its job for ever.
RunEnds == run = "running" ~> (run # "running" \/ losses > 0)

\* A job reported as a success (99, 191) has a whole report.  FALSE of the
\* code: an opt that failed, or was orphaned, leaves a part of one (186-187),
\* and the next run takes it for a report.
SuccessMeansAnalysed ==
    \A i \in Inputs : result[i] \in {"ok", "skipped"} => output[i] = "whole"
=============================================================================
