--------------------------- MODULE EvaluationMatrix ---------------------------
(***************************************************************************)
(* A matrix of simulated trials: matrix_executor.py with isolation.py and  *)
(* matrix.py.                                                              *)
(*                                                                         *)
(* The workers of a pool take the cells in order.  A worker allocates a    *)
(* ROS domain under file locks, launches a simulation in a process group   *)
(* of its own, checks that it is ready, runs the evaluation and records    *)
(* the outcome; then it ends the process group and unlocks the domain.     *)
(* Other users of the machine take domains of the same pool.  The matrix   *)
(* may be invoked again over the same output directory.                    *)
(***************************************************************************)
EXTENDS Integers, FiniteSets

CONSTANTS
    Cells,              \* 1..n, in the order of expand_matrix
    Workers,            \* --jobs
    Domains,            \* EVALUATION_DOMAIN_MIN..EVALUATION_DOMAIN_MAX
    NoOne,              \* nobody holds a lock
    Foreign,            \* another user of the pool of domains
    MaxInvocations,     \* bound: runs of the tool over one output directory
    MaxWorkerDeaths

ASSUME MatrixAssumption ==
    /\ Domains \subseteq Nat /\ \E low, high \in Domains : Domains = low .. high
    /\ Cells \subseteq Nat \ {0}
    /\ NoOne \notin Workers \union {Foreign} /\ Foreign \notin Workers

Outcomes == {"passed", "functional_failure", "setup_failure"}
IdleWorker == [cell |-> 0, at |-> "idle", domain |-> 0]

VARIABLES
    invocation, \* number of the invocation and whether it runs
    todo,       \* cells of this invocation no worker has taken
    worker,     \* cell, stage and domain of every worker
    locks,      \* holder of each domain lock
    nextDomain, \* the file next-domain
    sims,       \* running simulations: domain, and the worker that owns them
    bundle,     \* per cell, summary.json: the invocation that evaluated, 0 none
    recorded,   \* per cell, matrix_trial.result in summary.json
    exitCode, deaths

matrixVars == <<invocation, todo, worker, locks, nextDomain, sims, bundle, recorded,
                exitCode, deaths>>

MatrixTypeOK ==
    /\ invocation.n \in 0..MaxInvocations /\ invocation.on \in BOOLEAN
    /\ todo \subseteq Cells
    /\ \A w \in Workers : worker[w].cell \in Cells \union {0}
    /\ locks \in [Domains -> Workers \union {NoOne, Foreign}]
    /\ nextDomain \in Domains
    /\ bundle \in [Cells -> [exists : BOOLEAN, by : 0..MaxInvocations]]
    /\ recorded \in [Cells -> Outcomes \union {"none"}]
    /\ exitCode \in {"none", "ok", "failed"}
    /\ deaths \in 0..MaxWorkerDeaths

-----------------------------------------------------------------------------
(* The domain an allocation tries after k others.                          *)
Offset(k) == LET low == CHOOSE d \in Domains : \A e \in Domains : d <= e
             IN  low + ((nextDomain - low + k) % Cardinality(Domains))

Free == {k \in 0..Cardinality(Domains) - 1 : locks[Offset(k)] = NoOne}

(* Broken variant: the allocator believes its own counter.                 *)
SelectedByCounter == nextDomain

(* allocated_trial_isolation: the first domain whose lock is free.         *)
SelectedDomain == Offset(CHOOSE k \in Free : \A j \in Free : k <= j)

(* _trial_result: a missing or unreadable summary counts as setup failure. *)
TrialResult(c) == IF recorded[c] = "none" THEN "setup_failure" ELSE recorded[c]

(* matrix_exit_code.                                                       *)
MatrixExitCode ==
    IF \E c \in Cells : TrialResult(c) \in {"setup_failure", "functional_failure"} THEN "failed" ELSE "ok"

Step(w, at) == worker' = [worker EXCEPT ![w].at = at]

(* _failure_bundle: summary.json is replaced by one without an evaluation. *)
FailureBundle(c) ==
    /\ bundle' = [bundle EXCEPT ![c] = [exists |-> TRUE, by |-> 0]]
    /\ recorded' = [recorded EXCEPT ![c] = "setup_failure"]

-----------------------------------------------------------------------------
MatrixInit ==
    /\ invocation = [n |-> 0, on |-> FALSE, rerun |-> FALSE]
    /\ todo = {}
    /\ worker = [w \in Workers |-> IdleWorker]
    /\ locks = [d \in Domains |-> NoOne]
    /\ nextDomain = CHOOSE d \in Domains : \A e \in Domains : d <= e
    /\ sims = {}
    /\ bundle = [c \in Cells |-> [exists |-> FALSE, by |-> 0]]
    /\ recorded = [c \in Cells |-> "none"]
    /\ exitCode = "none" /\ deaths = 0

(* main: every cell, or with --rerun-setup-failures those that failed.     *)
Invokes(rerun) ==
    /\ ~invocation.on /\ invocation.n < MaxInvocations
    /\ \A w \in Workers : worker[w] = IdleWorker
    /\ invocation' = [n |-> invocation.n + 1, on |-> TRUE, rerun |-> rerun]
    /\ todo' = IF rerun THEN {c \in Cells : TrialResult(c) = "setup_failure"} ELSE Cells
    /\ exitCode' = "none"
    /\ UNCHANGED <<worker, locks, nextDomain, sims, bundle, recorded, deaths>>

(* run_trial: the lock of a domain is taken for the whole trial, or there  *)
(* is none left.                                                           *)
TakesCell(w) ==
    /\ invocation.on /\ todo # {} /\ worker[w] = IdleWorker
    /\ LET c == CHOOSE x \in todo : \A y \in todo : x <= y
       IN /\ todo' = todo \ {c}
          /\ IF Free # {}
             THEN /\ locks' = [locks EXCEPT ![SelectedDomain] = w]
                  /\ nextDomain' = Offset((CHOOSE k \in Free : \A j \in Free : k <= j) + 1)
                  /\ worker' = [worker EXCEPT ![w] = [cell |-> c, at |-> "launch", domain |-> SelectedDomain]]
                  /\ UNCHANGED <<bundle, recorded>>
             ELSE FailureBundle(c) /\ UNCHANGED <<locks, nextDomain, worker>>
    /\ UNCHANGED <<invocation, sims, exitCode, deaths>>

(* _run_trial_lifecycle up to Popen; a parameter file may be missing.      *)
Launches(w) ==
    /\ worker[w].at = "launch"
    /\ \/ /\ sims' = sims \union {[domain |-> worker[w].domain, owner |-> w]}
          /\ Step(w, "wait_ready") /\ UNCHANGED <<bundle, recorded>>
       \/ FailureBundle(worker[w].cell) /\ Step(w, "unlock") /\ UNCHANGED sims
    /\ UNCHANGED <<invocation, todo, locks, nextDomain, exitCode, deaths>>

(* _wait_ready, then the parameters are set and read back.                 *)
WaitsReady(w) ==
    /\ worker[w].at = "wait_ready"
    /\ \/ Step(w, "evaluate") /\ UNCHANGED <<bundle, recorded>>
       \/ FailureBundle(worker[w].cell) /\ Step(w, "terminate")
    /\ UNCHANGED <<invocation, todo, locks, nextDomain, sims, exitCode, deaths>>

(* Broken variant: the return code of the evaluation alone is recorded.    *)
RecordedByReturnCode(c, ok, wrote) ==
    /\ bundle' = [bundle EXCEPT ![c] = IF wrote THEN [exists |-> TRUE, by |-> invocation.n] ELSE @]
    /\ recorded' = [recorded EXCEPT ![c] = "passed"]

(* What the executor makes of an evaluation with this return code and,     *)
(* perhaps, a summary.                                                     *)
Records(c, ok, wrote) ==
    IF wrote \/ bundle[c].exists
    THEN /\ bundle' = [bundle EXCEPT ![c] = IF wrote THEN [exists |-> TRUE, by |-> invocation.n] ELSE @]
         /\ recorded' = [recorded EXCEPT ![c] = IF ok THEN "passed" ELSE "functional_failure"]
    ELSE FailureBundle(c)

(* navigation_evaluation: it returns 0 only after it wrote its summary.    *)
Evaluates(w) ==
    /\ worker[w].at = "evaluate"
    /\ \E ok \in BOOLEAN, wrote \in BOOLEAN : (ok => wrote) /\ Records(worker[w].cell, ok, wrote)
    /\ Step(w, "terminate")
    /\ UNCHANGED <<invocation, todo, locks, nextDomain, sims, exitCode, deaths>>

(* Broken variant: the domain is unlocked while the simulation ends.       *)
TerminatesLater(w) ==
    /\ worker[w].at = "terminate"
    /\ Step(w, "unlock") /\ UNCHANGED sims
    /\ UNCHANGED <<invocation, todo, locks, nextDomain, bundle, recorded, exitCode, deaths>>

(* _terminate_process_group: TERM, then KILL, until no process is left.    *)
Terminates(w) ==
    /\ worker[w].at = "terminate"
    /\ sims' = sims \ {[domain |-> worker[w].domain, owner |-> w]}
    /\ Step(w, "unlock")
    /\ UNCHANGED <<invocation, todo, locks, nextDomain, bundle, recorded, exitCode, deaths>>

Unlocks(w) ==
    /\ worker[w].at = "unlock"
    /\ locks' = [locks EXCEPT ![worker[w].domain] = NoOne]
    /\ worker' = [worker EXCEPT ![w] = IdleWorker]
    /\ UNCHANGED <<invocation, todo, nextDomain, sims, bundle, recorded, exitCode, deaths>>

(* A worker process dies: the system unlocks its domain, its simulation    *)
(* has a session of its own and goes on.  The pool is broken; main writes  *)
(* a failure bundle for every cell that has no result.                     *)
WorkerDies(w) ==
    /\ worker[w].at # "idle" /\ deaths < MaxWorkerDeaths
    /\ LET lost == todo \union {worker[v].cell : v \in {x \in Workers : worker[x] # IdleWorker}}
       IN /\ bundle' = [c \in Cells |-> IF c \in lost THEN [exists |-> TRUE, by |-> 0] ELSE bundle[c]]
          /\ recorded' = [c \in Cells |-> IF c \in lost THEN "setup_failure" ELSE recorded[c]]
    /\ locks' = [d \in Domains |-> IF locks[d] \in Workers THEN NoOne ELSE locks[d]]
    /\ sims' = {[s EXCEPT !.owner = NoOne] : s \in sims}
    /\ worker' = [v \in Workers |-> IdleWorker] /\ todo' = {}
    /\ deaths' = deaths + 1
    /\ UNCHANGED <<invocation, nextDomain, exitCode>>

(* write_matrix_artifacts and the exit code.                               *)
Finishes ==
    /\ invocation.on /\ todo = {} /\ \A w \in Workers : worker[w] = IdleWorker
    /\ invocation' = [invocation EXCEPT !.on = FALSE]
    /\ exitCode' = MatrixExitCode
    /\ UNCHANGED <<todo, worker, locks, nextDomain, sims, bundle, recorded, deaths>>

(* External: another user of the pool.                                     *)
ForeignLocks(d) ==
    /\ \/ locks[d] = NoOne /\ locks' = [locks EXCEPT ![d] = Foreign]
       \/ locks[d] = Foreign /\ locks' = [locks EXCEPT ![d] = NoOne]
    /\ UNCHANGED <<invocation, todo, worker, nextDomain, sims, bundle, recorded, exitCode, deaths>>

MatrixNext ==
    \/ Finishes \/ \E r \in BOOLEAN : Invokes(r) \/ \E d \in Domains : ForeignLocks(d)
    \/ \E w \in Workers : \/ TakesCell(w) \/ Launches(w) \/ WaitsReady(w) \/ Evaluates(w)
                          \/ Terminates(w) \/ Unlocks(w) \/ WorkerDies(w)

MatrixSpec == MatrixInit /\ [][MatrixNext]_matrixVars

-----------------------------------------------------------------------------
(* "Hold one collision-safe domain lock for the complete trial lifetime":  *)
(* simulations of living workers never share a domain, with each other or  *)
(* with another user.                                                      *)
DomainsAreExclusive ==
    \A s \in sims : s.owner \in Workers =>
        /\ locks[s.domain] = s.owner
        /\ \A t \in sims : t.owner \in Workers /\ t.domain = s.domain => t = s

(* A matrix that ends well had every one of its cells evaluated, in this   *)
(* invocation or in the one it completes.                                  *)
GoodExitIsEarned ==
    exitCode = "ok" => \A c \in Cells : recorded[c] = "passed" /\ bundle[c].by > 0

(* "navigation evaluation produced no summary" is a setup failure: a cell  *)
(* that failed in an evaluation has the summary of one.                    *)
FailureIsEvaluated ==
    \A c \in Cells : recorded[c] = "functional_failure" => bundle[c].by > 0
=============================================================================
