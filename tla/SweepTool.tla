------------------------------ MODULE SweepTool ------------------------------
(***************************************************************************)
(* The checkpointed sweep tools pn_junction_iv, mos_capacitor_cv and       *)
(* mosfet_2d_id of src/tcad_agent/tools: one run id, its directory, its    *)
(* state.json, and the calls that create or resume it one after another,   *)
(* any of which may die at any point.  A call runs the DEVSIM runner again *)
(* with halved bias steps while it fails to converge.                      *)
(*                                                                         *)
(* The tools are one algorithm.  pn_junction_iv and mos_capacitor_cv have  *)
(* one bias axis, mosfet_2d_id has two; the last two report FAILED when    *)
(* the quality report of a finished sweep is failed.  What a runner does   *)
(* is its outcome; ProcessControl models how it is run.                    *)
(***************************************************************************)
EXTENDS Integers, Sequences

CONSTANTS
    Axes,           \* the bias axes that have a step of their own
    Step,           \* Step[a]: the step the request asks for
    MinStep,        \* MinStep[a]: its min_step
    MaxAttempts,    \* max_attempts of the request, the same in every call
    QualityDecides, \* a failed quality report makes the state FAILED
    MaxCalls        \* bound: calls of the tool in a behaviour

\* validate_sweep: 0 < min_step <= step.  max_attempts is at least 1.
ASSUME StepAssumption ==
    /\ Step \in [Axes -> Nat \ {0}] /\ MinStep \in [Axes -> Nat \ {0}]
    /\ \A a \in Axes : MinStep[a] <= Step[a]
ASSUME CallAssumption ==
    /\ MaxAttempts \in Nat \ {0} /\ MaxCalls \in Nat /\ QualityDecides \in BOOLEAN

VARIABLES
    dir,      \* the run directory exists
    file,     \* the state.json in it
    mem,      \* the state the call at work holds
    pc,       \* where the call is
    step,     \* the steps of its next attempt
    ret,      \* how the last call ended
    launched, \* history: launched[k] runners were given directory attempt_k
    calls     \* calls made

vars == <<dir, file, mem, pc, step, ret, launched, calls>>

Steps == [Axes -> Nat]
FailureClasses == {"none", "convergence", "timeout", "output_missing", "other"}
Attempt == [status: {"running", "completed", "failed"}, step: Steps, class: FailureClasses]
State == [status: {"absent", "running", "completed", "failed"},
          attempts: Seq(Attempt), summary: BOOLEAN]
NoState == [status |-> "absent", attempts |-> << >>, summary |-> FALSE]
Indexes == 1 .. MaxAttempts * (MaxCalls + 1)

TypeOK ==
    /\ dir \in BOOLEAN
    /\ file \in State /\ mem \in State
    /\ pc \in {"idle", "made", "attempting", "launching", "waiting", "judging"}
    /\ step \in Steps
    /\ ret \in {"none", "completed", "failed", "raised"}
    /\ launched \in [Indexes -> Nat]
    /\ calls \in 0 .. MaxCalls

Init ==
    /\ dir = FALSE /\ file = NoState /\ mem = NoState
    /\ pc = "idle" /\ step = Step /\ ret = "none"
    /\ launched = [k \in Indexes |-> 0] /\ calls = 0

-----------------------------------------------------------------------------
\* What a runner that has ended makes of its attempt: a summary, no summary,
\* an output that is not JSON (classify_failure calls return code 0 "none"),
\* the classes of a non-zero return code, and the time limit.
Outcomes ==
    {[status |-> "completed", class |-> "none"]} \cup
    {[status |-> "failed", class |-> c] : c \in FailureClasses}

Halvable(s, a) == s[a] >= 2 * MinStep[a]

\* Mutant: an axis at its min_step is left out of the next attempt.
HalvedToRest(s) == [a \in {b \in Axes : Halvable(s, b)} |-> s[a] \div 2]

\* max(step / 2, min_step) on every axis; the code's steps are floats, here a
\* half is rounded down to the unit the steps are counted in.
Halved(s) == [a \in Axes |-> IF Halvable(s, a) THEN s[a] \div 2 ELSE MinStep[a]]

Latest(attempts) == attempts[Len(attempts)]

\* Mutant: a resumed sweep starts again with the steps of the request.
RequestedStep(attempts) == Step

\* latest_retry_step
LatestRetryStep(attempts) ==
    IF attempts = << >> THEN Step
    ELSE IF Latest(attempts).status = "failed" /\ Latest(attempts).class = "convergence"
         THEN Halved(Latest(attempts).step)
         ELSE Latest(attempts).step

\* should_retry_with_smaller_step, with the index of the next attempt
ShouldRetry(attempt, next) ==
    /\ attempt.class = "convergence"
    /\ next <= MaxAttempts
    /\ \E a \in Axes : Halvable(attempt.step, a)

\* write_state: the call's state becomes the file.
Write(state) == mem' = state /\ file' = state

-----------------------------------------------------------------------------
Return(how) == pc' = "idle" /\ ret' = how

Begin ==
    /\ pc = "idle" /\ calls < MaxCalls
    /\ calls' = calls + 1

\* Mutant: mkdir(exist_ok=True).
CreateOver ==
    /\ Begin
    /\ dir' = TRUE /\ pc' = "made"
    /\ UNCHANGED <<file, mem, step, ret, launched>>

\* prepare_state without resume: mkdir(exist_ok=False) ...
Create ==
    /\ Begin
    /\ IF dir THEN Return("raised") /\ UNCHANGED dir
       ELSE dir' = TRUE /\ pc' = "made" /\ UNCHANGED ret
    /\ UNCHANGED <<file, mem, step, launched>>

\* ... and then the first state.json.
CreateState ==
    /\ pc = "made"
    /\ Write([NoState EXCEPT !.status = "running"])
    /\ step' = Step /\ pc' = "attempting"
    /\ UNCHANGED <<dir, ret, launched, calls>>

\* Mutant: the resumed call takes the interrupted attempt up again.
ResumeInterrupted ==
    /\ Begin
    /\ file.status \in {"running", "failed"}
    /\ mem' = [file EXCEPT !.attempts = SelectSeq(@, LAMBDA x : x.status # "running")]
    /\ step' = LatestRetryStep(mem'.attempts)
    /\ pc' = "attempting" /\ UNCHANGED <<ret, dir, file, launched>>

\* prepare_state with resume.
Resume ==
    /\ Begin
    /\ \/ file.status = "absent" /\ Return("raised") /\ UNCHANGED <<mem, step>>
       \/ file.status = "completed" /\ Return("completed") /\ UNCHANGED <<mem, step>>
       \/ /\ file.status \in {"running", "failed"}
          /\ mem' = file /\ step' = LatestRetryStep(file.attempts)
          /\ pc' = "attempting" /\ UNCHANGED ret
    /\ UNCHANGED <<dir, file, launched>>

Running == [status |-> "running", step |-> step, class |-> "none"]

\* Mutant: one attempt more than max_attempts.
RecordOneMore ==
    /\ pc = "attempting" /\ Len(mem.attempts) <= MaxAttempts
    /\ Write([mem EXCEPT !.attempts = Append(@, Running)])
    /\ pc' = "launching"
    /\ UNCHANGED <<dir, step, ret, launched, calls>>

\* run_attempt records the attempt before it starts the runner.
Record ==
    /\ pc = "attempting" /\ Len(mem.attempts) < MaxAttempts
    /\ Write([mem EXCEPT !.attempts = Append(@, Running)])
    /\ pc' = "launching"
    /\ UNCHANGED <<dir, step, ret, launched, calls>>

\* The loop is over before it starts: a resumed state has had its attempts.
Exhausted ==
    /\ pc = "attempting" /\ Len(mem.attempts) >= MaxAttempts
    /\ Write([mem EXCEPT !.status = "failed"])
    /\ Return("failed")
    /\ UNCHANGED <<dir, step, launched, calls>>

\* The runner starts, in the directory of its attempt.
Launch ==
    /\ pc = "launching" /\ pc' = "waiting"
    /\ launched' = [launched EXCEPT ![Len(mem.attempts)] = @ + 1]
    /\ UNCHANGED <<dir, file, mem, step, ret, calls>>

\* run_attempt writes down how the runner ended.
RunnerEnds ==
    /\ pc = "waiting" /\ pc' = "judging"
    /\ \E o \in Outcomes :
         Write([mem EXCEPT !.attempts[Len(mem.attempts)] =
                  [status |-> o.status, step |-> @.step, class |-> o.class]])
    /\ UNCHANGED <<dir, step, ret, launched, calls>>

\* Mutant: a report that is not good completes the state without its summary.
SucceedEarly ==
    /\ pc = "judging" /\ Latest(mem.attempts).status = "completed"
    /\ Write([mem EXCEPT !.status = "completed"])
    /\ Return("completed")
    /\ UNCHANGED <<dir, step, launched, calls>>

\* The status a finished sweep gives its state.
Finished(good) == IF good \/ ~QualityDecides THEN "completed" ELSE "failed"

Succeed ==
    /\ pc = "judging" /\ Latest(mem.attempts).status = "completed"
    /\ \E good \in BOOLEAN :
         /\ Write([mem EXCEPT !.status = Finished(good), !.summary = TRUE])
         /\ Return(Finished(good))
    /\ UNCHANGED <<dir, step, launched, calls>>

\* Reading summary.json, judging it or writing the deck artifacts raises: the
\* state stays at work, with an attempt that completed.
JudgingRaises ==
    /\ pc = "judging" /\ Latest(mem.attempts).status = "completed"
    /\ Return("raised")
    /\ UNCHANGED <<dir, file, mem, step, launched, calls>>

\* Mutant: the loop waits for an attempt that can be halved.
FailOnTimeout ==
    /\ pc = "judging" /\ Latest(mem.attempts).status = "failed"
    /\ Latest(mem.attempts).class # "convergence"
    /\ Write([mem EXCEPT !.status = "failed"])
    /\ Return("failed")
    /\ UNCHANGED <<dir, step, launched, calls>>

Retry ==
    /\ pc = "judging" /\ Latest(mem.attempts).status = "failed"
    /\ ShouldRetry(Latest(mem.attempts), Len(mem.attempts) + 1)
    /\ step' = Halved(Latest(mem.attempts).step)
    /\ Write(mem) /\ pc' = "attempting"
    /\ UNCHANGED <<dir, ret, launched, calls>>

Fail ==
    /\ pc = "judging" /\ Latest(mem.attempts).status = "failed"
    /\ ~ShouldRetry(Latest(mem.attempts), Len(mem.attempts) + 1)
    /\ Write([mem EXCEPT !.status = "failed"])
    /\ Return("failed")
    /\ UNCHANGED <<dir, step, launched, calls>>

\* The process of the tool dies.
Crash ==
    /\ pc # "idle" /\ pc' = "idle" /\ ret' = "none"
    /\ UNCHANGED <<dir, file, mem, step, launched, calls>>

Loop == \/ CreateState \/ Record \/ Exhausted \/ Launch \/ RunnerEnds
        \/ Succeed \/ JudgingRaises \/ Retry \/ Fail
Next == Create \/ Resume \/ Loop \/ Crash

\* A call runs on; its runner ends because run_cancellable has a timeout.
Spec == Init /\ [][Next]_vars /\ WF_vars(Loop)

-----------------------------------------------------------------------------
\* Crashes and resumptions give no runner the directory of another, which may
\* still be writing there: the attempt is in state.json before its runner is.
OneRunnerPerDirectory == \A k \in Indexes : launched[k] <= 1

\* What the request allows of an attempt's steps, and the attempt before it.
WithinRequest(s) == \A a \in Axes : s[a] \in MinStep[a] .. Step[a]
MayFollow(before, now) ==
    /\ now.step # before.step => before.class = "convergence"
    /\ \A a \in Axes : now.step[a] \in before.step[a] \div 2 .. before.step[a]

Descend(attempts) ==
    /\ \A k \in DOMAIN attempts : WithinRequest(attempts[k].step)
    /\ \A k \in 2 .. Len(attempts) : MayFollow(attempts[k - 1], attempts[k])

\* Over all calls, the steps go down only after an attempt that failed to
\* converge, at most by half, and never below min_step.
StepsDescend == Descend(file.attempts)

\* max_attempts counts the attempts of a run id, not of a call.
AttemptsWithinMax == Len(file.attempts) <= MaxAttempts

\* A completed state.json rests on an attempt that completed and on a summary.
CompletedHasSummary ==
    file.status = "completed" => file.summary /\ Latest(file.attempts).status = "completed"

\* What readers of state.json are promised, whatever calls, crashes and runners
\* do: RunRecord.
Record_ == INSTANCE RunRecord WITH
    status <- file.status,
    outcomes <- [k \in DOMAIN file.attempts |-> file.attempts[k].status]
RunIsRecord == Record_!RecordSpec

\* A call that does not die returns.
CallReturns == (pc # "idle") ~> (pc = "idle")

\* A run id keeps its promises over all the calls that work on it: an attempt is
\* in state.json before its runner is started in its directory, the attempts
\* and their steps obey the request, and "completed" rests on an attempt.
SweepInvariant ==
    TypeOK /\ OneRunnerPerDirectory /\ StepsDescend /\ AttemptsWithinMax /\ CompletedHasSummary
=============================================================================
