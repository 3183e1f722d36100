----------------------------- MODULE ToolsProofs -----------------------------
(***************************************************************************)
(* Proofs about everything that keeps a directory below runs/.             *)
(***************************************************************************)
EXTENDS MCTools, FiniteSetTheorems, WellFoundedInduction, TLAPS

AtWork == {"attempting", "launching", "waiting", "judging"}

\* What a call at work may take for granted: it holds what is in the file, the
\* attempt it works on is the last one there, and a directory without
\* state.json is the work of a call that is about to write it or has died.
CallInv ==
    /\ file.status \in {"absent", "completed"} => pc \in {"idle", "made"}
    /\ file.status = "absent" => file.attempts = << >>
    /\ file.status # "absent" \/ pc = "made" => dir
    /\ pc = "made" => file.status = "absent"
    /\ pc \in AtWork => mem = file
    /\ pc \in {"launching", "waiting"} =>
          file.attempts # << >> /\ Latest(file.attempts).status = "running"
    /\ pc = "judging" => file.attempts # << >>

\* The steps of the next attempt may follow those of the last one.
StepInv ==
    pc = "attempting" =>
        /\ WithinRequest(step)
        /\ file.attempts # << >> => MayFollow(Latest(file.attempts), Running)

\* No runner was given the directory of an attempt that is not in the file, nor
\* that of the attempt to be launched.
LaunchInv ==
    /\ \A k \in Indexes : k > Len(file.attempts) => launched[k] = 0
    /\ pc = "launching" => launched[Len(file.attempts)] = 0

SweepInv == SweepInvariant /\ CallInv /\ StepInv /\ LaunchInv

-----------------------------------------------------------------------------
\* The diode call's place, its directory, and the PN call it waits for.
DiodeCallInv ==
    /\ dpc # "called" => pc = "idle"
    /\ dfile # "absent" => ddir
    /\ dpc = "made" => dfile = "absent" /\ ddir
    /\ dpc \in {"calling", "called"} => dfile \in {"running", "failed"}
    /\ dpc = "called" => dir
    /\ dpc = "called" /\ pc = "idle" /\ ret \in {"completed", "failed"} => mem = file
    /\ dfile = "failed" => dir /\ pc = "idle"

DiodeInv == SweepInv /\ DiodeInvariant /\ DiodeCallInv

\* What the tool told the task that waits for it is still true.
TaskCallInv ==
    /\ tpc # "called" => pc = "idle"
    /\ tpc # "idle" => tret = "none"
    /\ tpc = "called" /\ pc = "idle" /\ ret = "completed" =>
          file.status = "completed" /\ file.summary
    /\ tpc = "called" /\ pc = "idle" /\ ret = "raised" /\ "resume" \in flags =>
          file.status = "absent" \/ Unjudged

TaskInv == SweepInv /\ TaskInvariant /\ TaskCallInv
-----------------------------------------------------------------------------
LEMMA Constants ==
  /\ Step \in [Axes -> Nat \ {0}] /\ MinStep \in [Axes -> Nat \ {0}]
  /\ \A a \in Axes : MinStep[a] <= Step[a]
  /\ MaxAttempts \in Nat \ {0} /\ MaxCalls \in Nat /\ QualityDecides \in BOOLEAN
  BY StepAssumption, CallAssumption

\* Every attempt has an entry in launched.
LEMMA AttemptIndex ==
  ASSUME NEW k \in 1 .. MaxAttempts
  PROVE  k \in Indexes
<1>1. MaxAttempts * (MaxCalls + 1) \in Nat /\ MaxAttempts <= MaxAttempts * (MaxCalls + 1)
  BY Constants
<1>2. QED
  BY <1>1, Constants DEF Indexes

\* Halving keeps the steps within the request and takes at most half away.
LEMMA HalvedSteps ==
  ASSUME NEW s \in Steps, WithinRequest(s)
  PROVE  /\ Halved(s) \in Steps /\ WithinRequest(Halved(s))
         /\ \A a \in Axes : Halved(s)[a] \in s[a] \div 2 .. s[a]
<1> USE DEF WithinRequest, Halved, Halvable, Steps
<1>1. ASSUME NEW a \in Axes
      PROVE  /\ Halved(s)[a] \in Nat
             /\ Halved(s)[a] \in MinStep[a] .. Step[a]
             /\ Halved(s)[a] \in s[a] \div 2 .. s[a]
  <2>1. s[a] \in Nat /\ MinStep[a] \in Nat /\ Step[a] \in Nat /\ s[a] \in MinStep[a] .. Step[a]
    BY Constants
  <2>2. CASE Halvable(s, a)
    BY <2>1, <2>2
  <2>3. CASE ~Halvable(s, a)
    BY <2>1, <2>3
  <2>4. QED
    BY <2>2, <2>3
<1>2. Halved(s) \in Steps
  BY <1>1
<1>3. QED
  BY <1>1, <1>2

\* A new attempt, at steps that may follow those of the last.
LEMMA AppendDescends ==
  ASSUME NEW q \in Seq(Attempt), NEW x \in Attempt, Descend(q), WithinRequest(x.step),
         q # << >> => MayFollow(Latest(q), x)
  PROVE  Append(q, x) \in Seq(Attempt) /\ Descend(Append(q, x)) /\ Latest(Append(q, x)) = x
<1> DEFINE r == Append(q, x)
<1>1. /\ r \in Seq(Attempt) /\ Len(r) = Len(q) + 1 /\ Len(q) \in Nat
      /\ r[Len(q) + 1] = x /\ \A k \in 1 .. Len(q) : r[k] = q[k]
      /\ DOMAIN q = 1 .. Len(q) /\ DOMAIN r = 1 .. Len(q) + 1
  OBVIOUS
<1>2. \A k \in DOMAIN r : WithinRequest(r[k].step)
  BY <1>1 DEF Descend
<1>3. ASSUME NEW k \in 2 .. Len(r)
      PROVE  MayFollow(r[k - 1], r[k])
  <2>1. CASE k <= Len(q)
    <3>1. k - 1 \in 1 .. Len(q) /\ k \in 2 .. Len(q) /\ k \in 1 .. Len(q)
      BY <1>1, <2>1
    <3>2. QED
      BY <1>1, <3>1 DEF Descend
  <2>2. CASE k = Len(q) + 1
    <3>1. q # << >> /\ k - 1 = Len(q) /\ Len(q) \in 1 .. Len(q)
      BY <1>1, <2>2
    <3>2. QED
      BY <1>1, <2>2, <3>1 DEF Latest
  <2>3. QED
    BY <1>1, <2>1, <2>2
<1>4. QED
  BY <1>1, <1>2, <1>3 DEF Descend, Latest

\* An attempt that ends keeps its steps.
LEMMA EndDescends ==
  ASSUME NEW q \in Seq(Attempt), q # << >>, NEW x \in Attempt, Descend(q),
         x.step = Latest(q).step
  PROVE  LET r == [q EXCEPT ![Len(q)] = x]
         IN  r \in Seq(Attempt) /\ Len(r) = Len(q) /\ Descend(r) /\ Latest(r) = x
<1> DEFINE r == [q EXCEPT ![Len(q)] = x]
<1>0. Len(q) \in Nat
  OBVIOUS
<1>1. /\ r \in Seq(Attempt) /\ Len(r) = Len(q) /\ Len(q) \in Nat /\ Len(q) >= 1
      /\ r[Len(q)] = x /\ \A k \in 1 .. Len(q) - 1 : r[k] = q[k]
      /\ DOMAIN q = 1 .. Len(q) /\ DOMAIN r = 1 .. Len(q)
  OBVIOUS
<1> HIDE DEF r
<1>2. \A k \in DOMAIN r : WithinRequest(r[k].step)
  BY <1>1 DEF Descend, Latest
<1>3. ASSUME NEW k \in 2 .. Len(r)
      PROVE  MayFollow(r[k - 1], r[k])
  <2>1. k \in 2 .. Len(q) /\ k - 1 \in 1 .. Len(q) - 1
    BY <1>1
  <2>2. MayFollow(q[k - 1], q[k]) /\ r[k - 1] = q[k - 1]
    BY <1>1, <2>1 DEF Descend
  <2>3. r[k].step = q[k].step
    <3>1. CASE k = Len(q)
      BY <1>1, <3>1 DEF Latest
    <3>2. CASE k # Len(q)
      <4>1. k \in 1 .. Len(q) - 1
        BY <1>0, <2>1, <3>2
      <4>2. QED
        BY <1>1, <4>1
    <3>3. QED
      BY <3>1, <3>2
  <2>4. QED
    BY <2>2, <2>3 DEF MayFollow
<1>4. QED
  BY <1>1, <1>2, <1>3 DEF Descend, Latest, r

-----------------------------------------------------------------------------
LEMMA NoStateType ==
  NoState \in State /\ NoState.attempts = << >> /\ NoState.status = "absent"
  BY DEF NoState, State

LEMMA SweepInit == Init => SweepInv
<1> SUFFICES ASSUME Init
             PROVE  SweepInv
  OBVIOUS
<1> USE Constants DEF Init
<1>1. NoState \in State /\ NoState.attempts = << >> /\ NoState.status = "absent"
  BY NoStateType
<1>2. TypeOK
  <2>1. Step \in Steps
    BY DEF Steps
  <2>2. launched \in [Indexes -> Nat]
    OBVIOUS
  <2>3. dir \in BOOLEAN
    OBVIOUS
  <2>4. calls \in 0 .. MaxCalls
    OBVIOUS
  <2>5. file \in State /\ mem \in State
    BY <1>1
  <2>6. QED
    BY <2>1, <2>2, <2>3, <2>4, <2>5 DEF TypeOK
<1>3. StepsDescend
  BY <1>1 DEF StepsDescend, Descend
<1>4. OneRunnerPerDirectory /\ AttemptsWithinMax /\ CompletedHasSummary
  BY <1>1 DEF OneRunnerPerDirectory, AttemptsWithinMax, CompletedHasSummary
<1>5. CallInv /\ StepInv /\ LaunchInv
  BY <1>1 DEF CallInv, StepInv, LaunchInv, AtWork
<1>6. QED
  BY <1>2, <1>3, <1>4, <1>5 DEF SweepInv, SweepInvariant

\* The invariant speaks of few variables where no runner is about to start: a
\* step that ends the call, or makes one, and leaves the files keeps it.
LEMMA Kept ==
  ASSUME SweepInv, UNCHANGED <<dir, file, mem, step, launched>>,
         pc' \in {pc, "idle"}, calls' \in 0 .. MaxCalls,
         ret' \in {"none", "completed", "failed", "raised"}
  PROVE  SweepInv'
<1> USE DEF SweepInv, SweepInvariant
<1>1. TypeOK'
  BY DEF TypeOK, State
<1>2. StepsDescend'
  BY DEF StepsDescend
<1>3. (OneRunnerPerDirectory /\ AttemptsWithinMax /\ CompletedHasSummary)'
  BY DEF OneRunnerPerDirectory, AttemptsWithinMax, CompletedHasSummary
<1>4. CallInv'
  BY DEF CallInv, AtWork
<1>5. StepInv' /\ LaunchInv'
  BY DEF StepInv, LaunchInv, Running
<1>6. QED
  BY <1>1, <1>2, <1>3, <1>4, <1>5

\* How many calls there have been matters to no one.
LEMMA Called ==
  ASSUME TypeOK, Begin
  PROVE  calls' \in 0 .. MaxCalls
  BY Constants DEF TypeOK, Begin

LEMMA CreateStep ==
  ASSUME SweepInv, Create
  PROVE  SweepInv'
<1> USE DEF SweepInv, SweepInvariant
<1>1. calls' \in 0 .. MaxCalls
  BY Called DEF Create
<1>2. CASE dir
  BY <1>1, <1>2, Kept DEF Create, Return
<1>3. CASE ~dir
  <2>1. /\ dir' = TRUE /\ pc' = "made" /\ UNCHANGED <<file, mem, step, ret, launched>>
        /\ pc = "idle" /\ file.status = "absent"
    BY <1>3 DEF Create, Begin, CallInv
  <2>2. TypeOK'
    BY <1>1, <2>1 DEF TypeOK
  <2>3. (OneRunnerPerDirectory /\ AttemptsWithinMax /\ CompletedHasSummary)'
    BY <2>1 DEF OneRunnerPerDirectory, AttemptsWithinMax, CompletedHasSummary
  <2>4. StepsDescend' /\ CallInv' /\ StepInv' /\ LaunchInv'
    BY <2>1 DEF StepsDescend, CallInv, StepInv, LaunchInv, AtWork
  <2>5. QED
    BY <2>2, <2>3, <2>4
<1>4. QED
  BY <1>2, <1>3

LEMMA CreateStateStep ==
  ASSUME SweepInv, CreateState
  PROVE  SweepInv'
<1> USE DEF SweepInv, SweepInvariant
<1> DEFINE new == [NoState EXCEPT !.status = "running"]
<1>1. /\ mem' = new /\ file' = new /\ step' = Step /\ pc' = "attempting"
      /\ UNCHANGED <<dir, ret, launched, calls>>
      /\ pc = "made" /\ dir /\ file.status = "absent" /\ file.attempts = << >>
  BY DEF CreateState, Write, CallInv
<1>2. new \in State /\ new.attempts = << >> /\ new.status = "running"
  <2>1. NoState \in State /\ NoState.attempts = << >>
    BY NoStateType
  <2>2. QED
    BY <2>1 DEF State
<1>3. Step \in Steps /\ WithinRequest(Step)
  BY Constants DEF Steps, WithinRequest
<1>4. TypeOK'
  BY <1>1, <1>2, <1>3 DEF TypeOK
<1>5. (OneRunnerPerDirectory /\ AttemptsWithinMax /\ CompletedHasSummary)'
  BY <1>1, <1>2, Constants DEF OneRunnerPerDirectory, AttemptsWithinMax, CompletedHasSummary
<1>6. StepsDescend'
  BY <1>1, <1>2 DEF StepsDescend, Descend
<1>7. CallInv' /\ StepInv' /\ LaunchInv'
  BY <1>1, <1>2, <1>3 DEF CallInv, StepInv, LaunchInv, AtWork
<1>8. QED
  BY <1>4, <1>5, <1>6, <1>7

\* The steps a resumed call begins with may follow those of the last attempt.
LEMMA RetrySteps ==
  ASSUME SweepInv
  PROVE  /\ LatestRetryStep(file.attempts) \in Steps
         /\ WithinRequest(LatestRetryStep(file.attempts))
         /\ file.attempts # << >> =>
               MayFollow(Latest(file.attempts),
                         [status |-> "running", step |-> LatestRetryStep(file.attempts), class |-> "none"])
<1> USE DEF SweepInv, SweepInvariant
<1>1. CASE file.attempts = << >>
  BY <1>1, Constants DEF LatestRetryStep, Steps, WithinRequest
<1>2. CASE file.attempts # << >>
  <2> DEFINE last == Latest(file.attempts)
  <2>1. file.attempts \in Seq(Attempt) /\ Len(file.attempts) \in DOMAIN file.attempts
    BY <1>2 DEF TypeOK, State
  <2>2. last \in Attempt /\ last.step \in Steps /\ WithinRequest(last.step)
    <3>1. last \in Attempt
      BY <2>1 DEF Latest
    <3>2. last.step \in Steps
      BY <3>1 DEF Attempt
    <3>3. QED
      BY <2>1, <3>1, <3>2 DEF Latest, StepsDescend, Descend
  <2>3. \A a \in Axes : last.step[a] \in last.step[a] \div 2 .. last.step[a]
    BY <2>2 DEF Steps
  <2>4. /\ Halved(last.step) \in Steps /\ WithinRequest(Halved(last.step))
        /\ \A a \in Axes : Halved(last.step)[a] \in last.step[a] \div 2 .. last.step[a]
    BY <2>2, HalvedSteps
  <2>5. QED
    BY <1>2, <2>2, <2>3, <2>4 DEF LatestRetryStep, MayFollow
<1>3. QED
  BY <1>1, <1>2

LEMMA ResumeStep ==
  ASSUME SweepInv, Resume
  PROVE  SweepInv'
<1> USE DEF SweepInv, SweepInvariant
<1>1. calls' \in 0 .. MaxCalls /\ pc = "idle" /\ UNCHANGED <<dir, file, launched>>
  BY Called DEF Resume, Begin
<1>2. CASE file.status \in {"absent", "completed"}
  BY <1>1, <1>2, Kept DEF Resume, Return
<1>3. CASE file.status \in {"running", "failed"}
  <2>1. /\ mem' = file /\ step' = LatestRetryStep(file.attempts)
        /\ pc' = "attempting" /\ UNCHANGED ret
    BY <1>3 DEF Resume
  <2>2. TypeOK'
    BY <1>1, <2>1, RetrySteps DEF TypeOK
  <2>3. (OneRunnerPerDirectory /\ AttemptsWithinMax /\ CompletedHasSummary)'
    BY <1>1 DEF OneRunnerPerDirectory, AttemptsWithinMax, CompletedHasSummary
  <2>4. StepsDescend' /\ CallInv' /\ LaunchInv'
    BY <1>1, <1>3, <2>1 DEF StepsDescend, CallInv, LaunchInv, AtWork
  <2>5. StepInv'
    BY <1>1, <2>1, RetrySteps DEF StepInv, Running
  <2>6. QED
    BY <2>2, <2>3, <2>4, <2>5
<1>4. QED
  BY <1>2, <1>3 DEF TypeOK, State

\* The attempts of the file the call holds.
LEMMA CallState ==
  ASSUME SweepInv, pc \in AtWork
  PROVE  /\ mem = file /\ file \in State /\ file.status \in {"running", "failed"} /\ dir
         /\ file.attempts \in Seq(Attempt) /\ Len(file.attempts) \in 0 .. MaxAttempts
         /\ Descend(file.attempts)
<1> USE DEF SweepInv, SweepInvariant
<1>1. file.attempts \in Seq(Attempt) /\ Len(file.attempts) \in Nat
  BY DEF TypeOK, State
<1>2. file.status \in {"running", "failed"} /\ mem = file /\ dir
  BY DEF CallInv, AtWork, TypeOK, State
<1>3. QED
  BY <1>1, <1>2, Constants DEF TypeOK, AttemptsWithinMax, StepsDescend

LEMMA RecordStep ==
  ASSUME SweepInv, Record
  PROVE  SweepInv'
<1> USE DEF SweepInv, SweepInvariant
<1> DEFINE q == file.attempts
           new == [file EXCEPT !.attempts = Append(q, Running)]
<1>1. /\ mem = file /\ file \in State /\ file.status \in {"running", "failed"} /\ dir
      /\ q \in Seq(Attempt) /\ Len(q) \in Nat /\ Descend(q) /\ Len(q) < MaxAttempts
  BY CallState DEF Record, AtWork
<1>2. /\ mem' = new /\ file' = new /\ pc' = "launching" /\ pc = "attempting"
      /\ UNCHANGED <<dir, step, ret, launched, calls>>
  BY <1>1 DEF Record, Write
<1>3. /\ Running \in Attempt /\ Running.status = "running" /\ Running.step = step
      /\ WithinRequest(step) /\ (q # << >> => MayFollow(Latest(q), Running))
  BY <1>2 DEF TypeOK, StepInv, Running, Attempt, FailureClasses
<1>4. /\ Append(q, Running) \in Seq(Attempt) /\ Descend(Append(q, Running))
      /\ Latest(Append(q, Running)) = Running /\ Append(q, Running) # << >>
      /\ Len(Append(q, Running)) = Len(q) + 1
  <2>1. Append(q, Running) # << >> /\ Len(Append(q, Running)) = Len(q) + 1
    BY <1>1, <1>3
  <2>2. QED
    BY <1>1, <1>3, <2>1, AppendDescends
<1>5. new \in State /\ new.attempts = Append(q, Running) /\ new.status = file.status
  BY <1>1, <1>4 DEF State
<1> HIDE DEF q, new
<1>6. TypeOK'
  BY <1>2, <1>5 DEF TypeOK
<1>7. StepsDescend' /\ AttemptsWithinMax'
  BY <1>1, <1>2, <1>4, <1>5, Constants DEF StepsDescend, AttemptsWithinMax
<1>8. OneRunnerPerDirectory' /\ CompletedHasSummary'
  BY <1>1, <1>2, <1>5 DEF OneRunnerPerDirectory, CompletedHasSummary
<1>9. CallInv' /\ StepInv'
  BY <1>1, <1>2, <1>3, <1>4, <1>5 DEF CallInv, StepInv, AtWork
<1>10. LaunchInv'
  <2>1. Len(q) + 1 \in Indexes
    BY <1>1, AttemptIndex, Constants
  <2>2. Len(file'.attempts) = Len(q) + 1
    BY <1>2, <1>4, <1>5
  <2>3. \A k \in Indexes : k > Len(q) => launched[k] = 0
    BY DEF LaunchInv, q
  <2>4. Len(q) + 1 > Len(q) /\ \A k \in Indexes : k > Len(q) + 1 => k > Len(q)
    BY <1>1, Constants DEF Indexes
  <2>5. QED
    BY <1>2, <2>1, <2>2, <2>3, <2>4 DEF LaunchInv
<1>11. QED
  BY <1>6, <1>7, <1>8, <1>9, <1>10

LEMMA LaunchStep ==
  ASSUME SweepInv, Launch
  PROVE  SweepInv'
<1> USE DEF SweepInv, SweepInvariant
<1> DEFINE n == Len(file.attempts)
<1>1. /\ mem = file /\ file.status \in {"running", "failed"}
      /\ n \in 1 .. MaxAttempts /\ file.attempts # << >>
  <2>1. mem = file /\ file.status \in {"running", "failed"} /\ file.attempts \in Seq(Attempt)
        /\ n \in 0 .. MaxAttempts
    BY CallState DEF Launch, AtWork
  <2>2. file.attempts # << >>
    BY DEF Launch, CallInv
  <2>3. QED
    BY <2>1, <2>2, Constants
<1>2. /\ launched' = [launched EXCEPT ![n] = launched[n] + 1] /\ pc = "launching" /\ pc' = "waiting"
      /\ UNCHANGED <<dir, file, mem, step, ret, calls>>
  BY <1>1 DEF Launch
<1>3. n \in Indexes /\ launched[n] = 0 /\ launched \in [Indexes -> Nat]
  BY <1>1, <1>2, AttemptIndex DEF LaunchInv, TypeOK
<1>4. launched' \in [Indexes -> Nat] /\ launched'[n] = 1
      /\ \A k \in Indexes \ {n} : launched'[k] = launched[k]
  BY <1>2, <1>3
<1>5. TypeOK'
  BY <1>2, <1>4 DEF TypeOK
<1>6. OneRunnerPerDirectory'
  BY <1>4 DEF OneRunnerPerDirectory
<1>7. (StepsDescend /\ AttemptsWithinMax /\ CompletedHasSummary)'
  BY <1>2 DEF StepsDescend, AttemptsWithinMax, CompletedHasSummary
<1>8. CallInv' /\ StepInv'
  BY <1>1, <1>2 DEF CallInv, StepInv, AtWork
<1>9. LaunchInv'
  <2>1. \A k \in Indexes : k > n => k # n /\ launched[k] = 0
    BY <1>1, Constants DEF LaunchInv, Indexes
  <2>2. \A k \in Indexes : k > n => launched'[k] = 0
    BY <1>4, <2>1
  <2>3. QED
    BY <1>2, <2>2 DEF LaunchInv
<1>10. QED
  BY <1>5, <1>6, <1>7, <1>8, <1>9

LEMMA RunnerEndsStep ==
  ASSUME SweepInv, RunnerEnds
  PROVE  SweepInv'
<1> USE DEF SweepInv, SweepInvariant
<1> DEFINE q == file.attempts
           n == Len(q)
<1>1. /\ mem = file /\ file \in State /\ file.status \in {"running", "failed"} /\ dir
      /\ q \in Seq(Attempt) /\ n \in 0 .. MaxAttempts /\ Descend(q)
  BY CallState DEF RunnerEnds, AtWork
<1>2. q # << >>
  BY DEF RunnerEnds, CallInv
<1>3. PICK o \in Outcomes :
        Write([mem EXCEPT !.attempts[Len(mem.attempts)] =
                 [status |-> o.status, step |-> @.step, class |-> o.class]])
  BY DEF RunnerEnds
<1> DEFINE x == [status |-> o.status, step |-> q[n].step, class |-> o.class]
           r == [q EXCEPT ![n] = x]
<1>4. n \in DOMAIN q /\ q[n] \in Attempt /\ Latest(q) = q[n]
  BY <1>1, <1>2 DEF Latest
<1>5. x \in Attempt /\ x.step = Latest(q).step
  BY <1>4 DEF Outcomes, Attempt, FailureClasses
<1>6. r \in Seq(Attempt) /\ Len(r) = n /\ Descend(r) /\ Latest(r) = x
  BY <1>1, <1>2, <1>5, EndDescends
<1>7. file' = [file EXCEPT !.attempts = r] /\ mem' = file'
  BY <1>1, <1>3 DEF Write
<1>8. UNCHANGED <<dir, step, ret, launched, calls>> /\ pc = "waiting" /\ pc' = "judging"
  BY DEF RunnerEnds
<1>9. file' \in State /\ file'.attempts = r /\ file'.status = file.status
  BY <1>1, <1>6, <1>7 DEF State
<1>10. r # << >>
  BY <1>1, <1>2, <1>6
<1> HIDE DEF r, n
<1>11. TypeOK'
  BY <1>7, <1>8, <1>9 DEF TypeOK
<1>12. StepsDescend' /\ AttemptsWithinMax'
  BY <1>6, <1>9 DEF StepsDescend, AttemptsWithinMax, n
<1>13. OneRunnerPerDirectory' /\ CompletedHasSummary'
  BY <1>1, <1>8, <1>9 DEF OneRunnerPerDirectory, CompletedHasSummary
<1>14. CallInv' /\ StepInv' /\ LaunchInv'
  BY <1>1, <1>6, <1>7, <1>8, <1>9, <1>10 DEF CallInv, StepInv, LaunchInv, AtWork, n
<1>15. QED
  BY <1>11, <1>12, <1>13, <1>14

\* A call that ends writes its verdict into the state.
LEMMA VerdictStep ==
  ASSUME SweepInv, pc \in AtWork, NEW verdict \in {"completed", "failed"}, NEW done \in BOOLEAN,
         file' = [file EXCEPT !.status = verdict, !.summary = done], mem' = file',
         verdict = "completed" => done /\ Latest(file.attempts).status = "completed",
         Return(verdict), UNCHANGED <<dir, step, launched, calls>>
  PROVE  SweepInv'
<1> USE DEF SweepInv, SweepInvariant
<1>1. file \in State /\ dir
  BY CallState
<1>2. /\ file' \in State /\ file'.attempts = file.attempts
      /\ file'.status = verdict /\ file'.summary = done
  BY <1>1 DEF State
<1>3. pc' = "idle" /\ ret' = verdict
  BY DEF Return
<1>4. TypeOK'
  BY <1>2, <1>3 DEF TypeOK
<1>5. (StepsDescend /\ OneRunnerPerDirectory /\ AttemptsWithinMax)'
  BY <1>2 DEF StepsDescend, OneRunnerPerDirectory, AttemptsWithinMax
<1>6. CompletedHasSummary'
  BY <1>2 DEF CompletedHasSummary
<1>7. CallInv' /\ StepInv' /\ LaunchInv'
  BY <1>1, <1>2, <1>3 DEF CallInv, StepInv, LaunchInv, AtWork
<1>8. QED
  BY <1>4, <1>5, <1>6, <1>7

LEMMA FailedStep ==
  ASSUME SweepInv, Exhausted \/ Fail
  PROVE  SweepInv'
<1>1. /\ pc \in AtWork /\ Return("failed") /\ UNCHANGED <<dir, step, launched, calls>>
      /\ mem' = [mem EXCEPT !.status = "failed"] /\ file' = mem'
  BY DEF Exhausted, Fail, AtWork, Write
<1>2. mem = file /\ file \in State /\ file.summary \in BOOLEAN
  BY <1>1, CallState DEF State
<1>3. file' = [file EXCEPT !.status = "failed", !.summary = file.summary]
  BY <1>1, <1>2 DEF State
<1>4. QED
  BY <1>1, <1>2, <1>3, VerdictStep

LEMMA SucceedStep ==
  ASSUME SweepInv, Succeed
  PROVE  SweepInv'
<1>1. PICK passed \in BOOLEAN :
        /\ Write([mem EXCEPT !.status = Finished(passed), !.summary = TRUE])
        /\ Return(Finished(passed))
  BY DEF Succeed
<1>2. /\ pc \in AtWork /\ UNCHANGED <<dir, step, launched, calls>>
      /\ Latest(mem.attempts).status = "completed"
  BY DEF Succeed, AtWork
<1>3. mem = file
  BY <1>2, CallState
<1>4. Finished(passed) \in {"completed", "failed"}
  BY DEF Finished
<1>5. QED
  BY <1>1, <1>2, <1>3, <1>4, VerdictStep DEF Write

LEMMA CallsKept ==
  ASSUME SweepInv
  PROVE  calls \in 0 .. MaxCalls /\ ret \in {"none", "completed", "failed", "raised"}
  BY DEF SweepInv, SweepInvariant, TypeOK

LEMMA JudgingRaisesStep ==
  ASSUME SweepInv, JudgingRaises
  PROVE  SweepInv'
<1>1. UNCHANGED <<dir, file, mem, step, launched, calls>> /\ pc' = "idle" /\ ret' = "raised"
  BY DEF JudgingRaises, Return
<1>2. QED
  BY <1>1, CallsKept, Kept

LEMMA RetryStep ==
  ASSUME SweepInv, Retry
  PROVE  SweepInv'
<1> USE DEF SweepInv, SweepInvariant
<1> DEFINE last == Latest(file.attempts)
<1>1. /\ mem = file /\ file \in State /\ file.status \in {"running", "failed"} /\ dir
      /\ file.attempts \in Seq(Attempt) /\ Descend(file.attempts)
  BY CallState DEF Retry, AtWork
<1>2. file.attempts # << >> /\ Len(file.attempts) \in DOMAIN file.attempts
  BY <1>1 DEF Retry, CallInv
<1>3. last \in Attempt /\ WithinRequest(last.step)
  BY <1>1, <1>2 DEF Latest, Descend
<1>4. last.step \in Steps
  BY <1>3 DEF Attempt
<1>5. /\ step' = Halved(last.step) /\ last.class = "convergence"
      /\ mem' = file /\ file' = file /\ pc' = "attempting" /\ UNCHANGED <<dir, ret, launched, calls>>
  BY <1>1 DEF Retry, Write, ShouldRetry
<1>6. /\ step' \in Steps /\ WithinRequest(step')
      /\ \A a \in Axes : step'[a] \in last.step[a] \div 2 .. last.step[a]
  BY <1>3, <1>4, <1>5, HalvedSteps
<1>7. TypeOK'
  BY <1>1, <1>5, <1>6 DEF TypeOK
<1>8. (StepsDescend /\ OneRunnerPerDirectory /\ AttemptsWithinMax /\ CompletedHasSummary)'
  BY <1>5 DEF StepsDescend, OneRunnerPerDirectory, AttemptsWithinMax, CompletedHasSummary
<1>9. CallInv' /\ LaunchInv'
  BY <1>1, <1>5 DEF CallInv, LaunchInv, AtWork
<1>10. StepInv'
  BY <1>5, <1>6 DEF StepInv, MayFollow, Running
<1>11. QED
  BY <1>7, <1>8, <1>9, <1>10

LEMMA LoopStep ==
  ASSUME SweepInv, Loop
  PROVE  SweepInv'
  BY CreateStateStep, RecordStep, FailedStep, LaunchStep, RunnerEndsStep, SucceedStep, JudgingRaisesStep,
     RetryStep
     DEF Loop

LEMMA SweepStep == SweepInv /\ [Next]_vars => SweepInv'
<1> SUFFICES ASSUME SweepInv, [Next]_vars
             PROVE  SweepInv'
  OBVIOUS
<1>1. CASE Crash
  BY <1>1, CallsKept, Kept DEF Crash
<1>2. CASE UNCHANGED vars
  BY <1>2, CallsKept, Kept DEF vars
<1>3. QED
  BY <1>1, <1>2, CreateStep, ResumeStep, LoopStep DEF Next

\* The inductive invariant of a run id.
LEMMA SweepInductive == Spec => []SweepInv
  BY SweepInit, SweepStep, PTL DEF Spec

\* A run id keeps its promises over all the calls that work on it, however many
\* they are and wherever they die; see SweepInvariant.
THEOREM RunKeepsItsPromises == Spec => []SweepInvariant
<1>1. SweepInv => SweepInvariant
  BY DEF SweepInv
<1>2. QED
  BY <1>1, SweepInductive, PTL

-----------------------------------------------------------------------------
(***************************************************************************)
(* A run id is a RunRecord.                                                *)
(***************************************************************************)
StatusesOf(attempts) == [k \in DOMAIN attempts |-> attempts[k].status]

LEMMA AttemptStatus ==
  ASSUME NEW q \in Seq(Attempt), NEW k \in 1 .. Len(q)
  PROVE  q[k].status \in {"running", "completed", "failed"}
<1>1. q[k] \in Attempt
  OBVIOUS
<1>2. QED
  BY <1>1 DEF Attempt

LEMMA OutcomesAppend ==
  ASSUME NEW q \in Seq(Attempt), NEW x \in Attempt
  PROVE  StatusesOf(Append(q, x)) = Append(StatusesOf(q), x.status)
<1> DEFINE s == StatusesOf(q)
<1>1. /\ Len(q) \in Nat /\ DOMAIN q = 1 .. Len(q) /\ DOMAIN Append(q, x) = 1 .. Len(q) + 1
      /\ Append(q, x)[Len(q) + 1] = x /\ \A k \in 1 .. Len(q) : Append(q, x)[k] = q[k]
  OBVIOUS
<1>2. s \in Seq({"running", "completed", "failed"}) /\ Len(s) = Len(q)
  <2>1. \A k \in 1 .. Len(q) : q[k].status \in {"running", "completed", "failed"}
    BY AttemptStatus
  <2>2. QED
    BY <1>1, <2>1 DEF StatusesOf
<1>3. \A k \in 1 .. Len(q) : s[k] = q[k].status
  BY <1>1 DEF StatusesOf
<1> HIDE DEF s
<1>4. /\ DOMAIN Append(s, x.status) = 1 .. Len(q) + 1
      /\ Append(s, x.status)[Len(q) + 1] = x.status
      /\ \A k \in 1 .. Len(q) : Append(s, x.status)[k] = s[k]
  BY <1>1, <1>2
<1>5. QED
  BY <1>1, <1>3, <1>4 DEF StatusesOf, s

LEMMA OutcomesEnd ==
  ASSUME NEW q \in Seq(Attempt), q # << >>, NEW x \in Attempt
  PROVE  /\ StatusesOf([q EXCEPT ![Len(q)] = x]) = [StatusesOf(q) EXCEPT ![Len(q)] = x.status]
         /\ Len(StatusesOf(q)) = Len(q) /\ StatusesOf(q) # << >>
         /\ StatusesOf(q)[Len(q)] = Latest(q).status
<1>1. Len(q) \in Nat \ {0} /\ DOMAIN q = 1 .. Len(q) /\ DOMAIN StatusesOf(q) = 1 .. Len(q)
  BY DEF StatusesOf
<1>2. \A k \in 1 .. Len(q) : StatusesOf(q)[k] = q[k].status
  BY <1>1 DEF StatusesOf
<1>3. Len(StatusesOf(q)) = Len(q) /\ StatusesOf(q) # << >>
  <2>1. \A k \in 1 .. Len(q) : q[k].status \in {"running", "completed", "failed"}
    BY AttemptStatus
  <2>2. StatusesOf(q) \in Seq({"running", "completed", "failed"}) /\ Len(StatusesOf(q)) = Len(q)
    BY <1>1, <2>1 DEF StatusesOf
  <2>3. QED
    BY <1>1, <2>2
<1>4. StatusesOf([q EXCEPT ![Len(q)] = x]) = [StatusesOf(q) EXCEPT ![Len(q)] = x.status]
  <2> DEFINE r == [q EXCEPT ![Len(q)] = x]
  <2>1. /\ DOMAIN r = DOMAIN q /\ r[Len(q)] = x
        /\ \A k \in DOMAIN q : k # Len(q) => r[k] = q[k]
    <3>1. Len(q) \in DOMAIN q
      BY <1>1
    <3>2. QED
      BY <3>1, Zenon
  <2> HIDE DEF r
  <2>2. \A k \in DOMAIN q : r[k].status = IF k = Len(q) THEN x.status ELSE q[k].status
    BY <1>1, <2>1
  <2>3. StatusesOf(r) = [k \in DOMAIN q |-> IF k = Len(q) THEN x.status ELSE q[k].status]
    BY <2>1, <2>2 DEF StatusesOf
  <2>4. QED
    BY <1>1, <2>3 DEF StatusesOf, r
<1>5. QED
  BY <1>1, <1>2, <1>3, <1>4 DEF Latest

\* A step that writes the file writes what RunRecord allows.
LEMMA RecordSame ==
  ASSUME file' = file
  PROVE  UNCHANGED Record_!record
  BY DEF Record_!record

LEMMA RecordAppears ==
  ASSUME SweepInv, CreateState
  PROVE  Record_!Appear
<1>1. file.status = "absent" /\ file.attempts = << >>
  BY DEF CreateState, SweepInv, CallInv
<1>2. file'.status = "running" /\ file'.attempts = << >>
  BY DEF CreateState, Write, NoState
<1>3. QED
  BY <1>1, <1>2 DEF Record_!Appear

LEMMA RecordStarts ==
  ASSUME SweepInv, Record
  PROVE  Record_!StartAttempt
<1>1. /\ mem = file /\ file \in State /\ file.status \in {"running", "failed"}
      /\ file.attempts \in Seq(Attempt)
  BY CallState DEF Record, AtWork
<1>2. file'.status = file.status /\ file'.attempts = Append(file.attempts, Running)
  BY <1>1 DEF Record, Write, State
<1>3. Running \in Attempt /\ Running.status = "running"
  BY DEF SweepInv, SweepInvariant, TypeOK, Running, Attempt, FailureClasses
<1>4. StatusesOf(file'.attempts) = Append(StatusesOf(file.attempts), "running")
  BY <1>1, <1>2, <1>3, OutcomesAppend
<1>5. QED
  BY <1>1, <1>2, <1>4 DEF Record_!StartAttempt, StatusesOf

LEMMA RecordEnds ==
  ASSUME SweepInv, RunnerEnds
  PROVE  Record_!EndAttempt
<1> DEFINE q == file.attempts
<1>1. /\ mem = file /\ file \in State /\ file.status \in {"running", "failed"}
      /\ q \in Seq(Attempt)
  BY CallState DEF RunnerEnds, AtWork
<1>2. q # << >> /\ Latest(q).status = "running"
  BY DEF RunnerEnds, SweepInv, CallInv
<1>3. PICK o \in Outcomes :
        Write([mem EXCEPT !.attempts[Len(mem.attempts)] =
                 [status |-> o.status, step |-> @.step, class |-> o.class]])
  BY DEF RunnerEnds
<1> DEFINE x == [status |-> o.status, step |-> q[Len(q)].step, class |-> o.class]
<1>4. Len(q) \in DOMAIN q /\ q[Len(q)] \in Attempt
  BY <1>1, <1>2
<1>5. x \in Attempt /\ x.status \in {"completed", "failed"}
  BY <1>4 DEF Outcomes, Attempt, FailureClasses
<1>6. file'.status = file.status /\ file'.attempts = [q EXCEPT ![Len(q)] = x]
  BY <1>1, <1>3 DEF Write, State
<1>7. /\ StatusesOf(file'.attempts) = [StatusesOf(q) EXCEPT ![Len(StatusesOf(q))] = x.status]
      /\ StatusesOf(q) # << >> /\ StatusesOf(q)[Len(StatusesOf(q))] = "running"
  BY <1>1, <1>2, <1>5, <1>6, OutcomesEnd
<1>8. QED
  BY <1>1, <1>5, <1>6, <1>7 DEF Record_!EndAttempt, StatusesOf

\* A verdict is new, or the file keeps the one it has.
LEMMA RecordVerdict ==
  ASSUME SweepInv, Exhausted \/ Fail \/ Succeed
  PROVE  Record_!Fail \/ Record_!Complete \/ UNCHANGED Record_!record
<1>1. /\ mem = file /\ file \in State /\ file.status \in {"running", "failed"}
      /\ file.attempts \in Seq(Attempt)
  BY CallState DEF Exhausted, Fail, Succeed, AtWork
<1>2. /\ file'.attempts = file.attempts /\ file'.status \in {"completed", "failed"}
      /\ file'.status = "completed" => Latest(file.attempts).status = "completed" /\ pc = "judging"
  BY <1>1 DEF Exhausted, Fail, Succeed, Write, Finished, State
<1>3. file'.status = "completed" => Record_!Complete
  <2> SUFFICES ASSUME file'.status = "completed"
               PROVE  Record_!Complete
    OBVIOUS
  <2>1. file.attempts # << >> /\ Latest(file.attempts).status = "completed"
    BY <1>2 DEF SweepInv, CallInv
  <2>2. /\ StatusesOf(file.attempts) # << >> /\ Len(StatusesOf(file.attempts)) = Len(file.attempts)
        /\ StatusesOf(file.attempts)[Len(file.attempts)] = "completed"
    <3>1. file.attempts[Len(file.attempts)] \in Attempt
      BY <1>1, <2>1
    <3>2. QED
      BY <1>1, <2>1, <3>1, OutcomesEnd
  <2>3. QED
    BY <1>1, <1>2, <2>2 DEF Record_!Complete, StatusesOf
<1>4. file'.status = "failed" => Record_!Fail \/ UNCHANGED Record_!record
  BY <1>1, <1>2 DEF Record_!Fail, Record_!record
<1>5. QED
  BY <1>2, <1>3, <1>4

\* Steps that leave the file alone or write what is in it.
LEMMA RecordStutters ==
  ASSUME SweepInv, Create \/ Resume \/ Launch \/ JudgingRaises \/ Retry \/ Crash \/ UNCHANGED vars
  PROVE  UNCHANGED Record_!record
<1>1. CASE Retry
  BY <1>1, CallState, RecordSame DEF Retry, Write, AtWork
<1>2. CASE ~Retry
  BY <1>2, RecordSame DEF Create, Resume, Launch, JudgingRaises, Crash, vars
<1>3. QED
  BY <1>1, <1>2

LEMMA RecordStepwise == SweepInv /\ [Next]_vars => [Record_!RecordNext]_(Record_!record)
<1> SUFFICES ASSUME SweepInv, [Next]_vars
             PROVE  Record_!RecordNext \/ UNCHANGED Record_!record
  OBVIOUS
<1>1. QED
  BY RecordAppears, RecordStarts, RecordEnds, RecordVerdict, RecordStutters
     DEF Next, Loop, Record_!RecordNext

\* A reader of state.json sees a RunRecord, whatever calls, crashes and runners
\* do; see RunIsRecord.
THEOREM RunImplementsRecord == Spec => RunIsRecord
<1>1. Init => Record_!RecordInit
  BY DEF Init, NoState, Record_!RecordInit
<1>2. QED
  BY <1>1, SweepInductive, RecordStepwise, PTL DEF Spec, RunIsRecord, Record_!RecordSpec

-----------------------------------------------------------------------------
(***************************************************************************)
(* The tools that wrap it.                                                 *)
(***************************************************************************)
\* What a wrapper learns of a step of the call it waits for.
LEMMA LoopEnds ==
  ASSUME SweepInv, Loop
  PROVE  /\ dir /\ dir' = dir /\ pc # "idle" /\ file.status # "completed"
         /\ file'.status # "absent"
         /\ pc' = "idle" => /\ mem' = file' /\ ret' \in {"completed", "failed", "raised"}
                            /\ ret' = "completed" => file'.status = "completed" /\ file'.summary
                            /\ ret' = "raised" => Unjudged'
<1> USE DEF Write, Return
<1>1. /\ dir /\ dir' = dir /\ pc \in AtWork \cup {"made"} /\ file.status # "completed"
      /\ pc \in AtWork => mem = file /\ file \in State /\ file.status # "absent"
  BY CallState DEF SweepInv, CallInv, Loop, CreateState, Record, Exhausted, Launch, RunnerEnds,
     Succeed, JudgingRaises, Retry, Fail, AtWork
<1>2. CASE CreateState
  BY <1>1, <1>2 DEF CreateState, NoState
<1>3. CASE Record \/ Launch \/ Retry
  BY <1>1, <1>3 DEF Record, Launch, Retry, AtWork, State
<1>4. CASE RunnerEnds
  BY <1>1, <1>4 DEF RunnerEnds, AtWork, State
<1>5. CASE Exhausted \/ Fail
  BY <1>1, <1>5 DEF Exhausted, Fail, AtWork, State
<1>6. CASE Succeed
  BY <1>1, <1>6 DEF Succeed, Finished, AtWork, State
<1>7. CASE JudgingRaises
  BY <1>1, <1>7 DEF JudgingRaises, SweepInv, CallInv, Unjudged, Latest, AtWork
<1>8. QED
  BY <1>1, <1>2, <1>3, <1>4, <1>5, <1>6, <1>7 DEF Loop, AtWork

\* A call of a wrapper that returns before it calls the tool counts as a call.
LEMMA OwnCall ==
  ASSUME SweepInv, calls < MaxCalls
  PROVE  calls + 1 \in 0 .. MaxCalls
  BY CallsKept, Constants

LEMMA DiodeInitially == DiodeInit => DiodeInv
<1> SUFFICES ASSUME DiodeInit
             PROVE  DiodeInv
  OBVIOUS
<1>1. SweepInv /\ pc = "idle" /\ ret = "none"
  BY SweepInit DEF DiodeInit, Init
<1>2. DiodeTypeOK /\ DiodeRestsOnPN /\ DiodeFollowsPN
  BY DEF DiodeInit, DiodeTypeOK, DiodeRestsOnPN, DiodeFollowsPN
<1>3. DiodeCallInv
  BY <1>1 DEF DiodeInit, DiodeCallInv
<1>4. QED
  BY <1>1, <1>2, <1>3 DEF DiodeInv, DiodeInvariant

\* Steps of the diode call on its own files, and its death.
LEMMA DiodeOwnStep ==
  ASSUME DiodeInv,
         \/ DCreate \/ DResume \/ DCreateState \/ DRaise \/ DNameInner \/ DFinish
         \/ DAugmentRaises \/ DCrash
  PROVE  DiodeInv'
<1> USE DEF DiodeInv, DiodeInvariant
<1>1. /\ UNCHANGED <<dir, file, mem, step, launched>> /\ pc' \in {pc, "idle"}
      /\ calls' \in 0 .. MaxCalls /\ ret' \in {ret, "none"}
  BY CallsKept, OwnCall
     DEF DCreate, DResume, DCreateState, DRaise, DNameInner, DFinish, DAugmentRaises, DCrash, vars
<1>2. SweepInv'
  BY <1>1, CallsKept, Kept
<1>3. CompletedHasSummary
  BY DEF SweepInv, SweepInvariant
<1>4. CASE DCreate \/ DCreateState
  BY <1>1, <1>2, <1>4
     DEF DCreate, DCreateState, DReturn, vars, DiodeTypeOK, DiodeRestsOnPN, DiodeFollowsPN, DiodeCallInv
<1>5. CASE DResume
  BY <1>1, <1>2, <1>5
     DEF DResume, DReturn, DiodeTypeOK, DiodeRestsOnPN, DiodeFollowsPN, DiodeCallInv
<1>6. CASE DRaise \/ DNameInner \/ DAugmentRaises
  BY <1>1, <1>2, <1>6
     DEF DRaise, DNameInner, DAugmentRaises, DReturn, vars, DiodeTypeOK, DiodeRestsOnPN, DiodeFollowsPN, DiodeCallInv
<1>7. CASE DFinish
  BY <1>1, <1>2, <1>3, <1>7
     DEF DFinish, DReturn, vars, DiodeTypeOK, DiodeRestsOnPN, DiodeFollowsPN, DiodeCallInv,
         CompletedHasSummary
<1>8. CASE DCrash
  BY <1>1, <1>2, <1>8
     DEF DCrash, DReturn, DiodeTypeOK, DiodeRestsOnPN, DiodeFollowsPN, DiodeCallInv
<1>9. QED
  BY <1>4, <1>5, <1>6, <1>7, <1>8

\* The PN call is made once; made again, it raises.
LEMMA DiodeCallStep ==
  ASSUME DiodeInv, DCall
  PROVE  DiodeInv'
<1> USE DEF DiodeInv, DiodeInvariant
<1>1. /\ SweepInv' /\ dpc = "calling" /\ dpc' = "called" /\ UNCHANGED <<ddir, dfile, inner, dret>>
      /\ UNCHANGED <<file, mem>> /\ dir'
      /\ pc' = "idle" => ret' = "raised"
      /\ dir => pc' = "idle"
  BY CreateStep DEF DCall, Create, Return
<1>2. DiodeTypeOK' /\ DiodeRestsOnPN' /\ DiodeFollowsPN'
  BY <1>1 DEF DiodeTypeOK, DiodeRestsOnPN, DiodeFollowsPN
<1>3. DiodeCallInv'
  BY <1>1 DEF DiodeCallInv
<1>4. QED
  BY <1>1, <1>2, <1>3

LEMMA DiodeInnerStep ==
  ASSUME DiodeInv, InnerStep
  PROVE  DiodeInv'
<1> USE DEF DiodeInv, DiodeInvariant
<1>1. SweepInv' /\ dpc = "called" /\ UNCHANGED dvars
  BY LoopStep DEF InnerStep
<1>2. /\ dir' = dir /\ pc # "idle"
      /\ pc' = "idle" => mem' = file' /\ ret' \in {"completed", "failed", "raised"}
  BY LoopEnds DEF InnerStep
<1>3. dfile = "running"
  BY <1>1, <1>2 DEF DiodeCallInv
<1>4. DiodeTypeOK' /\ DiodeRestsOnPN' /\ DiodeFollowsPN'
  BY <1>1, <1>3 DEF DiodeTypeOK, DiodeRestsOnPN, DiodeFollowsPN, dvars
<1>5. DiodeCallInv'
  BY <1>1, <1>2, <1>3 DEF DiodeCallInv, dvars
<1>6. QED
  BY <1>1, <1>4, <1>5

LEMMA DiodeStep == DiodeInv /\ [DiodeNext]_<<vars, dvars>> => DiodeInv'
<1> SUFFICES ASSUME DiodeInv, [DiodeNext]_<<vars, dvars>>
             PROVE  DiodeInv'
  OBVIOUS
<1>1. CASE UNCHANGED <<vars, dvars>>
  <2>1. SweepInv'
    BY <1>1, CallsKept, Kept DEF vars, DiodeInv
  <2>2. QED
    BY <1>1, <2>1
       DEF vars, dvars, DiodeInv, DiodeInvariant, DiodeTypeOK, DiodeRestsOnPN, DiodeFollowsPN,
           DiodeCallInv
<1>2. QED
  BY <1>1, DiodeOwnStep, DiodeCallStep, DiodeInnerStep DEF DiodeNext, DLoop

LEMMA DiodeInductive == DiodeSpec => []DiodeInv
  BY DiodeStep, DiodeInitially, PTL DEF DiodeSpec

\* The PN run keeps its promises when the diode tool calls it, and the diode's
\* verdict is its own, whoever dies when; see DiodeInvariant.
THEOREM DiodeFollowsItsRun == DiodeSpec => [](SweepInvariant /\ DiodeInvariant)
<1>1. DiodeInv => SweepInvariant /\ DiodeInvariant
  BY DEF DiodeInv, SweepInv
<1>2. QED
  BY <1>1, DiodeInductive, PTL

-----------------------------------------------------------------------------
LEMMA TaskInitially == TaskInit => TaskInv
<1> SUFFICES ASSUME TaskInit
             PROVE  TaskInv
  OBVIOUS
<1>1. SweepInv /\ pc = "idle" /\ ret = "none"
  BY SweepInit DEF TaskInit, Init
<1>2. TaskTypeOK /\ TaskRestsOnRun /\ TaskResumes /\ TaskCallInv
  BY <1>1 DEF TaskInit, TaskTypeOK, TaskStatuses, TaskRestsOnRun, TaskResumes, TaskCallInv, Unjudged
<1>3. QED
  BY <1>1, <1>2 DEF TaskInv, TaskInvariant

\* Steps of the task call on its own files, and its death.
LEMMA TaskOwnStep ==
  ASSUME TaskInv,
         \/ \E f \in SUBSET {"execute", "overwrite", "resume"} : Prepare(f)
         \/ WriteTaskState \/ ToolReturns \/ TaskCrash
  PROVE  TaskInv'
<1> USE DEF TaskInv, TaskInvariant
<1>1. /\ UNCHANGED <<dir, file, mem, step, launched, calls>> /\ pc' \in {pc, "idle"}
      /\ ret' \in {ret, "none"}
  BY DEF Prepare, WriteTaskState, ToolReturns, TaskCrash, vars
<1>2. SweepInv'
  BY <1>1, CallsKept, Kept
<1>3. CASE \E f \in SUBSET {"execute", "overwrite", "resume"} : Prepare(f)
  BY <1>1, <1>2, <1>3
     DEF Prepare, TReturn, vars, TaskTypeOK, TaskRestsOnRun, TaskResumes, TaskCallInv, Unjudged
<1>4. CASE WriteTaskState
  BY <1>1, <1>2, <1>4
     DEF WriteTaskState, TReturn, vars, TaskTypeOK, TaskStatuses, TaskRestsOnRun, TaskResumes, TaskCallInv, Unjudged
<1>5. CASE ToolReturns
  BY <1>1, <1>2, <1>5
     DEF ToolReturns, TReturn, vars, TaskTypeOK, TaskStatuses, TaskRestsOnRun, TaskResumes, TaskCallInv, Unjudged
<1>6. CASE TaskCrash
  BY <1>1, <1>2, <1>6
     DEF TaskCrash, TaskTypeOK, TaskRestsOnRun, TaskResumes, TaskCallInv, Unjudged
<1>7. QED
  BY <1>3, <1>4, <1>5, <1>6

\* The call of the tool: what it answers at once is true of the file.
LEMMA TaskCallStep ==
  ASSUME TaskInv, CallTool
  PROVE  TaskInv'
<1> USE DEF TaskInv, TaskInvariant
<1>1. SweepInv'
  BY CreateStep, ResumeStep DEF CallTool
<1>2. /\ tpc = "calling" /\ tpc' = "called" /\ UNCHANGED <<task, tfile, flags, tret>>
      /\ UNCHANGED file
  BY DEF CallTool, Create, Resume
<1>3. CASE "resume" \in flags
  <2>1. /\ pc' = "idle" /\ ret' = "raised" => file'.status = "absent"
        /\ pc' = "idle" /\ ret' = "completed" => file.status = "completed"
    BY <1>2, <1>3 DEF CallTool, Resume, Return
  <2>2. CompletedHasSummary
    BY DEF SweepInv, SweepInvariant
  <2>3. QED
    BY <1>1, <1>2, <2>1, <2>2
       DEF CompletedHasSummary, TaskTypeOK, TaskRestsOnRun, TaskResumes, TaskCallInv, Unjudged
<1>4. CASE "resume" \notin flags
  <2>1. pc' = "idle" => ret' = "raised"
    BY <1>4 DEF CallTool, Create, Return
  <2>2. QED
    BY <1>1, <1>2, <1>4, <2>1 DEF TaskTypeOK, TaskRestsOnRun, TaskResumes, TaskCallInv, Unjudged
<1>5. QED
  BY <1>3, <1>4

LEMMA TaskToolStep ==
  ASSUME TaskInv, ToolStep
  PROVE  TaskInv'
<1> USE DEF TaskInv, TaskInvariant
<1>1. SweepInv' /\ tpc = "called" /\ UNCHANGED tvars
  BY LoopStep DEF ToolStep
<1>2. /\ file.status # "completed"
      /\ pc' = "idle" => /\ ret' \in {"completed", "failed", "raised"}
                         /\ ret' = "completed" => file'.status = "completed" /\ file'.summary
                         /\ ret' = "raised" => Unjudged'
  BY LoopEnds DEF ToolStep
<1>3. TaskTypeOK' /\ TaskRestsOnRun' /\ TaskResumes'
  BY <1>1, <1>2 DEF TaskTypeOK, TaskRestsOnRun, TaskResumes, TaskCallInv, Unjudged, tvars
<1>4. TaskCallInv'
  BY <1>1, <1>2 DEF TaskCallInv, tvars
<1>5. QED
  BY <1>1, <1>3, <1>4

LEMMA TaskStep == TaskInv /\ [TaskNext]_<<vars, tvars>> => TaskInv'
<1> SUFFICES ASSUME TaskInv, [TaskNext]_<<vars, tvars>>
             PROVE  TaskInv'
  OBVIOUS
<1>1. CASE UNCHANGED <<vars, tvars>>
  <2>1. SweepInv'
    BY <1>1, CallsKept, Kept DEF vars, TaskInv
  <2>2. QED
    BY <1>1, <2>1
       DEF vars, tvars, TaskInv, TaskInvariant, TaskTypeOK, TaskRestsOnRun, TaskResumes, TaskCallInv, Unjudged
<1>2. QED
  BY <1>1, TaskOwnStep, TaskCallStep, TaskToolStep DEF TaskNext, TaskLoop

LEMMA TaskInductive == TaskSpec => []TaskInv
  BY TaskStep, TaskInitially, PTL DEF TaskSpec

\* The PN run keeps its promises under a task that creates and resumes it, and
\* the task's state follows it; see TaskInvariant.
THEOREM TaskFollowsItsRun == TaskSpec => [](SweepInvariant /\ TaskInvariant)
<1>1. TaskInv => SweepInvariant /\ TaskInvariant
  BY DEF TaskInv, SweepInv
<1>2. QED
  BY <1>1, TaskInductive, PTL

-----------------------------------------------------------------------------
(***************************************************************************)
(* ProcessControl                                                          *)
(***************************************************************************)
\* Where the call is bounds the clock while the child runs, and the child has
\* ended when the call drains its pipes or returns.
ClockInv ==
    /\ timeout # NoTimeout /\ ppc = "polling" => clock < timeout
    /\ timeout # NoTimeout /\ ppc = "checking" => clock <= timeout
    /\ timeout # NoTimeout /\ ppc = "grace" => clock + patience <= timeout + Grace
    /\ ppc \in {"draining", "done"} => child = "exited"

ProcessInv == ProcessInvariant /\ ClockInv

LEMMA ClockLimit ==
  /\ MaxClock \in Nat /\ Timeouts \subseteq Nat /\ Grace \in Nat \ {0}
  /\ \A t \in Timeouts : t + Grace < MaxClock
<1> DEFINE top == CHOOSE t \in Timeouts : \A u \in Timeouts : u <= t
<1>1. top \in Timeouts /\ \A u \in Timeouts : u <= top
  BY ProcessAssumption
<1>2. top \in Nat /\ Grace \in Nat \ {0} /\ MaxClock = top + Grace + 1
  BY <1>1, ProcessAssumption DEF MaxClock
<1> HIDE DEF top
<1>3. QED
  BY <1>1, <1>2, ProcessAssumption

LEMMA ProcessInitially == ProcessInit => ProcessInv
<1> SUFFICES ASSUME ProcessInit
             PROVE  ProcessInv
  OBVIOUS
<1> USE DEF ProcessInit
<1>1. ProcessTypeOK
  <2>1. {held, deaf, token, seen} \subseteq BOOLEAN
    BY Zenon
  <2>2. result \in Result
    BY DEF Result
  <2>3. clock \in 0 .. MaxClock /\ patience \in 0 .. Grace
    BY ClockLimit
  <2>4. QED
    BY <2>1, <2>2, <2>3 DEF ProcessTypeOK
<1>2. CancelIsNonzero /\ NoChildLeft
  BY DEF CancelIsNonzero, NoChildLeft
<1>3. StoppedInTime /\ ClockInv
  BY ClockLimit DEF StoppedInTime, ClockInv, NoTimeout
<1>4. QED
  BY <1>1, <1>2, <1>3 DEF ProcessInv, ProcessInvariant

\* The child, its descendants and the other processes.
LEMMA EnvironmentStep ==
  ASSUME ProcessInv, Environment
  PROVE  ProcessInv'
<1> USE DEF ProcessInv, ProcessInvariant
<1>1. ProcessTypeOK'
  BY DEF Environment, ChildExits, Fork, GrandchildEnds, Flip, ProcessTypeOK
<1>2. (CancelIsNonzero /\ NoChildLeft /\ StoppedInTime /\ ClockInv)'
  BY DEF Environment, ChildExits, Fork, GrandchildEnds, Flip, CancelIsNonzero, NoChildLeft,
     StoppedInTime, ClockInv
<1>3. QED
  BY <1>1, <1>2

\* A poll or a second of the grace period passes.
LEMMA TickStep ==
  ASSUME ProcessInv, PollExpires \/ GraceTick
  PROVE  ProcessInv'
<1> USE DEF ProcessInv, ProcessInvariant
<1>1. /\ clock \in 0 .. MaxClock /\ patience \in 0 .. Grace /\ timeout \in Timeouts
      /\ timeout \in Nat /\ timeout + Grace < MaxClock /\ MaxClock \in Nat /\ Grace \in Nat
  BY ClockLimit DEF ProcessTypeOK
<1>2. /\ clock' \in 0 .. MaxClock /\ (clock < MaxClock => clock' = clock + 1)
      /\ UNCHANGED <<timeout, why, child, code, held, deaf, token, seen, result>>
      /\ clock' \in clock .. clock + 1
  BY <1>1 DEF PollExpires, GraceTick, Later
<1>3. CASE PollExpires
  <2>1. ProcessTypeOK'
    BY <1>2, <1>3 DEF PollExpires, ProcessTypeOK
  <2>2. ClockInv' /\ StoppedInTime'
    BY <1>1, <1>2, <1>3 DEF PollExpires, ClockInv, StoppedInTime, NoTimeout
  <2>3. CancelIsNonzero' /\ NoChildLeft'
    BY <1>2, <1>3 DEF PollExpires, CancelIsNonzero, NoChildLeft
  <2>4. QED
    BY <2>1, <2>2, <2>3
<1>4. CASE GraceTick
  <2>1. ProcessTypeOK'
    BY <1>1, <1>2, <1>4 DEF GraceTick, ProcessTypeOK
  <2>2. ClockInv' /\ StoppedInTime'
    BY <1>1, <1>2, <1>4 DEF GraceTick, ClockInv, StoppedInTime, NoTimeout
  <2>3. CancelIsNonzero' /\ NoChildLeft'
    BY <1>2, <1>4 DEF GraceTick, CancelIsNonzero, NoChildLeft
  <2>4. QED
    BY <2>1, <2>2, <2>3
<1>5. QED
  BY <1>3, <1>4

\* The call looks at the clock and the cancel file, and may terminate the child.
LEMMA CheckStep ==
  ASSUME ProcessInv, TimesOut \/ SeesCancel \/ PollAgain \/ Kill
  PROVE  ProcessInv'
<1> USE DEF ProcessInv, ProcessInvariant
<1>1. /\ clock \in 0 .. MaxClock /\ timeout \in Nat /\ Grace \in Nat
  BY ClockLimit DEF ProcessTypeOK
<1>2. ProcessTypeOK'
  <2>1. {held, deaf, token, seen}' \subseteq BOOLEAN
    BY DEF TimesOut, SeesCancel, PollAgain, Kill, ProcessTypeOK
  <2>2. child' \in {"running", "exited"} /\ code' \in {0, 1, Sigterm, Sigkill}
    BY DEF TimesOut, SeesCancel, PollAgain, Kill, Terminate, ProcessTypeOK
  <2>3. /\ patience' \in 0 .. Grace /\ why' \in {"none", "timeout", "cancel"}
        /\ ppc' \in {"polling", "grace", "draining"} /\ UNCHANGED <<timeout, clock, result>>
    BY <1>1 DEF TimesOut, SeesCancel, PollAgain, Kill, Terminate, ProcessTypeOK
  <2>4. QED
    BY <2>1, <2>2, <2>3 DEF ProcessTypeOK
<1>3. CancelIsNonzero' /\ NoChildLeft'
  BY DEF TimesOut, SeesCancel, PollAgain, Kill, Terminate, CancelIsNonzero, NoChildLeft
<1>4. ClockInv' /\ StoppedInTime'
  BY <1>1 DEF TimesOut, SeesCancel, PollAgain, Kill, Terminate, Expired, ClockInv, StoppedInTime,
     NoTimeout
<1>5. QED
  BY <1>2, <1>3, <1>4

LEMMA ReturnStep ==
  ASSUME ProcessInv, Complete \/ Drained
  PROVE  ProcessInv'
<1> USE DEF ProcessInv, ProcessInvariant
<1>1. /\ code \in {0, 1, Sigterm, Sigkill} /\ CancelCode \in {1, Sigterm, Sigkill}
  BY DEF ProcessTypeOK, CancelCode
<1>2. PICK kind \in {"completed", "timed_out", "cancelled"}, c \in {0, 1, Sigterm, Sigkill} :
        CallOver(kind, c) /\ (kind = "cancelled" => c = CancelCode)
  BY <1>1 DEF Complete, Drained
<1>3. /\ result' \in Result /\ (result'.kind = "cancelled" => result'.code # 0) /\ ppc' = "done"
  BY <1>1, <1>2 DEF CallOver, Result, Sigterm, Sigkill
<1>4. /\ child = "exited"
      /\ UNCHANGED <<timeout, why, child, code, held, deaf, token, seen, clock, patience>>
  BY DEF Complete, Drained, Ended
<1>5. ProcessTypeOK'
  BY <1>3, <1>4 DEF ProcessTypeOK
<1>6. (CancelIsNonzero /\ NoChildLeft /\ StoppedInTime /\ ClockInv)'
  BY <1>3, <1>4 DEF CancelIsNonzero, NoChildLeft, StoppedInTime, ClockInv
<1>7. QED
  BY <1>5, <1>6

LEMMA ProcessStep == ProcessInv /\ [ProcessNext]_pvars => ProcessInv'
<1> SUFFICES ASSUME ProcessInv, [ProcessNext]_pvars
             PROVE  ProcessInv'
  OBVIOUS
<1>1. CASE UNCHANGED pvars
  BY <1>1 DEF pvars, ProcessInv, ProcessInvariant, ProcessTypeOK, CancelIsNonzero, NoChildLeft,
     StoppedInTime, ClockInv
<1>2. QED
  BY <1>1, EnvironmentStep, TickStep, CheckStep, ReturnStep DEF ProcessNext, Caller

\* run_cancellable leaves nothing running behind its deadline or its return, and
\* takes no cancellation for a success, whatever the child, its descendants and
\* the writers of the cancel file do; see ProcessInvariant.
THEOREM ProcessIsControlled == ProcessSpec => []ProcessInvariant
<1>1. ProcessInv => ProcessInvariant
  BY DEF ProcessInv
<1>2. QED
  BY <1>1, ProcessStep, ProcessInitially, PTL DEF ProcessSpec

-----------------------------------------------------------------------------
(***************************************************************************)
(* ExtendedDevice                                                          *)
(***************************************************************************)
\* A call that writes files has run the solver it needs, and what it wrote so
\* far is its own.
FilesInv ==
    /\ epc # "idle" => eruns >= 1
    /\ epc \in {"solver", "solving"} => Invokes(device, ereq.request.fidelity)
    /\ epc \in {"csv", "summary", "state"} /\ Invokes(device, ereq.request.fidelity) => eruns \in solved
    /\ epc \in {"summary", "state"} => ecsv = eruns
    /\ epc = "state" => esummary = eruns
    /\ epc \in {"summary", "state"} => ereq.request.sound
    /\ efile.status = "completed" => efile.request.sound
    /\ efile.call <= eruns

\* A workflow waits for the tool it called, whose state is then that of this
\* call, and knows no newer one.
FlowInv ==
    /\ epc # "idle" => workflow = "tool" \/ wpc = "baseline"
    /\ workflow = "tool" => wpc = "idle" /\ wfile.verdict = "none"
    /\ wpc # "idle" => wpc = "baseline" /\ eruns >= 1 /\ wfile.call < eruns
    /\ wpc = "baseline" /\ epc = "idle" => efile.status # "absent" /\ efile.call = eruns
    /\ workflow = "calibration" /\ wpc = "baseline" => wfile.status = "absent"
    /\ wfile.status = "absent" => wfile.verdict = "none"
    /\ wfile.verdict = "verified" => workflow = "calibration"
    /\ wfile.verdict = "ready" => workflow = "signoff"
    /\ wfile.call <= eruns

\* A sign-off knows no other fidelity than that of its baseline.
BaselineInv ==
    workflow = "signoff" =>
        /\ efile.status # "absent" => efile.request.fidelity = "devsim_2d_field_plate"
        /\ epc # "idle" => ereq.request.fidelity = "devsim_2d_field_plate"

DeviceInv == DeviceInvariant /\ FilesInv /\ FlowInv /\ BaselineInv

LEMMA DeviceInitially == ExtendedInit => DeviceInv
<1> SUFFICES ASSUME ExtendedInit
             PROVE  DeviceInv
  OBVIOUS
<1> USE ExtendedAssumption DEF ExtendedInit
<1>1. efile \in Run /\ efile.call = 0 /\ efile.status = "absent"
  BY DEF NoRun, Run, NoRequest, Request, Reasons, Fidelities, Verdicts
<1>2. wfile \in Gate /\ wfile.call = 0 /\ wfile.verdict = "none"
  BY DEF NoGate, Gate, Verdicts
<1>3. ExtendedTypeOK
  <2>1. ereq \in [request: Request, resume: BOOLEAN]
    BY DEF NoRequest, Request, Fidelities
  <2>2. edir \in BOOLEAN /\ einner \in BOOLEAN /\ wlost \in BOOLEAN
    BY Zenon
  <2>3. QED
    BY <1>1, <1>2, <2>1, <2>2 DEF ExtendedTypeOK
<1>4. SolverBehindEvidence /\ FilesAreTheStates /\ VerifiedHasState /\ ReadyIsEarned
  BY <1>1, <1>2 DEF SolverBehindEvidence, FilesAreTheStates, VerifiedHasState, ReadyIsEarned
<1>5. FilesInv /\ FlowInv /\ BaselineInv
  BY <1>1, <1>2 DEF FilesInv, FlowInv, BaselineInv
<1>6. QED
  BY <1>3, <1>4, <1>5 DEF DeviceInv, DeviceInvariant

\* A call opens its directory, or is stopped by it.
LEMMA OpenStep ==
  ASSUME DeviceInv, NEW request \in Request, NEW resume \in BOOLEAN,
         Open(request, resume), eruns < MaxRuns, eruns' = eruns + 1,
         UNCHANGED <<workflow, device, wfile, wlost, ecrashes>>,
         \/ workflow = "tool" /\ wpc' = wpc
         \/ workflow = "calibration" /\ wpc' = "baseline" /\ wfile.status = "absent"
         \/ workflow = "signoff" /\ wpc' = "baseline" /\ request.fidelity = "devsim_2d_field_plate"
  PROVE  DeviceInv'
<1> USE DEF DeviceInv, DeviceInvariant
<1>1. /\ eruns \in Nat /\ eruns' \in 1 .. MaxRuns /\ eruns' = eruns + 1
      /\ efile \in Run /\ wfile \in Gate
  BY ExtendedAssumption DEF ExtendedTypeOK
<1>2. /\ ereq' = [request |-> request, resume |-> resume] /\ edir' = TRUE /\ epc = "idle"
      /\ UNCHANGED <<einner, ecsv, esummary, solved>>
  BY DEF Open
<1>3. /\ ereq' \in [request: Request, resume: BOOLEAN] /\ ereq'.request = request
      /\ workflow = "signoff" => request.fidelity = "devsim_2d_field_plate"
  BY <1>2
<1>4. wpc' \in {"idle", "baseline"} /\ (wpc' = "idle" <=> workflow = "tool")
  BY DEF FlowInv
<1>5. CASE edir /\ resume
  <2>1. /\ efile' = [status |-> "failed", call |-> eruns', request |-> request,
                   quality |-> "none", reason |-> "exists"]
        /\ eret' = "failed" /\ epc' = "idle"
    BY <1>3, <1>5 DEF Open, EReturn
  <2>2. efile' \in Run /\ efile'.status = "failed" /\ efile'.call = eruns' /\ efile'.request = request
    BY <1>1, <2>1 DEF Run, Reasons, Verdicts
  <2>3. ExtendedTypeOK'
    BY <1>1, <1>2, <1>3, <1>4, <2>1, <2>2 DEF ExtendedTypeOK
  <2>4. (SolverBehindEvidence /\ FilesAreTheStates)'
    BY <2>1, <2>2 DEF SolverBehindEvidence, FilesAreTheStates
  <2>5. (VerifiedHasState /\ ReadyIsEarned)'
    BY <1>1, <1>2, <1>4, <2>1, <2>2 DEF VerifiedHasState, ReadyIsEarned, FlowInv, Gate
  <2>6. (FilesInv /\ FlowInv /\ BaselineInv)'
    BY <1>1, <1>2, <1>3, <1>4, <2>1, <2>2 DEF FilesInv, FlowInv, BaselineInv, Gate
  <2>7. QED
    BY <2>3, <2>4, <2>5, <2>6
<1>6. CASE ~(edir /\ resume)
  <2>1. /\ epc' = IF Invokes(device, request.fidelity) THEN "solver" ELSE "csv"
        /\ eret' = "none" /\ UNCHANGED efile
    BY <1>6 DEF Open
  <2>2. ExtendedTypeOK'
    BY <1>1, <1>2, <1>3, <1>4, <2>1 DEF ExtendedTypeOK
  <2>3. (SolverBehindEvidence /\ FilesAreTheStates)'
    BY <1>2, <2>1 DEF SolverBehindEvidence, FilesAreTheStates
  <2>4. (VerifiedHasState /\ ReadyIsEarned)'
    BY <1>2, <2>1 DEF VerifiedHasState, ReadyIsEarned
  <2>5. (FilesInv /\ FlowInv /\ BaselineInv)'
    BY <1>1, <1>2, <1>3, <1>4, <2>1 DEF FilesInv, FlowInv, BaselineInv, Gate, Run
  <2>6. QED
    BY <2>2, <2>3, <2>4, <2>5
<1>7. QED
  BY <1>5, <1>6

LEMMA CallDeviceStep ==
  ASSUME DeviceInv, CallDevice
  PROVE  DeviceInv'
<1>1. PICK request \in Request, resume \in BOOLEAN : Open(request, resume)
  BY DEF CallDevice, Request, Invokes
<1>2. QED
  BY <1>1, OpenStep DEF CallDevice, flowvars

\* A call of a workflow, or of its tool, ends without one more state of the tool.
LEMMA GateStep ==
  ASSUME DeviceInv, NEW gate \in Gate, wfile' = gate, wpc' = "idle", epc = "idle",
         eruns' \in eruns .. MaxRuns, gate.call = eruns', gate.status # "absent",
         workflow \in {"calibration", "signoff"},
         gate.verdict = "verified" => workflow = "calibration" /\ eruns' = eruns /\ wpc = "baseline",
         gate.verdict = "ready" =>
            /\ workflow = "signoff" /\ eruns' = eruns /\ wpc = "baseline"
            /\ gate.evidence = <<"passed", "passed">>
            /\ efile.status = "completed" /\ efile.quality # "failed",
         UNCHANGED <<workflow, device, toolvars, wlost, ecrashes>>
  PROVE  DeviceInv'
<1> USE DEF DeviceInv, DeviceInvariant, toolvars
<1>1. eruns \in Nat /\ MaxRuns \in Nat /\ efile \in Run /\ eruns' \in 0 .. MaxRuns
  BY ExtendedAssumption DEF ExtendedTypeOK
<1>2. ExtendedTypeOK'
  BY <1>1 DEF ExtendedTypeOK
<1>3. SolverBehindEvidence' /\ FilesAreTheStates'
  BY DEF SolverBehindEvidence, FilesAreTheStates
<1>4. VerifiedHasState'
  BY DEF VerifiedHasState, FlowInv
<1>5. ReadyIsEarned'
  BY DEF ReadyIsEarned, FlowInv, BaselineInv, SolverBehindEvidence, Invokes
<1>6. FilesInv' /\ FlowInv' /\ BaselineInv'
  BY <1>1 DEF FilesInv, FlowInv, BaselineInv, Run
<1>7. QED
  BY <1>2, <1>3, <1>4, <1>5, <1>6

LEMMA WorkflowReturns ==
  ASSUME DeviceInv, NEW status \in {"planned", "completed", "failed"},
         NEW verdict \in {"none", "conditional", "fitted"},
         WReturn(status, verdict), epc = "idle", eruns' \in eruns .. MaxRuns,
         workflow \in {"calibration", "signoff"},
         UNCHANGED <<workflow, device, toolvars, wlost, ecrashes>>
  PROVE  DeviceInv'
<1> DEFINE gate == [status |-> status, verdict |-> verdict, evidence |-> <<"none", "none">>, call |-> eruns']
<1>1. wfile' = gate /\ wpc' = "idle"
  BY DEF WReturn, WReturnWith
<1>2. eruns' \in 0 .. MaxRuns
  BY ExtendedAssumption DEF DeviceInv, DeviceInvariant, ExtendedTypeOK
<1>3. gate \in Gate
  BY <1>2 DEF Gate, Verdicts
<1>4. QED
  BY <1>1, <1>3, GateStep

LEMMA Counted ==
  ASSUME DeviceInv, eruns < MaxRuns, eruns' = eruns + 1
  PROVE  eruns' \in eruns .. MaxRuns
  BY ExtendedAssumption DEF DeviceInv, DeviceInvariant, ExtendedTypeOK

LEMMA CalibrateStep ==
  ASSUME DeviceInv, Calibrate
  PROVE  DeviceInv'
<1>1. /\ workflow = "calibration" /\ wpc = "idle" /\ epc = "idle" /\ eruns < MaxRuns /\ eruns' = eruns + 1
      /\ UNCHANGED <<workflow, device, wlost, ecrashes>>
  BY DEF Calibrate, Calls
<1>2. CASE WReturn("failed", "none") /\ UNCHANGED toolvars
  BY <1>1, <1>2, Counted, WorkflowReturns
<1>3. CASE WReturn("completed", "fitted") /\ UNCHANGED toolvars
  BY <1>1, <1>3, Counted, WorkflowReturns
<1>4. CASE wpc' = "baseline" /\ Open(Solving("devsim_1d"), FALSE) /\ UNCHANGED wfile /\ wfile.status = "absent"
  BY <1>1, <1>4, OpenStep DEF Solving, Request, Fidelities
<1>5. QED
  BY <1>2, <1>3, <1>4 DEF Calibrate

LEMMA SignOffStep ==
  ASSUME DeviceInv, SignOff
  PROVE  DeviceInv'
<1>1. /\ workflow = "signoff" /\ wpc = "idle" /\ epc = "idle" /\ eruns < MaxRuns /\ eruns' = eruns + 1
      /\ UNCHANGED <<workflow, device, wlost, ecrashes>>
  BY DEF SignOff, Calls
<1>2. CASE WReturn("planned", "conditional") /\ UNCHANGED toolvars
  BY <1>1, <1>2, Counted, WorkflowReturns
<1>3. CASE wpc' = "baseline" /\ Open(Solving("devsim_2d_field_plate"), FALSE) /\ UNCHANGED wfile
  BY <1>1, <1>3, OpenStep DEF Solving, Request, Fidelities
<1>4. QED
  BY <1>2, <1>3 DEF SignOff

LEMMA VerifiedStep ==
  ASSUME DeviceInv, Verified
  PROVE  DeviceInv'
<1> DEFINE gate == [status |-> "completed", verdict |-> "verified", evidence |-> <<"none", "none">>, call |-> eruns]
<1>1. /\ wfile' = gate /\ wpc' = "idle" /\ eruns' = eruns /\ epc = "idle" /\ wpc = "baseline"
      /\ workflow = "calibration" /\ UNCHANGED <<workflow, device, toolvars, wlost, ecrashes>>
  BY DEF Verified, WReturn, WReturnWith
<1>2. eruns \in 0 .. MaxRuns /\ eruns \in eruns .. MaxRuns
  BY ExtendedAssumption DEF DeviceInv, DeviceInvariant, ExtendedTypeOK
<1>3. gate \in Gate
  BY <1>2 DEF Gate, Verdicts
<1>4. QED
  BY <1>1, <1>2, <1>3, GateStep

LEMMA CloseGateStep ==
  ASSUME DeviceInv, CloseGate
  PROVE  DeviceInv'
<1>1. PICK benchmark \in Benchmarked(efile.quality), convergence \in Verdicts,
           reference \in References, raised \in References :
        \E golden \in IF reference /\ ~raised THEN Verdicts \ {"none"} ELSE {"none"} :
           LET verdict == Verdict(benchmark, convergence, golden)
           IN  WReturnWith(IF raised \/ verdict = "blocked" THEN "failed" ELSE "completed",
                           verdict, <<convergence, golden>>)
  BY DEF CloseGate
<1>2. PICK golden \in Verdicts :
        LET verdict == Verdict(benchmark, convergence, golden)
        IN  WReturnWith(IF raised \/ verdict = "blocked" THEN "failed" ELSE "completed",
                        verdict, <<convergence, golden>>)
  BY <1>1 DEF Verdicts
<1> DEFINE verdict == Verdict(benchmark, convergence, golden)
           status == IF raised \/ verdict = "blocked" THEN "failed" ELSE "completed"
           gate == [status |-> status, verdict |-> verdict, evidence |-> <<convergence, golden>>, call |-> eruns]
<1>3. /\ wfile' = gate /\ wpc' = "idle" /\ eruns' = eruns /\ epc = "idle" /\ wpc = "baseline"
      /\ workflow = "signoff" /\ UNCHANGED <<workflow, device, toolvars, wlost, ecrashes>>
  BY <1>2 DEF CloseGate, WReturnWith
<1>4. eruns \in 0 .. MaxRuns /\ eruns \in eruns .. MaxRuns
  BY ExtendedAssumption DEF DeviceInv, DeviceInvariant, ExtendedTypeOK
<1>5. verdict \in {"blocked", "conditional", "ready"} /\ status \in {"failed", "completed"}
  BY DEF Verdict
<1>6. verdict = "ready" =>
        /\ convergence = "passed" /\ golden = "passed"
        /\ efile.status = "completed" /\ efile.quality # "failed"
  BY DEF Verdict, Benchmarked
<1> HIDE DEF verdict, status
<1>7. gate \in Gate
  BY <1>4, <1>5 DEF Gate, Verdicts
<1>8. QED
  BY <1>3, <1>4, <1>5, <1>6, <1>7, GateStep

\* The tool fails, or completes what is its own: the state is written.
LEMMA StateStep ==
  ASSUME DeviceInv, epc # "idle", NEW status \in {"completed", "failed"}, NEW quality \in Verdicts,
         NEW cause \in Reasons, EReturn(status, quality, cause), UNCHANGED <<ereq, eruns, edir, einner, ecsv, esummary, solved>>,
         status = "completed" => epc = "state",
         UNCHANGED <<workflow, device, flowvars, ecrashes>>
  PROVE  DeviceInv'
<1> USE DEF DeviceInv, DeviceInvariant, flowvars
<1>1. /\ efile' = [status |-> status, call |-> eruns, request |-> ereq.request, quality |-> quality,
                   reason |-> cause]
      /\ eret' = status /\ epc' = "idle"
  BY DEF EReturn
<1>2. ereq.request \in Request /\ eruns \in 0 .. MaxRuns /\ eruns \in Nat
  BY ExtendedAssumption DEF ExtendedTypeOK
<1>3. efile' \in Run
  BY <1>1, <1>2 DEF Run
<1>4. ExtendedTypeOK'
  BY <1>1, <1>3 DEF ExtendedTypeOK
<1>5. SolverBehindEvidence' /\ FilesAreTheStates'
  BY <1>1 DEF SolverBehindEvidence, FilesAreTheStates, FilesInv
<1>6. VerifiedHasState' /\ ReadyIsEarned'
  BY <1>1, <1>2 DEF VerifiedHasState, ReadyIsEarned, FlowInv, ExtendedTypeOK, Gate
<1>7. FilesInv' /\ FlowInv' /\ BaselineInv'
  BY <1>1, <1>2 DEF FilesInv, FlowInv, BaselineInv
<1>8. QED
  BY <1>4, <1>5, <1>6, <1>7

\* It makes its directory or writes a file.
LEMMA WriteStep ==
  ASSUME DeviceInv, UNCHANGED <<workflow, device, flowvars, ecrashes>>,
         \/ StartSolver /\ epc' = "solving" /\ UNCHANGED <<efile, eret>> /\ einner'
         \/ EndSolver /\ epc' = "csv" /\ solved' = solved \cup {eruns} /\ UNCHANGED <<efile, eret>>
         \/ WriteCsv
         \/ WriteSummary
  PROVE  DeviceInv'
<1> USE DEF DeviceInv, DeviceInvariant, flowvars
<1>1. /\ epc # "idle" /\ epc' \in {"solving", "csv", "summary", "state"} /\ einner' \in BOOLEAN
      /\ UNCHANGED <<efile, eret, ereq, eruns, edir>>
      /\ solved' \in {solved, solved \cup {eruns}} /\ (epc' = "csv" => eruns \in solved')
      /\ ecsv' \in {ecsv, eruns} /\ esummary' \in {esummary, eruns}
  BY DEF StartSolver, EndSolver, WriteCsv, WriteSummary, ExtendedTypeOK
<1>2. eruns \in 1 .. MaxRuns /\ eruns \in 0 .. MaxRuns
  BY <1>1, ExtendedAssumption DEF ExtendedTypeOK, FilesInv
<1>3. ExtendedTypeOK'
  BY <1>1, <1>2 DEF ExtendedTypeOK
<1>4. SolverBehindEvidence' /\ FilesAreTheStates' /\ VerifiedHasState' /\ ReadyIsEarned'
  BY <1>1 DEF SolverBehindEvidence, FilesAreTheStates, VerifiedHasState, ReadyIsEarned
<1>5. FilesInv'
  BY <1>1 DEF FilesInv, StartSolver, EndSolver, WriteCsv, WriteSummary
<1>6. FlowInv' /\ BaselineInv'
  BY <1>1 DEF FlowInv, BaselineInv
<1>7. QED
  BY <1>3, <1>4, <1>5, <1>6

LEMMA ToolWorkStep ==
  ASSUME DeviceInv, ToolWork
  PROVE  DeviceInv'
<1>1. UNCHANGED <<workflow, device, flowvars, ecrashes>>
  BY DEF ToolWork
<1>2. CASE StartSolver
  <2>1. CASE einner
    <3>1. EReturn("failed", "none", "solver") /\ epc # "idle" /\ UNCHANGED <<ereq, eruns, edir, einner, ecsv, esummary, solved>>
      BY <1>2, <2>1 DEF StartSolver
    <3>2. QED
      BY <1>1, <3>1, StateStep DEF Verdicts, Reasons
  <2>2. CASE ~einner
    BY <1>1, <1>2, <2>2, WriteStep DEF StartSolver
  <2>3. QED
    BY <2>1, <2>2
<1>3. CASE EndSolver
  <2>1. CASE EReturn("failed", "none", "solver") /\ UNCHANGED solved
    <3>1. epc # "idle" /\ UNCHANGED <<ereq, eruns, edir, einner, ecsv, esummary, solved>>
      BY <1>3, <2>1 DEF EndSolver
    <3>2. QED
      BY <1>1, <2>1, <3>1, StateStep DEF Verdicts, Reasons
  <2>2. QED
    BY <1>1, <1>3, <2>1, WriteStep DEF EndSolver
<1>4. CASE WriteCsv \/ WriteSummary
  BY <1>1, <1>4, WriteStep
<1>5. CASE WriteState
  <2>1. PICK quality \in Qualities_(ereq.request.fidelity) : EReturn("completed", quality, "none")
    BY <1>5 DEF WriteState
  <2>2. quality \in Verdicts
    BY DEF Qualities_, Verdicts
  <2>3. epc = "state" /\ UNCHANGED <<ereq, eruns, edir, einner, ecsv, esummary, solved>>
    BY <1>5 DEF WriteState
  <2>4. QED
    BY <1>1, <2>1, <2>2, <2>3, StateStep DEF Reasons
<1>6. CASE FormulaRejects
  <2>1. /\ EReturn("failed", "none", "request") /\ epc # "idle"
        /\ UNCHANGED <<ereq, eruns, edir, einner, ecsv, esummary, solved>>
    BY <1>6 DEF FormulaRejects
  <2>2. QED
    BY <1>1, <2>1, StateStep DEF Verdicts, Reasons
<1>7. CASE OtherRaises
  <2>1. /\ EReturn("failed", "none", "other") /\ epc # "idle"
        /\ UNCHANGED <<ereq, eruns, edir, einner, ecsv, esummary, solved>>
    BY <1>7 DEF OtherRaises
  <2>2. QED
    BY <1>1, <2>1, StateStep DEF Verdicts, Reasons
<1>8. QED
  BY <1>2, <1>3, <1>4, <1>5, <1>6, <1>7 DEF ToolWork

LEMMA DeviceCrashStep ==
  ASSUME DeviceInv, ECrash
  PROVE  DeviceInv'
<1> USE DEF DeviceInv, DeviceInvariant, ECrash
<1>1. ExtendedTypeOK'
  BY ExtendedAssumption DEF ExtendedTypeOK
<1>2. SolverBehindEvidence' /\ FilesAreTheStates' /\ VerifiedHasState' /\ ReadyIsEarned'
  BY DEF SolverBehindEvidence, FilesAreTheStates, VerifiedHasState, ReadyIsEarned
<1>3. FilesInv' /\ FlowInv' /\ BaselineInv'
  BY DEF FilesInv, FlowInv, BaselineInv
<1>4. QED
  BY <1>1, <1>2, <1>3

LEMMA DeviceInductive == DeviceInv /\ [ExtendedNext]_evars => DeviceInv'
<1> SUFFICES ASSUME DeviceInv, [ExtendedNext]_evars
             PROVE  DeviceInv'
  OBVIOUS
<1>1. CASE UNCHANGED evars
  BY <1>1 DEF evars, toolvars, flowvars, DeviceInv, DeviceInvariant, ExtendedTypeOK,
     SolverBehindEvidence, FilesAreTheStates, VerifiedHasState, ReadyIsEarned, FilesInv, FlowInv,
     BaselineInv
<1>2. QED
  BY <1>1, CallDeviceStep, CalibrateStep, SignOffStep, ToolWorkStep, VerifiedStep, CloseGateStep,
     DeviceCrashStep
     DEF ExtendedNext, ExtendedWork

\* What a device run and the two workflows over it say is backed by a solver and
\* by the files in the directory; see DeviceInvariant.
THEOREM DeviceIsBacked == ExtendedSpec => []DeviceInvariant
<1>1. DeviceInv => DeviceInvariant
  BY DEF DeviceInv
<1>2. QED
  BY <1>1, DeviceInitially, DeviceInductive, PTL DEF ExtendedSpec

\* The request that completed is sound, so that a formula which rejects its
\* request has another one.
LEMMA FormulaStepwise == DeviceInv /\ [ExtendedNext]_evars => FormulaRepeats
<1> SUFFICES ASSUME DeviceInv, [ExtendedNext]_evars, efile.status = "completed", efile'.status = "failed",
                    ereq'.request = efile.request, ~ereq'.resume,
                    ~Invokes(device, ereq'.request.fidelity)
             PROVE  efile'.reason = "other"
  BY DEF FormulaRepeats
<1>1. efile.request.sound
  BY DEF DeviceInv, FilesInv
<1>2. CASE \E request \in Request, resume \in BOOLEAN : Open(request, resume)
  BY <1>2 DEF Open, EReturn
<1>3. CASE StartSolver \/ EndSolver
  BY <1>3 DEF StartSolver, EndSolver, DeviceInv, FilesInv
<1>4. CASE FormulaRejects
  BY <1>1, <1>4 DEF FormulaRejects
<1>5. CASE WriteState
  BY <1>5 DEF WriteState, EReturn
<1>6. CASE OtherRaises
  BY <1>6 DEF OtherRaises, EReturn
<1>7. CASE UNCHANGED efile
  BY <1>7
<1>8. CASE CallDevice
  <2>1. PICK request \in Request, resume \in BOOLEAN : Open(request, resume)
    BY <1>8 DEF CallDevice, Request, Invokes
  <2>2. QED
    BY <1>2, <2>1
<1>9. QED
  BY <1>2, <1>3, <1>4, <1>5, <1>6, <1>7, <1>8
     DEF ExtendedNext, ExtendedWork, ToolWork, Calibrate, SignOff, Verified, CloseGate,
         ECrash, WriteCsv, WriteSummary, evars, toolvars, Solving, Request, Fidelities

\* A call that evaluates a formula, completed and is repeated loses its result
\* neither to its own directory nor to the formula; see FormulaRepeats.
THEOREM FormulasRepeat == ExtendedSpec => [][FormulaRepeats]_evars
  BY DeviceInitially, DeviceInductive, FormulaStepwise, PTL DEF ExtendedSpec

-----------------------------------------------------------------------------
(***************************************************************************)
(* Sentaurus                                                               *)
(***************************************************************************)
Command == [step : 0 .. FlowSteps, ok : BOOLEAN]
Codes == {"none", "ok", "error"}
Endings == Codes \cup {"lost"}

\* A step that ended well, or was lost over an older return code of 0.
Well(s) == real[s] = "ok" \/ (real[s] = "lost" /\ s \in stale)

SentaurusTypes ==
    /\ commands \in Seq(Command) /\ real \in [1 .. FlowSteps -> Endings]
    /\ artifact \in [remote : Codes, local : Codes]
    /\ reason \in BOOLEAN /\ cancel \in BOOLEAN

\* The flow takes its steps in order, at most three commands each.
StepsInv ==
    /\ place = "start" => at = 0 /\ runMode = "planned"
    /\ place # "start" => at \in 1 .. FlowSteps
    /\ place \in {"prepare", "push"} => at = 1
    /\ place \in {"start", "prepare"} => commands = << >>
    /\ place = "push" => Len(commands) <= 1
    /\ place \in {"step", "submit"} => Len(commands) <= 3 * at - 1
    /\ place \in {"poll", "pull"} => Len(commands) <= 3 * at
    /\ place \in {"prepare", "push", "step", "submit", "poll", "pull"} => runMode # "planned"
    /\ place \in {"start", "prepare", "push", "step", "submit", "poll", "pull"} => ~reason
    /\ place \in {"submit", "poll"} => runMode = "slurm"
    /\ place = "pull" => runMode \in {"ssh", "slurm"}

\* The steps behind the flow have really ended well, and so have all of them
\* when it ends without a failure.
RanInv ==
    /\ place \in {"step", "submit", "poll", "pull"} => \A s \in 1 .. at - 1 : Well(s)
    /\ place \in {"judge", "done"} /\ ~reason /\ runMode # "planned" =>
          \A s \in 1 .. FlowSteps : Well(s)
    /\ place = "pull" /\ runMode = "ssh" =>
          commands # << >> /\ (commands[Len(commands)].ok => real[at] = "ok")
    /\ place = "poll" /\ job = "active" /\ artifact.remote = "ok" => at \in stale
    /\ place = "poll" /\ job = "over" /\ artifact.remote = "ok" => Well(at)
    /\ place = "pull" /\ runMode = "slurm" /\ poll = "done" /\ artifact.remote = "ok" => Well(at)
    /\ \A s \in ended : s.status = "completed" => ~reason /\ runMode # "planned"

\* A job is at work while its step is polled, and longer only behind a failure;
\* a job without an id is behind a failed run.
JobInv ==
    /\ job = "active" => place \in {"poll", "pull", "judge", "done"}
    /\ job = "unknown" => place \in {"judge", "done"} /\ reason
    /\ place = "poll" => job \in {"active", "over"}
    /\ place = "pull" /\ runMode = "slurm" /\ poll = "done" => job = "over"
    /\ place \in {"judge", "done"} /\ ~reason => job # "active"
    /\ job = "active" /\ place # "poll" => trouble # {}

SentaurusInv == SentaurusInvariant /\ SentaurusTypes /\ StepsInv /\ RanInv /\ JobInv

LEMMA FlowLength == FlowSteps \in Nat \ {0} /\ RunModes \subseteq {"local", "ssh", "slurm"}
  BY SentaurusAssumption

LEMMA AppendCommand ==
  ASSUME NEW c \in Seq(Command), NEW x \in Command
  PROVE  /\ Append(c, x) \in Seq(Command) /\ Len(Append(c, x)) = Len(c) + 1 /\ Len(c) \in Nat
         /\ Append(c, x) # << >> /\ Append(c, x)[Len(Append(c, x))] = x
  OBVIOUS

LEMMA SentaurusInitially == SentaurusInit => SentaurusInv
<1> SUFFICES ASSUME SentaurusInit
             PROVE  SentaurusInv
  OBVIOUS
<1> USE FlowLength DEF SentaurusInit
<1>1. SentaurusTypes
  <2>1. real \in [1 .. FlowSteps -> Endings]
    BY DEF Endings, Codes
  <2>2. artifact \in [remote : Codes, local : Codes]
    BY DEF NoFiles, Codes
  <2>3. commands \in Seq(Command)
    OBVIOUS
  <2>4. QED
    BY <2>1, <2>2, <2>3 DEF SentaurusTypes
<1>2. SentaurusTypeOK
  BY DEF SentaurusTypeOK
<1>3. CompletedRanAll /\ NoOrphanJob
  BY DEF CompletedRanAll, NoOrphanJob
<1>4. StepsInv /\ RanInv /\ JobInv
  BY DEF StepsInv, RanInv, JobInv
<1>5. QED
  BY <1>1, <1>2, <1>3, <1>4 DEF SentaurusInv, SentaurusInvariant

\* While a run has not ended there is nothing to be told of it.
LEMMA NotEnded ==
  ASSUME ended' = {}
  PROVE  CompletedRanAll' /\ NoOrphanJob'
  BY DEF CompletedRanAll, NoOrphanJob

LEMMA StartFlowStep ==
  ASSUME SentaurusInv, Start, UNCHANGED stale
  PROVE  SentaurusInv'
<1> USE DEF SentaurusInv, SentaurusInvariant
<1>1. /\ place = "start" /\ runMode' \in {"local", "ssh", "slurm", "planned"} /\ at' = 1
      /\ runMode' \in RunModes \cup {"planned"}
      /\ \/ runMode' = "planned" /\ place' = "judge"
         \/ runMode' = "local" /\ place' = "step"
         \/ runMode' \in {"ssh", "slurm"} /\ place' = "prepare"
      /\ UNCHANGED <<commands, curve, real, job, artifact, poll, cancel, trouble, reason, ended>>
  BY FlowLength DEF Start
<1>2. commands = << >> /\ Len(commands) = 0 /\ ended = {} /\ job # "active" /\ ~reason /\ job = "none"
  BY <1>1 DEF StepsInv, JobInv, SentaurusTypeOK
<1>3. SentaurusTypes' /\ SentaurusTypeOK'
  BY <1>1, <1>2, FlowLength DEF SentaurusTypes, SentaurusTypeOK
<1>4. CompletedRanAll' /\ NoOrphanJob'
  BY <1>1, <1>2, NotEnded
<1>5. StepsInv'
  BY <1>1, <1>2, FlowLength DEF StepsInv
<1>6. RanInv' /\ JobInv'
  BY <1>1, <1>2 DEF RanInv, JobInv
<1>7. QED
  BY <1>3, <1>4, <1>5, <1>6

LEMMA TransferStep ==
  ASSUME SentaurusInv, PrepareRemote \/ Push, UNCHANGED stale
  PROVE  SentaurusInv'
<1> USE DEF SentaurusInv, SentaurusInvariant
<1> DEFINE to == IF place = "prepare" THEN "push" ELSE IF runMode = "slurm" THEN "submit" ELSE "step"
<1>1. PICK ok \in BOOLEAN :
        /\ commands' = Append(commands, [step |-> 0, ok |-> ok])
        /\ IF ok THEN place' = to /\ UNCHANGED reason ELSE reason' = TRUE /\ place' = "judge"
  BY DEF PrepareRemote, Push, Transfer, Ran, StopFailed
<1>2. /\ place \in {"prepare", "push"}
      /\ UNCHANGED <<runMode, patches, at, curve, real, job, artifact, poll, cancel, trouble, ended>>
  BY DEF PrepareRemote, Push, Transfer
<1>3. /\ at = 1 /\ ended = {} /\ job # "active"
      /\ Len(commands) = 0 \/ (place = "push" /\ Len(commands) <= 1)
  BY <1>2 DEF StepsInv, JobInv, SentaurusTypeOK
<1>4. [step |-> 0, ok |-> ok] \in Command
  BY FlowLength DEF Command
<1>5. commands' \in Seq(Command) /\ Len(commands') = Len(commands) + 1 /\ Len(commands) \in Nat
  BY <1>1, <1>4, AppendCommand DEF SentaurusTypes
<1>6. reason' \in BOOLEAN /\ (place' # "judge" => ~reason') /\ place' \in {to, "judge"}
      /\ (place' = "judge" => reason')
  <2>1. ~reason /\ reason \in BOOLEAN
    BY <1>2 DEF StepsInv, SentaurusTypes
  <2>2. QED
    BY <1>1, <2>1
<1>7. place = "push" => Len(commands') <= 2
  BY <1>3, <1>5
<1>8. 3 * at - 1 = 2 /\ 2 + 3 * FlowSteps >= 3
  BY <1>3, FlowLength
<1>9. SentaurusTypes' /\ SentaurusTypeOK'
  BY <1>2, <1>3, <1>5, <1>6, <1>7, FlowLength DEF SentaurusTypes, SentaurusTypeOK
<1>10. CompletedRanAll' /\ NoOrphanJob'
  BY <1>2, <1>3, NotEnded
<1>11. StepsInv'
  BY <1>2, <1>3, <1>5, <1>6, <1>7, <1>8, FlowLength DEF StepsInv
<1>12. RanInv' /\ JobInv'
  BY <1>2, <1>3, <1>6 DEF RanInv, JobInv
<1>13. QED
  BY <1>9, <1>10, <1>11, <1>12

\* The step at work is over: the flow goes on when it really ended well and
\* has no job left, and stops otherwise.
LEMMA StepOver ==
  ASSUME SentaurusInv, UNCHANGED stale, place \in {"step", "pull"},
         commands' \in Seq(Command), Len(commands') <= 3 * at + 2,
         real' \in [1 .. FlowSteps -> Endings], \A s \in 1 .. at - 1 : real'[s] = real[s],
         \/ Advance /\ reason' = reason /\ (real'[at] = "ok" \/ (real'[at] = "lost" /\ at \in stale)) /\ job # "active"
         \/ StopFailed /\ at' = at,
         artifact' \in [remote : Codes, local : Codes],
         UNCHANGED <<runMode, patches, job, poll, cancel, trouble, ended>>
  PROVE  SentaurusInv'
<1> USE DEF SentaurusInv, SentaurusInvariant
<1>1. /\ at \in 1 .. FlowSteps /\ FlowSteps \in Nat /\ ended = {} /\ ~reason
      /\ runMode \in {"local", "ssh", "slurm"} /\ runMode # "planned"
      /\ reason \in BOOLEAN /\ Len(commands') \in Nat
  BY FlowLength DEF StepsInv, SentaurusTypeOK, SentaurusTypes
<1>2. CASE Advance /\ reason' = reason /\ (real'[at] = "ok" \/ (real'[at] = "lost" /\ at \in stale)) /\ job # "active"
  <2>1. \A s \in 1 .. at : Well(s)'
    BY <1>1, <1>2 DEF RanInv, Well
  <2>2. \/ at = FlowSteps /\ place' = "judge" /\ at' = at
        \/ /\ at < FlowSteps /\ at' = at + 1 /\ 3 * at' - 1 = 3 * at + 2
           /\ place' = IF runMode = "slurm" THEN "submit" ELSE "step"
    BY <1>1, <1>2 DEF Advance, NextStep
  <2>3. at' \in 1 .. FlowSteps /\ place' \in {"judge", "step", "submit"}
        /\ (place' = "judge" => at = FlowSteps) /\ (place' # "judge" => at' = at + 1)
        /\ (place' = "submit" => runMode = "slurm")
    BY <1>1, <2>2
  <2>4. place' # "judge" => Len(commands') <= 3 * at' - 1
    BY <1>1, <2>2
  <2>5. 3 * at + 2 <= 3 * FlowSteps + 2
    BY <1>1
  <2>6. SentaurusTypes' /\ SentaurusTypeOK'
    BY <1>1, <1>2, <2>3, <2>5 DEF SentaurusTypes, SentaurusTypeOK
  <2>7. CompletedRanAll' /\ NoOrphanJob'
    BY <1>1, NotEnded
  <2>8. StepsInv'
    BY <1>1, <1>2, <2>3, <2>4 DEF StepsInv
  <2>9. RanInv'
    <3>1. CASE place' = "judge"
      BY <1>1, <2>1, <2>3, <3>1 DEF RanInv
    <3>2. CASE place' # "judge"
      <4>1. at' - 1 = at
        BY <1>1, <2>3, <3>2
      <4>2. QED
        BY <1>1, <2>1, <2>3, <3>2, <4>1 DEF RanInv
    <3>3. QED
      BY <3>1, <3>2
  <2>10. JobInv'
    BY <1>2, <2>3 DEF JobInv
  <2>11. QED
    BY <2>6, <2>7, <2>8, <2>9, <2>10
<1>3. CASE StopFailed /\ at' = at
  <2>1. place' = "judge" /\ reason' = TRUE /\ at' = at
    BY <1>3 DEF StopFailed
  <2>2. 3 * at + 2 <= 3 * FlowSteps + 2
    BY <1>1
  <2>3. SentaurusTypes' /\ SentaurusTypeOK'
    BY <1>1, <2>1, <2>2 DEF SentaurusTypes, SentaurusTypeOK
  <2>4. CompletedRanAll' /\ NoOrphanJob'
    BY <1>1, NotEnded
  <2>5. StepsInv' /\ RanInv'
    BY <1>1, <2>1 DEF StepsInv, RanInv
  <2>6. JobInv'
    BY <2>1 DEF JobInv
  <2>7. QED
    BY <2>3, <2>4, <2>5, <2>6
<1>4. QED
  BY <1>2, <1>3

LEMMA LocalStepStep ==
  ASSUME SentaurusInv, LocalStep, UNCHANGED stale
  PROVE  SentaurusInv'
<1> USE DEF SentaurusInv, SentaurusInvariant
<1>1. PICK ok \in BOOLEAN :
        /\ Ends(at, ok) /\ Ran(at, ok)
        /\ IF ok THEN Advance /\ UNCHANGED reason ELSE StopFailed /\ UNCHANGED at
  BY DEF LocalStep
<1>2. /\ place = "step" /\ runMode = "local"
      /\ UNCHANGED <<runMode, patches, job, artifact, poll, cancel, trouble, ended>>
  BY DEF LocalStep
<1>3. /\ at \in 1 .. FlowSteps /\ Len(commands) <= 3 * at - 1 /\ job # "active"
      /\ commands \in Seq(Command) /\ real \in [1 .. FlowSteps -> Endings] /\ FlowSteps \in Nat
      /\ artifact \in [remote : Codes, local : Codes]
  BY <1>2, FlowLength DEF StepsInv, SentaurusTypes, JobInv
<1>4. [step |-> at, ok |-> ok] \in Command
  BY <1>3 DEF Command
<1>5. commands' \in Seq(Command) /\ Len(commands') = Len(commands) + 1 /\ Len(commands) \in Nat
  BY <1>1, <1>3, <1>4, AppendCommand DEF Ran
<1>6. /\ real' \in [1 .. FlowSteps -> Endings] /\ (ok => real'[at] = "ok")
      /\ \A s \in 1 .. at - 1 : real'[s] = real[s]
  BY <1>1, <1>3 DEF Ends, Endings, Codes
<1>7. Len(commands') <= 3 * at + 2
  BY <1>3, <1>5
<1>8. QED
  BY <1>1, <1>2, <1>3, <1>5, <1>6, <1>7, StepOver

LEMMA SshStepStep ==
  ASSUME SentaurusInv, SshStep, UNCHANGED stale
  PROVE  SentaurusInv'
<1> USE DEF SentaurusInv, SentaurusInvariant
<1>1. PICK ok \in BOOLEAN : Ends(at, ok) /\ Ran(at, ok)
  BY DEF SshStep
<1>2. /\ place = "step" /\ runMode = "ssh" /\ place' = "pull"
      /\ UNCHANGED <<runMode, patches, at, curve, job, artifact, poll, cancel, trouble, reason, ended>>
  BY DEF SshStep
<1>3. /\ at \in 1 .. FlowSteps /\ Len(commands) <= 3 * at - 1 /\ job # "active" /\ ended = {}
      /\ commands \in Seq(Command) /\ real \in [1 .. FlowSteps -> Endings] /\ FlowSteps \in Nat
      /\ job = "none"
  BY <1>2, FlowLength DEF StepsInv, SentaurusTypes, SentaurusTypeOK, JobInv
<1>4. [step |-> at, ok |-> ok] \in Command
  BY <1>3 DEF Command
<1>5. /\ commands' \in Seq(Command) /\ Len(commands') = Len(commands) + 1 /\ Len(commands) \in Nat
      /\ commands' # << >> /\ commands'[Len(commands')].ok = ok
  BY <1>1, <1>3, <1>4, AppendCommand DEF Ran
<1>6. /\ real' \in [1 .. FlowSteps -> Endings] /\ (ok => real'[at] = "ok")
      /\ \A s \in 1 .. at - 1 : real'[s] = real[s]
  BY <1>1, <1>3 DEF Ends, Endings, Codes
<1>7. Len(commands') <= 3 * at /\ 3 * at <= 2 + 3 * FlowSteps
  BY <1>3, <1>5
<1>8. SentaurusTypes' /\ SentaurusTypeOK'
  BY <1>2, <1>3, <1>5, <1>6, <1>7 DEF SentaurusTypes, SentaurusTypeOK
<1>9. CompletedRanAll' /\ NoOrphanJob'
  BY <1>2, <1>3, NotEnded
<1>10. StepsInv' /\ JobInv'
  BY <1>2, <1>3, <1>7 DEF StepsInv, JobInv
<1>11. RanInv'
  BY <1>2, <1>3, <1>5, <1>6 DEF RanInv, Well
<1>12. QED
  BY <1>8, <1>9, <1>10, <1>11

LEMMA SubmitStep ==
  ASSUME SentaurusInv, Submit, UNCHANGED stale
  PROVE  SentaurusInv'
<1> USE DEF SentaurusInv, SentaurusInvariant
<1>1. PICK ok \in BOOLEAN, named \in BOOLEAN :
        /\ Ran(0, ok)
        /\ job' \in IF ok /\ named THEN {"active"} ELSE IF ok THEN {"unknown"} ELSE {"unknown", "none"}
        /\ IF ok /\ named THEN place' = "poll" /\ UNCHANGED reason ELSE StopFailed
  BY DEF Submit
<1>2. /\ place = "submit" /\ artifact' = LeftFiles(at)
      /\ UNCHANGED <<runMode, patches, at, curve, real, poll, cancel, trouble, ended>>
  BY DEF Submit
<1>3. /\ at \in 1 .. FlowSteps /\ Len(commands) <= 3 * at - 1 /\ ended = {} /\ runMode = "slurm"
      /\ commands \in Seq(Command) /\ FlowSteps \in Nat /\ ~reason /\ reason \in BOOLEAN
      /\ \A s \in 1 .. at - 1 : Well(s)
  BY <1>2, FlowLength DEF StepsInv, RanInv, SentaurusTypes, SentaurusTypeOK
<1>4. [step |-> 0, ok |-> ok] \in Command
  BY FlowLength DEF Command
<1>5. commands' \in Seq(Command) /\ Len(commands') = Len(commands) + 1 /\ Len(commands) \in Nat
  BY <1>1, <1>3, <1>4, AppendCommand DEF Ran
<1>6. Len(commands') <= 3 * at /\ 3 * at <= 2 + 3 * FlowSteps
  BY <1>3, <1>5
<1>7. artifact' \in [remote : Codes, local : Codes] /\ (artifact'.remote = "ok" => at \in stale)
  BY <1>2 DEF LeftFiles, NoFiles, Codes
<1>8. \/ place' = "poll" /\ job' = "active" /\ reason' = reason
      \/ place' = "judge" /\ job' \in {"unknown", "none"} /\ reason' = TRUE
  BY <1>1 DEF StopFailed
<1>9. SentaurusTypes' /\ SentaurusTypeOK'
  <2>1. Len(commands') <= 2 + 3 * FlowSteps
    BY <1>3, <1>5, <1>6
  <2>2. SentaurusTypes'
    BY <1>2, <1>3, <1>5, <1>7, <1>8 DEF SentaurusTypes
  <2>3. SentaurusTypeOK'
    BY <1>2, <1>3, <1>8, <2>1 DEF SentaurusTypeOK
  <2>4. QED
    BY <2>2, <2>3
<1>10. CompletedRanAll' /\ NoOrphanJob'
  BY <1>2, <1>3, NotEnded
<1>11. StepsInv' /\ JobInv'
  BY <1>2, <1>3, <1>6, <1>8 DEF StepsInv, JobInv
<1>12. RanInv'
  BY <1>2, <1>3, <1>7, <1>8 DEF RanInv, Well
<1>13. QED
  BY <1>9, <1>10, <1>11, <1>12

\* The cluster ends a job, whatever the run is doing by then.
LEMMA JobEndsStep ==
  ASSUME SentaurusInv, JobEnds, UNCHANGED stale
  PROVE  SentaurusInv'
<1> USE DEF SentaurusInv, SentaurusInvariant
<1>1. PICK c \in {"lost", "ok", "error"} :
        /\ artifact' = IF c = "lost" THEN artifact ELSE [artifact EXCEPT !.remote = c]
        /\ real' = [real EXCEPT ![at] = c]
  BY DEF JobEnds
<1>2. /\ job \in {"active", "unknown"} /\ job' = "over"
      /\ UNCHANGED <<place, runMode, patches, at, commands, curve, poll, cancel, trouble, reason, ended>>
  BY DEF JobEnds
<1>3. /\ place \in {"poll", "pull", "judge", "done"} /\ at \in 1 .. FlowSteps /\ runMode = "slurm"
      /\ (place \in {"judge", "done"} => reason) /\ (place = "pull" => poll # "done")
      /\ (place = "poll" => job = "active") /\ FlowSteps \in Nat
      /\ real \in [1 .. FlowSteps -> Endings] /\ artifact \in [remote : Codes, local : Codes]
  BY <1>2, FlowLength DEF JobInv, StepsInv, SentaurusTypeOK, SentaurusTypes
<1>4. artifact' \in [remote : Codes, local : Codes] /\ (c # "lost" => artifact'.remote = c)
      /\ (c = "lost" => artifact' = artifact)
  BY <1>1, <1>3 DEF Codes
<1>5. /\ real' \in [1 .. FlowSteps -> Endings] /\ real'[at] = c
      /\ \A s \in 1 .. at - 1 : real'[s] = real[s]
  BY <1>1, <1>3 DEF Endings, Codes
<1>6. SentaurusTypes' /\ SentaurusTypeOK'
  BY <1>2, <1>3, <1>4, <1>5 DEF SentaurusTypes, SentaurusTypeOK
<1>7. NoOrphanJob'
  BY <1>2 DEF NoOrphanJob
<1>8. CompletedRanAll'
  BY <1>2, <1>3 DEF CompletedRanAll, RanInv, SentaurusTypeOK
<1>9. StepsInv' /\ JobInv'
  BY <1>2, <1>3 DEF StepsInv, JobInv
<1>10. RanInv'
  <2>1. place = "poll" /\ artifact'.remote = "ok" => Well(at)'
    BY <1>2, <1>3, <1>4, <1>5 DEF RanInv, Well
  <2>2. \A s \in 1 .. at - 1 : Well(s) => Well(s)'
    BY <1>5 DEF Well
  <2>3. QED
    BY <1>2, <1>3, <2>1, <2>2 DEF RanInv
<1>11. QED
  BY <1>6, <1>7, <1>8, <1>9, <1>10

\* The poll ends in one of four ways, three of which may leave the job behind.
LEMMA PollStep ==
  ASSUME SentaurusInv, Poll, UNCHANGED stale
  PROVE  SentaurusInv'
<1> USE DEF SentaurusInv, SentaurusInvariant
<1>1. /\ place = "poll" /\ place' = "pull"
      /\ UNCHANGED <<runMode, patches, at, commands, curve, artifact, cancel, reason, ended>>
  BY DEF Poll, PollCancelled, PollTimeout, PollLost, PollDone
<1>2. /\ at \in 1 .. FlowSteps /\ FlowSteps \in Nat /\ runMode = "slurm" /\ ended = {}
      /\ real \in [1 .. FlowSteps -> Endings] /\ job \in {"active", "over"}
  BY <1>1, FlowLength DEF StepsInv, SentaurusTypes, SentaurusTypeOK, JobInv
<1>3. /\ job' \in {"active", "over"}
      /\ job' = "active" => poll' # "done" /\ trouble' # {}
      /\ poll' = "done" => job = "over" /\ real' = real
      /\ \/ real' = real
         \/ real' = [real EXCEPT ![at] = "error"]
  BY <1>2 DEF Poll, PollCancelled, PollTimeout, PollLost, PollDone, Scancel
<1>4. real' \in [1 .. FlowSteps -> Endings] /\ \A s \in 1 .. at - 1 : real'[s] = real[s]
  BY <1>2, <1>3 DEF Endings, Codes
<1>5. SentaurusTypes' /\ SentaurusTypeOK'
  BY <1>1, <1>2, <1>3, <1>4 DEF SentaurusTypes, SentaurusTypeOK
<1>6. CompletedRanAll' /\ NoOrphanJob'
  BY <1>1, <1>2, NotEnded
<1>7. StepsInv' /\ JobInv'
  BY <1>1, <1>2, <1>3 DEF StepsInv, JobInv
<1>8. RanInv'
  <2>1. \A s \in 1 .. at - 1 : Well(s) => Well(s)'
    BY <1>4 DEF Well
  <2>2. poll' = "done" /\ artifact'.remote = "ok" => Well(at)'
    BY <1>1, <1>3 DEF RanInv, Well
  <2>3. QED
    BY <1>1, <1>2, <2>1, <2>2 DEF RanInv
<1>9. QED
  BY <1>5, <1>6, <1>7, <1>8

LEMMA PullSshStep ==
  ASSUME SentaurusInv, PullSsh, UNCHANGED stale
  PROVE  SentaurusInv'
<1> USE DEF SentaurusInv, SentaurusInvariant
<1>1. PICK ok \in BOOLEAN :
        /\ Ran(0, ok)
        /\ IF ok /\ commands[Len(commands)].ok THEN Advance /\ UNCHANGED reason ELSE StopFailed /\ UNCHANGED at
  BY DEF PullSsh
<1>2. /\ place = "pull" /\ runMode = "ssh"
      /\ UNCHANGED <<runMode, patches, real, job, artifact, poll, cancel, trouble, ended>>
  BY DEF PullSsh
<1>3. /\ at \in 1 .. FlowSteps /\ Len(commands) <= 3 * at /\ commands \in Seq(Command) /\ FlowSteps \in Nat
      /\ (commands[Len(commands)].ok => real[at] = "ok") /\ job # "active"
      /\ real \in [1 .. FlowSteps -> Endings] /\ artifact \in [remote : Codes, local : Codes]
  BY <1>2, FlowLength DEF StepsInv, RanInv, SentaurusTypes, SentaurusTypeOK
<1>4. [step |-> 0, ok |-> ok] \in Command
  BY FlowLength DEF Command
<1>5. commands' \in Seq(Command) /\ Len(commands') = Len(commands) + 1 /\ Len(commands) \in Nat
  BY <1>1, <1>3, <1>4, AppendCommand DEF Ran
<1>6. Len(commands') <= 3 * at + 2
  BY <1>1, <1>3, <1>5
<1>7. QED
  BY <1>1, <1>2, <1>3, <1>5, <1>6, StepOver

\* The return code a pull brings is that of the job of this step, which is over.
LEMMA PullSlurmStep ==
  ASSUME SentaurusInv, PullSlurm, UNCHANGED stale
  PROVE  SentaurusInv'
<1> USE DEF SentaurusInv, SentaurusInvariant
<1>1. PICK ok \in BOOLEAN, brought \in BOOLEAN :
        /\ artifact' = IF brought THEN [artifact EXCEPT !.local = artifact.remote] ELSE artifact
        /\ LET read == poll = "done" /\ read_slurm_step_result(brought)
           IN  /\ commands' = commands \o <<[step |-> 0, ok |-> ok], [step |-> at, ok |-> read]>>
               /\ IF ok /\ read THEN Advance /\ UNCHANGED reason ELSE StopFailed /\ UNCHANGED at
  BY DEF PullSlurm
<1> DEFINE read == poll = "done" /\ read_slurm_step_result(brought)
<1>2. /\ place = "pull" /\ runMode = "slurm"
      /\ UNCHANGED <<runMode, patches, real, job, poll, cancel, trouble, ended>>
  BY DEF PullSlurm
<1>3. /\ at \in 1 .. FlowSteps /\ Len(commands) <= 3 * at /\ commands \in Seq(Command) /\ FlowSteps \in Nat
      /\ real \in [1 .. FlowSteps -> Endings] /\ artifact \in [remote : Codes, local : Codes]
  BY <1>2, FlowLength DEF StepsInv, SentaurusTypes
<1>4. read \in BOOLEAN /\ (read => job # "active" /\ Well(at))
  BY <1>2 DEF read_slurm_step_result, RanInv, JobInv
<1>5. /\ commands' = commands \o <<[step |-> 0, ok |-> ok], [step |-> at, ok |-> read]>>
      /\ IF ok /\ read THEN Advance /\ UNCHANGED reason ELSE StopFailed /\ UNCHANGED at
  BY <1>1
<1> HIDE DEF read
<1>6. commands' \in Seq(Command) /\ Len(commands') = Len(commands) + 2 /\ Len(commands) \in Nat
  <2>1. [step |-> 0, ok |-> ok] \in Command /\ [step |-> at, ok |-> read] \in Command
    BY <1>3, <1>4 DEF Command
  <2>2. QED
    BY <1>3, <1>5, <2>1
<1>7. Len(commands') <= 3 * at + 2
  BY <1>1, <1>3, <1>6
<1>8. artifact' \in [remote : Codes, local : Codes]
  BY <1>1, <1>3
<1>9. QED
  BY <1>2, <1>3, <1>4, <1>5, <1>6, <1>7, <1>8, StepOver DEF Well

\* The state file tells of a run whose steps are over.
LEMMA JudgeRunStep ==
  ASSUME SentaurusInv, JudgeRun, UNCHANGED stale
  PROVE  SentaurusInv'
<1> USE DEF SentaurusInv, SentaurusInvariant
<1>1. /\ place = "judge" /\ place' = "done"
      /\ UNCHANGED <<runMode, patches, at, commands, curve, real, job, artifact, poll, cancel, trouble, reason>>
  BY DEF JudgeRun
<1>2. PICK s : /\ ended' = {s}
               /\ s.status = "completed" =>
                     ~reason /\ runMode # "planned" /\ patches # "required" /\ s.log # "error"
  <2>1. PICK log \in {"none", "warning", "error"} :
         LET failed == (\E i \in DOMAIN commands : ~commands[i].ok) \/ patches = "required" \/ log = "error"
             doubtful == patches = "optional" \/ log = "warning" \/ curve = "none"
             quality == IF runMode = "planned" THEN "suspicious"
                        ELSE IF failed THEN "failed" ELSE IF doubtful THEN "suspicious" ELSE "passed"
         IN  ended' = {[status |-> status_of_run(quality), quality |-> quality, log |-> log,
                         solver |-> curve # "none" \/ \E i \in DOMAIN commands : commands[i].step # 0]}
    BY DEF JudgeRun
  <2> DEFINE failed == (\E i \in DOMAIN commands : ~commands[i].ok) \/ patches = "required" \/ log = "error"
             doubtful == patches = "optional" \/ log = "warning" \/ curve = "none"
             quality == IF runMode = "planned" THEN "suspicious"
                        ELSE IF failed THEN "failed" ELSE IF doubtful THEN "suspicious" ELSE "passed"
             solver == curve # "none" \/ \E i \in DOMAIN commands : commands[i].step # 0
             state == [status |-> status_of_run(quality), quality |-> quality, log |-> log, solver |-> solver]
  <2>2. ended' = {state}
    BY <2>1
  <2>3. status_of_run(quality) = "completed" =>
          ~reason /\ runMode # "planned" /\ patches # "required" /\ log # "error"
    BY DEF status_of_run
  <2> HIDE DEF quality, solver
  <2>4. state.status = status_of_run(quality) /\ state.log = log
    OBVIOUS
  <2>5. QED
    BY <2>2, <2>3, <2>4
<1>3. SentaurusTypes' /\ SentaurusTypeOK'
  BY <1>1, <1>2 DEF SentaurusTypes, SentaurusTypeOK
<1>4. CompletedRanAll'
  BY <1>1, <1>2 DEF CompletedRanAll, RanInv, Well
<1>5. NoOrphanJob'
  BY <1>1 DEF NoOrphanJob, JobInv
<1>6. StepsInv' /\ JobInv'
  BY <1>1 DEF StepsInv, JobInv
<1>7. RanInv'
  BY <1>1, <1>2 DEF RanInv, Well
<1>8. QED
  BY <1>3, <1>4, <1>5, <1>6, <1>7

LEMMA SentaurusInductive == SentaurusInv /\ [SentaurusNext]_sentVars => SentaurusInv'
<1> SUFFICES ASSUME SentaurusInv, [SentaurusNext]_sentVars
             PROVE  SentaurusInv'
  OBVIOUS
<1>1. CASE RequestCancel \/ UNCHANGED sentVars
  <2> USE DEF SentaurusInv, SentaurusInvariant
  <2>1. /\ cancel' \in BOOLEAN
        /\ UNCHANGED <<place, runMode, patches, at, commands, curve, real, job, stale, artifact, poll, trouble,
                       reason, ended>>
    BY <1>1 DEF RequestCancel, SentaurusNext, sentVars, SentaurusTypes
  <2>2. SentaurusTypes' /\ SentaurusTypeOK'
    BY <2>1 DEF SentaurusTypes, SentaurusTypeOK
  <2>3. CompletedRanAll' /\ NoOrphanJob'
    BY <2>1 DEF CompletedRanAll, NoOrphanJob
  <2>4. StepsInv' /\ RanInv' /\ JobInv'
    BY <2>1 DEF StepsInv, RanInv, JobInv, Well
  <2>5. QED
    BY <2>2, <2>3, <2>4
<1>2. QED
  BY <1>1, StartFlowStep, TransferStep, LocalStepStep, SshStepStep, SubmitStep, JobEndsStep, PollStep,
     PullSshStep, PullSlurmStep, JudgeRunStep
     DEF SentaurusNext, SentaurusWork, Pull

\* A completed Sentaurus run ran every step to a good end, but for one whose job
\* was lost and left the return code an earlier run had brought; and a job it has
\* the id of outlives it only after squeue or scancel failed.
THEOREM SentaurusReportsTruly == SentaurusSpec => []SentaurusInvariant
<1>1. SentaurusInv => SentaurusInvariant
  BY DEF SentaurusInv
<1>2. QED
  BY <1>1, SentaurusInitially, SentaurusInductive, PTL DEF SentaurusSpec

-----------------------------------------------------------------------------
(***************************************************************************)
(* Selections: what the condition of a list comprehension keeps, and least *)
(* numbers, which the searches and the studies below take.                 *)
(***************************************************************************)
\* The positions before a later one are more.
LEMMA RankFacts ==
  ASSUME NEW P \in SUBSET Nat, IsFiniteSet(P)
  PROVE  /\ Cardinality(P) \in Nat
         /\ \A n \in P : Rank(P, n) \in 1 .. Cardinality(P)
         /\ \A m, n \in P : m < n => Rank(P, m) < Rank(P, n)
<1> DEFINE upto(n) == {m \in P : m <= n}
<1>1. Cardinality(P) \in Nat
  BY FS_CardinalityType
<1>2. ASSUME NEW n \in P
      PROVE  IsFiniteSet(upto(n)) /\ Cardinality(upto(n)) \in 1 .. Cardinality(P)
  <2>1. upto(n) \subseteq P /\ n \in upto(n)
    OBVIOUS
  <2>2. IsFiniteSet(upto(n)) /\ Cardinality(upto(n)) <= Cardinality(P)
    BY <2>1, FS_Subset
  <2>3. Cardinality(upto(n)) \in Nat /\ Cardinality(upto(n)) # 0
    BY <2>1, <2>2, FS_CardinalityType, FS_EmptySet
  <2>4. QED
    BY <1>1, <2>2, <2>3
<1>3. ASSUME NEW m \in P, NEW n \in P, m < n
      PROVE  Cardinality(upto(m)) < Cardinality(upto(n))
  <2>0. m \in Nat /\ n \in Nat /\ \A k \in P : k \in Nat
    OBVIOUS
  <2>1. upto(m) \subseteq upto(n) /\ n \in upto(n) /\ n \notin upto(m)
    <3>1. \A k \in P : k <= m => k <= n
      BY <1>3, <2>0
    <3>2. n <= n /\ ~(n <= m)
      BY <1>3, <2>0
    <3>3. QED
      BY <3>1, <3>2
  <2>2. /\ Cardinality(upto(m)) <= Cardinality(upto(n))
        /\ Cardinality(upto(n)) = Cardinality(upto(m)) => upto(n) = upto(m)
    BY <1>2, <2>1, FS_Subset
  <2>3. Cardinality(upto(m)) # Cardinality(upto(n))
    BY <2>1, <2>2
  <2>4. QED
    BY <1>1, <1>2, <2>2, <2>3
<1>4. QED
  BY <1>1, <1>2, <1>3 DEF Rank

\* Every rank is that of one of the positions.
LEMMA NthFacts ==
  ASSUME NEW P \in SUBSET Nat, IsFiniteSet(P)
  PROVE  /\ \A i \in 1 .. Cardinality(P) : Nth(P, i) \in P /\ Rank(P, Nth(P, i)) = i
         /\ \A n \in P : Nth(P, Rank(P, n)) = n
<1> DEFINE r == [n \in P |-> Rank(P, n)]
           D == 1 .. Cardinality(P)
<1>1. /\ Cardinality(P) \in Nat
      /\ \A n \in P : Rank(P, n) \in D
      /\ \A m, n \in P : m < n => Rank(P, m) < Rank(P, n)
  BY RankFacts
<1>2. \A m, n \in P : Rank(P, m) = Rank(P, n) => m = n
  <2> SUFFICES ASSUME NEW m \in P, NEW n \in P, Rank(P, m) = Rank(P, n), m # n
               PROVE  FALSE
    OBVIOUS
  <2>1. m \in Nat /\ n \in Nat
    OBVIOUS
  <2>2. m < n \/ n < m
    BY <2>1
  <2>3. Rank(P, m) \in Nat /\ Rank(P, n) \in Nat
    BY <1>1
  <2>4. QED
    BY <1>1, <2>2, <2>3
<1>3. r \in Injection(P, D)
  BY <1>1, <1>2 DEF Injection, IsInjective
<1>4. IsFiniteSet(D) /\ Cardinality(D) = Cardinality(P)
  <2>1. IsFiniteSet(1 .. Cardinality(P)) /\ Cardinality(1 .. Cardinality(P)) = IF 1 > Cardinality(P) THEN 0 ELSE Cardinality(P) - 1 + 1
    BY <1>1, FS_Interval
  <2>2. QED
    BY <1>1, <2>1
<1>5. r \in Surjection(P, D)
  <2> HIDE DEF r, D
  <2>1. Cardinality(P) = Cardinality(D) <=> r \in Surjection(P, D)
    BY <1>3, <1>4, FS_Injection
  <2>2. QED
    BY <1>4, <2>1
<1>6. \A i \in D : \E n \in P : Rank(P, n) = i
  BY <1>5 DEF Surjection
<1>7. \A i \in D : Nth(P, i) \in P /\ Rank(P, Nth(P, i)) = i
  BY <1>6 DEF Nth
<1>8. QED
  BY <1>1, <1>2, <1>7

\* What is kept is in the sequence, and everything at the positions is kept.
LEMMA SelectedFacts ==
  ASSUME NEW S, NEW s \in Seq(S), NEW P \in SUBSET (DOMAIN s)
  PROVE  LET kept == Selected(s, P)
         IN  /\ kept \in Seq(S) /\ Len(kept) \in Nat /\ Len(kept) <= Len(s) /\ DOMAIN kept = 1 .. Len(kept)
             /\ \A i \in DOMAIN kept : Nth(P, i) \in P /\ kept[i] = s[Nth(P, i)]
             /\ \A i, j \in DOMAIN kept : Nth(P, i) = Nth(P, j) => i = j
             /\ \A i, j \in DOMAIN kept : i < j => Nth(P, i) < Nth(P, j)
             /\ \A n \in P : \E i \in DOMAIN kept : kept[i] = s[n] /\ Nth(P, i) = n
             /\ IsFiniteSet(P) /\ Len(kept) = Cardinality(P)
<1> DEFINE kept == Selected(s, P)
<1>1. P \in SUBSET Nat /\ Len(s) \in Nat /\ DOMAIN s = 1 .. Len(s)
  OBVIOUS
<1>2. IsFiniteSet(1 .. Len(s)) /\ Cardinality(1 .. Len(s)) = Len(s)
  <2>1. IsFiniteSet(1 .. Len(s)) /\ Cardinality(1 .. Len(s)) = IF 1 > Len(s) THEN 0 ELSE Len(s) - 1 + 1
    BY <1>1, FS_Interval
  <2>2. QED
    BY <1>1, <2>1
<1>3. IsFiniteSet(P) /\ Cardinality(P) \in Nat /\ Cardinality(P) <= Len(s)
  BY <1>1, <1>2, FS_Subset, FS_CardinalityType
<1>4. /\ \A i \in 1 .. Cardinality(P) : Nth(P, i) \in P /\ Rank(P, Nth(P, i)) = i
      /\ \A n \in P : Nth(P, Rank(P, n)) = n
      /\ \A n \in P : Rank(P, n) \in 1 .. Cardinality(P)
      /\ \A m, n \in P : m < n => Rank(P, m) < Rank(P, n)
  BY <1>1, <1>3, RankFacts, NthFacts
<1>5. \A i \in 1 .. Cardinality(P) : s[Nth(P, i)] \in S
  BY <1>1, <1>4
<1>6. /\ kept \in Seq(S) /\ Len(kept) = Cardinality(P) /\ DOMAIN kept = 1 .. Cardinality(P)
      /\ \A i \in 1 .. Cardinality(P) : kept[i] = s[Nth(P, i)]
  BY <1>3, <1>5 DEF Selected
<1> HIDE DEF kept
<1>7. \A i, j \in DOMAIN kept : Nth(P, i) = Nth(P, j) => i = j
  BY <1>4, <1>6
<1>8. ASSUME NEW i \in DOMAIN kept, NEW j \in DOMAIN kept, i < j
      PROVE  Nth(P, i) < Nth(P, j)
  <2>1. Nth(P, i) \in Nat /\ Nth(P, j) \in Nat /\ i \in Nat /\ j \in Nat
    BY <1>1, <1>4, <1>6
  <2>2. Nth(P, i) # Nth(P, j) /\ ~(Nth(P, j) < Nth(P, i))
    BY <1>4, <1>6, <1>8, <2>1
  <2>3. QED
    BY <2>1, <2>2
<1>9. \A n \in P : \E i \in DOMAIN kept : kept[i] = s[n] /\ Nth(P, i) = n
  BY <1>4, <1>6
<1>10. QED
  BY <1>3, <1>4, <1>6, <1>7, <1>8, <1>9 DEF kept

LEMMA Below ==
  ASSUME NEW below, IsWellFoundedOn(below, Nat),
         \A i, j \in Nat : j < i => <<j, i>> \in below,
         NEW T \in SUBSET Nat, T # {}
  PROVE  \E i \in T : \A j \in T : i <= j
<1>1. PICK i \in T : \A j \in T : ~(<<j, i>> \in below)
  BY WFMin
<1>2. \A j \in T : i \in Nat /\ j \in Nat /\ ~(j < i)
  BY <1>1, Zenon
<1>3. QED
  BY <1>2

\* A set of natural numbers has a least one.
LEMMA LeastNumber ==
  ASSUME NEW T \in SUBSET Nat, T # {}
  PROVE  \E i \in T : \A j \in T : i <= j
<1>1. \A i, j \in Nat : j < i => <<j, i>> \in OpToRel(<, Nat)
  BY DEF OpToRel
<1>2. QED
  BY <1>1, NatLessThanWellFounded, Below, Zenon

-----------------------------------------------------------------------------
(***************************************************************************)
(* Searches.                                                               *)
(***************************************************************************)
\* The positions of the cases that were tried; no point is at two of them.
Tried(obs) == {n \in DOMAIN obs : obs[n].status # "planned"}
TriedOnce(obs) == \A n, k \in Tried(obs) : obs[n].at = obs[k].at => n = k

NamesBest(state) ==
    /\ state.best # 0 => state.best \in CompletedAt(state.seen)
    /\ \A n \in CompletedAt(state.seen) :
         state.best # 0 /\ state.seen[state.best].objective <= state.seen[n].objective

\* What the file says, which a call at work has in memory.
SearchFileInv ==
    /\ omem = ofile /\ TriedOnce(ofile.seen) /\ NamesBest(ofile)
    /\ ofile.status = "absent" => ofile.seen = << >> /\ opc = "idle"

\* The points of a round are new, distinct and within the budget, and its cases
\* are those of its points so far.
RoundInv ==
    /\ sweep \in [points : Seq(Points), cases : Seq(Observation)]
    /\ opc \in {"casing", "running"} =>
        /\ InBudget /\ Len(ofile.seen) + Len(sweep.points) <= MaxCases
        /\ \A i, j \in DOMAIN sweep.points : sweep.points[i] = sweep.points[j] => i = j
        /\ \A i \in DOMAIN sweep.points : \A n \in Tried(ofile.seen) : ofile.seen[n].at # sweep.points[i]
        /\ Len(sweep.cases) <= Len(sweep.points)
        /\ \A i \in DOMAIN sweep.cases : sweep.cases[i].at = sweep.points[i]
    /\ opc = "running" => Len(sweep.cases) < Len(sweep.points)

SearchInv == OptimizerTypeOK /\ WithinBudgets /\ SearchFileInv /\ RoundInv

\* kept has every tried case of obs, each once.
Keeps(kept, obs) ==
    \E source \in [DOMAIN kept -> DOMAIN obs] :
       /\ \A i \in DOMAIN kept : kept[i] = obs[source[i]]
       /\ \A i, j \in DOMAIN kept : source[i] = source[j] => i = j
       /\ \A n \in Tried(obs) : \E i \in DOMAIN kept : source[i] = n

-----------------------------------------------------------------------------
LEMMA SearchConstants ==
  /\ Initial \in Seq(Points) /\ Len(Initial) >= 2 /\ IsFiniteSet(Points)
  /\ \A i, j \in DOMAIN Initial : Initial[i] = Initial[j] => i = j
  /\ MaxNew \in Nat \ {0} /\ MaxRounds \in Nat \ {0} /\ MaxCases \in Nat \ {0}
  /\ MaxSearches \in Nat /\ MaxSearchCrashes \in Nat
  /\ Modes \subseteq BOOLEAN /\ Searches \subseteq {"adaptive", "multidim"} /\ Overwritten \subseteq Searches
  BY OptimizerAssumption

LEMMA ExecutedKeeps ==
  ASSUME NEW q \in Seq(Observation)
  PROVE  LET kept == Executed(q)
         IN  kept \in Seq(Observation) /\ Len(kept) <= Len(q) /\ Keeps(kept, q)
<1> DEFINE P == {n \in DOMAIN q : q[n].status # "planned"}
<1> DEFINE kept == Selected(q, P)
           source == [i \in DOMAIN kept |-> Nth(P, i)]
<1>1. P \in SUBSET (DOMAIN q) /\ P = Tried(q) /\ Executed(q) = kept
  BY DEF Tried, Executed
<1> HIDE DEF P
<1>2. /\ kept \in Seq(Observation) /\ Len(kept) \in Nat /\ Len(kept) <= Len(q)
      /\ \A i \in DOMAIN kept : Nth(P, i) \in P /\ kept[i] = q[Nth(P, i)]
      /\ \A i, j \in DOMAIN kept : Nth(P, i) = Nth(P, j) => i = j
      /\ \A n \in P : \E i \in DOMAIN kept : kept[i] = q[n] /\ Nth(P, i) = n
  BY <1>1, SelectedFacts
<1> HIDE DEF kept
<1>3. /\ source \in [DOMAIN kept -> DOMAIN q]
      /\ \A i \in DOMAIN kept : kept[i] = q[source[i]]
      /\ \A i, j \in DOMAIN kept : source[i] = source[j] => i = j
      /\ \A n \in Tried(q) : \E i \in DOMAIN kept : source[i] = n
  BY <1>1, <1>2
<1> HIDE DEF source
<1>4. Keeps(kept, q)
  BY <1>3 DEF Keeps
<1>5. QED
  BY <1>1, <1>2, <1>4

LEMMA KeepsItself ==
  ASSUME NEW q \in Seq(Observation)
  PROVE  Keeps(q, q)
<1> DEFINE source == [i \in DOMAIN q |-> i]
<1>1. /\ source \in [DOMAIN q -> DOMAIN q]
      /\ \A i \in DOMAIN q : q[i] = q[source[i]]
      /\ \A i, j \in DOMAIN q : source[i] = source[j] => i = j
      /\ \A n \in Tried(q) : \E i \in DOMAIN q : source[i] = n
  BY DEF Tried
<1> HIDE DEF source
<1>2. QED
  BY <1>1 DEF Keeps

\* What is kept is still tried once.
LEMMA KeepsOnce ==
  ASSUME NEW q, NEW kept, Keeps(kept, q), TriedOnce(q)
  PROVE  /\ TriedOnce(kept)
         /\ \A n \in CompletedAt(q) : \E i \in DOMAIN kept : kept[i] = q[n]
         /\ \A i \in CompletedAt(kept) : \E n \in CompletedAt(q) : kept[i] = q[n]
<1>1. PICK source \in [DOMAIN kept -> DOMAIN q] :
       /\ \A i \in DOMAIN kept : kept[i] = q[source[i]]
       /\ \A i, j \in DOMAIN kept : source[i] = source[j] => i = j
       /\ \A n \in Tried(q) : \E i \in DOMAIN kept : source[i] = n
  BY DEF Keeps
<1>2. \A i \in Tried(kept) : i \in DOMAIN kept /\ source[i] \in Tried(q) /\ kept[i].at = q[source[i]].at
  BY <1>1 DEF Tried
<1>3. TriedOnce(kept)
  BY <1>1, <1>2 DEF TriedOnce
<1>4. \A n \in CompletedAt(q) : n \in Tried(q)
  BY DEF CompletedAt, Tried
<1>5. \A i \in CompletedAt(kept) : i \in DOMAIN kept /\ source[i] \in CompletedAt(q) /\ kept[i] = q[source[i]]
  BY <1>1 DEF CompletedAt
<1>6. QED
  BY <1>1, <1>3, <1>4, <1>5

\* The statement of the run: a point is not among what was executed twice.
LEMMA OnceExecuted ==
  ASSUME NEW q \in Seq(Observation), TriedOnce(q)
  PROVE  \A n, k \in DOMAIN Executed(q) : Executed(q)[n].at = Executed(q)[k].at => n = k
<1> DEFINE P == {n \in DOMAIN q : q[n].status # "planned"}
           kept == Selected(q, P)
<1>1. P \in SUBSET (DOMAIN q) /\ P = Tried(q) /\ Executed(q) = kept
  BY DEF Tried, Executed
<1>2. /\ \A i \in DOMAIN kept : Nth(P, i) \in P /\ kept[i] = q[Nth(P, i)]
      /\ \A i, j \in DOMAIN kept : Nth(P, i) = Nth(P, j) => i = j
  BY <1>1, SelectedFacts
<1> HIDE DEF kept, P
<1>3. QED
  BY <1>1, <1>2 DEF TriedOnce

-----------------------------------------------------------------------------
LEMMA BestFacts ==
  ASSUME NEW q \in Seq(Observation)
  PROVE  /\ Best(q) \in Nat
         /\ Best(q) # 0 => Best(q) \in CompletedAt(q)
         /\ \A n \in CompletedAt(q) : Best(q) # 0 /\ q[Best(q)].objective <= q[n].objective
<1>0. \A n \in CompletedAt(q) : n \in Nat /\ n # 0 /\ q[n].objective \in Nat
  <2>1. \A n \in DOMAIN q : n \in Nat /\ n # 0 /\ q[n] \in Observation
    OBVIOUS
  <2>2. \A c \in Observation : c.objective \in Nat
    BY DEF Observation, Objectives
  <2>3. QED
    BY <2>1, <2>2 DEF CompletedAt
<1>1. CASE CompletedAt(q) = {}
  BY <1>1 DEF Best
<1>2. CASE CompletedAt(q) # {}
  <2> DEFINE values == {q[n].objective : n \in CompletedAt(q)}
  <2>1. values \in SUBSET Nat /\ values # {}
    BY <1>0, <1>2
  <2>2. PICK v \in values : \A w \in values : v <= w
    BY <2>1, LeastNumber
  <2> DEFINE firsts == {n \in CompletedAt(q) : q[n].objective = v}
  <2>3. firsts \in SUBSET Nat /\ firsts # {}
    BY <1>0, <2>2
  <2>4. PICK n \in firsts : \A m \in firsts : n <= m
    BY <2>3, LeastNumber
  <2>5. ASSUME NEW m \in CompletedAt(q)
        PROVE  q[n].objective < q[m].objective \/ (q[n].objective = q[m].objective /\ n <= m)
    <3>1. v <= q[m].objective /\ q[n].objective = v /\ v \in Nat /\ q[m].objective \in Nat
      BY <1>0, <2>1, <2>2, <2>4
    <3>2. CASE q[m].objective = v
      BY <2>4, <3>1, <3>2
    <3>3. CASE q[m].objective # v
      BY <3>1, <3>3
    <3>4. QED
      BY <3>2, <3>3
  <2>6. n \in CompletedAt(q)
    BY <2>4
  <2>7. /\ Best(q) \in CompletedAt(q)
        /\ \A m \in CompletedAt(q) :
             q[Best(q)].objective < q[m].objective \/ (q[Best(q)].objective = q[m].objective /\ Best(q) <= m)
    BY <1>2, <2>5, <2>6 DEF Best
  <2>8. QED
    BY <1>0, <2>7
<1>3. QED
  BY <1>1, <1>2

-----------------------------------------------------------------------------
\* What a resuming call starts from: an executing one drops what was planned.
LEMMA LoadedKeeps ==
  ASSUME ofile \in SearchState, NEW exec \in BOOLEAN
  PROVE  LET state == Loaded(exec)
         IN  /\ state \in SearchState /\ state.status \in {"running", "planned"} /\ state.best = ofile.best
             /\ Len(state.rounds) <= Len(ofile.rounds) /\ Len(state.seen) <= Len(ofile.seen)
             /\ Keeps(state.seen, ofile.seen)
<1> DEFINE old == [ofile EXCEPT !.status = IF exec THEN "running" ELSE "planned"]
           P == {n \in DOMAIN ofile.rounds : ofile.rounds[n] # "planned"}
           R == {"planned", "completed", "failed"}
<1>1. /\ ofile.rounds \in Seq(R) /\ ofile.seen \in Seq(Observation) /\ ofile.best \in Nat
      /\ old.rounds = ofile.rounds /\ old.seen = ofile.seen /\ old.best = ofile.best
      /\ old.status \in {"running", "planned"} /\ old \in SearchState
      /\ Len(ofile.rounds) \in Nat /\ Len(ofile.seen) \in Nat
  BY DEF SearchState
<1>2. CASE ~exec
  <2>1. Loaded(exec) = old
    BY <1>2 DEF Loaded
  <2>2. Keeps(ofile.seen, ofile.seen)
    BY <1>1, KeepsItself
  <2>3. QED
    BY <1>1, <2>1, <2>2
<1>3. CASE exec
  <2> DEFINE rounds == Selected(ofile.rounds, P)
             kept == Executed(ofile.seen)
             new == [old EXCEPT !.rounds = rounds, !.seen = kept]
  <2>1. Loaded(exec) = new
    BY <1>1, <1>3 DEF Loaded
  <2>2. P \in SUBSET (DOMAIN ofile.rounds)
    OBVIOUS
  <2>3. rounds \in Seq(R) /\ Len(rounds) <= Len(ofile.rounds)
    <3> HIDE DEF P, R
    <3>1. QED
      BY <1>1, <2>2, SelectedFacts
  <2>4. kept \in Seq(Observation) /\ Len(kept) <= Len(ofile.seen) /\ Keeps(kept, ofile.seen)
    BY <1>1, ExecutedKeeps
  <2> HIDE DEF rounds, kept, old
  <2>5. /\ new \in SearchState /\ new.status = old.status /\ new.best = ofile.best
        /\ new.rounds = rounds /\ new.seen = kept
    BY <1>1, <2>3, <2>4 DEF SearchState
  <2>6. QED
    BY <1>1, <2>1, <2>3, <2>4, <2>5
<1>4. QED
  BY <1>2, <1>3

\* best_observation is of a case that is kept, and no other one is better.
LEMMA RebasedFacts ==
  ASSUME ofile \in SearchState, TriedOnce(ofile.seen), NamesBest(ofile), NEW exec \in BOOLEAN
  PROVE  LET new == Rebased(Loaded(exec), ofile)
         IN  /\ new \in SearchState /\ new.status \in {"running", "planned"}
             /\ Len(new.rounds) <= Len(ofile.rounds) /\ Len(new.seen) <= Len(ofile.seen)
             /\ TriedOnce(new.seen) /\ NamesBest(new)
             /\ \A n \in CompletedAt(ofile.seen) : \E k \in DOMAIN new.seen : new.seen[k] = ofile.seen[n]
<1> DEFINE state == Loaded(exec)
           new == Rebased(state, ofile)
           old == ofile.seen
           b == IF ofile.best = 0 \/ state.seen = << >> THEN 0
                ELSE CHOOSE n \in DOMAIN state.seen : state.seen[n] = ofile.seen[ofile.best]
<1>1. /\ state \in SearchState /\ state.status \in {"running", "planned"} /\ state.best = ofile.best
      /\ Len(state.rounds) <= Len(ofile.rounds) /\ Len(state.seen) <= Len(ofile.seen)
      /\ Keeps(state.seen, old)
  BY LoadedKeeps
<1>2. new = [state EXCEPT !.best = b]
  BY DEF Rebased
<1> HIDE DEF state, new
<1>3. /\ TriedOnce(state.seen)
      /\ \A n \in CompletedAt(old) : \E i \in DOMAIN state.seen : state.seen[i] = old[n]
      /\ \A i \in CompletedAt(state.seen) : \E n \in CompletedAt(old) : state.seen[i] = old[n]
  BY <1>1, KeepsOnce
<1>4. /\ state.seen \in Seq(Observation) /\ ofile.best \in Nat
      /\ ofile.best # 0 => ofile.best \in CompletedAt(old)
      /\ \A n \in CompletedAt(old) : ofile.best # 0 /\ old[ofile.best].objective <= old[n].objective
  BY <1>1 DEF SearchState, NamesBest
<1>5. ofile.best # 0 => \E i \in DOMAIN state.seen : state.seen[i] = old[ofile.best]
  BY <1>3, <1>4
<1>6. (state.seen = << >>) => DOMAIN state.seen = {}
  OBVIOUS
<1>7. /\ b # 0 => ofile.best # 0 /\ b \in DOMAIN state.seen /\ state.seen[b] = old[ofile.best]
      /\ ofile.best # 0 => b \in DOMAIN state.seen
  BY <1>5, <1>6
<1>8. DOMAIN state.seen \subseteq Nat \ {0}
  BY <1>4
<1>9. b \in Nat
  BY <1>7, <1>8
<1> HIDE DEF b
<1>10. /\ new \in SearchState /\ new.status = state.status /\ new.best = b
       /\ new.rounds = state.rounds /\ new.seen = state.seen
  BY <1>1, <1>2, <1>9 DEF SearchState
<1>11. NamesBest(new)
  <2>1. b # 0 => b \in CompletedAt(state.seen)
    BY <1>4, <1>7 DEF CompletedAt
  <2>2. ASSUME NEW i \in CompletedAt(state.seen)
        PROVE  b # 0 /\ state.seen[b].objective <= state.seen[i].objective
    <3>1. PICK n \in CompletedAt(old) : state.seen[i] = old[n]
      BY <1>3, <2>2
    <3>2. ofile.best # 0 /\ old[ofile.best].objective <= old[n].objective
      BY <1>4, <3>1
    <3>3. b # 0
      BY <1>7, <1>8, <3>2
    <3>4. QED
      BY <1>7, <3>1, <3>2, <3>3
  <2>3. QED
    BY <1>10, <2>1, <2>2 DEF NamesBest
<1>12. QED
  BY <1>1, <1>3, <1>10, <1>11 DEF new, state

\* The points of a round are new, distinct and no more than the budget leaves.
LEMMA OrdersFacts ==
  ASSUME NEW S, NEW n \in Nat, NEW s \in Orders(S, n)
  PROVE  s \in Seq(S) /\ Len(s) <= n /\ \A i, j \in DOMAIN s : s[i] = s[j] => i = j
<1>1. PICK k \in 1 .. n : s \in [1 .. k -> S]
  BY DEF Orders
<1>2. s \in Seq(S) /\ Len(s) = k
  BY <1>1
<1>3. QED
  BY <1>1, <1>2 DEF Orders

LEMMA ProposalsFacts ==
  ASSUME omem \in SearchState, Len(omem.seen) < MaxCases, NEW new \in Proposals
  PROVE  /\ new \in Seq(Points) /\ Len(omem.seen) + Len(new) <= MaxCases
         /\ \A i, j \in DOMAIN new : new[i] = new[j] => i = j
         /\ \A i \in DOMAIN new : \A n \in Tried(omem.seen) : omem.seen[n].at # new[i]
<1> DEFINE q == omem.seen
           left == MaxCases - Len(q)
           used == {Executed(q)[n].at : n \in DOMAIN Executed(q)}
<1>1. q \in Seq(Observation) /\ Len(q) \in Nat /\ left \in Nat \ {0}
      /\ left <= MaxCases - Len(q) /\ MaxNew \in Nat /\ MaxCases \in Nat
  BY SearchConstants DEF SearchState
<1>2. CASE q = << >>
  <2> DEFINE k == Min2(left, Len(Initial))
  <2>1. new = SubSeq(Initial, 1, k) /\ k \in Nat /\ k <= left /\ k <= Len(Initial) /\ Len(q) = 0 /\ Tried(q) = {}
    BY <1>1, <1>2, SearchConstants DEF Proposals, Min2, Tried
  <2> HIDE DEF k
  <2>2. new \in Seq(Points) /\ Len(new) = k /\ DOMAIN new = 1 .. k /\ \A i \in 1 .. k : i \in DOMAIN Initial /\ new[i] = Initial[i]
    BY <2>1, SearchConstants
  <2>3. QED
    BY <1>1, <2>1, <2>2, SearchConstants
<1>3. CASE q # << >>
  <2> DEFINE n == Min2(left, MaxNew)
  <2>1. new = << >> \/ new \in Orders(Points \ used, n)
    BY <1>3 DEF Proposals
  <2>2. n \in Nat /\ n <= left
    <3> HIDE DEF left, used
    <3>1. QED
      BY <1>1 DEF Min2
  <2>3. CASE new = << >>
    <3>1. new \in Seq(Points) /\ Len(new) = 0 /\ DOMAIN new = {}
      BY <2>3
    <3>2. QED
      BY <1>1, <3>1
  <2>4. CASE new \in Orders(Points \ used, n)
    <3> HIDE DEF n
    <3>1. new \in Seq(Points \ used) /\ Len(new) <= n /\ \A i, j \in DOMAIN new : new[i] = new[j] => i = j
      <4> HIDE DEF used
      <4>1. QED
        BY <2>2, <2>4, OrdersFacts
    <3>2. \A m \in Tried(q) : q[m].at \in used
      <4>1. PICK f \in [DOMAIN Executed(q) -> DOMAIN q] :
              /\ \A i \in DOMAIN Executed(q) : Executed(q)[i] = q[f[i]]
              /\ \A m \in Tried(q) : \E i \in DOMAIN Executed(q) : f[i] = m
        <5> HIDE DEF q
        <5>1. Keeps(Executed(q), q)
          BY <1>1, ExecutedKeeps
        <5>2. QED
          BY <5>1 DEF Keeps
      <4>2. QED
        BY <4>1
    <3>3. \A i \in DOMAIN new : new[i] \in Points /\ new[i] \notin used
      <4> HIDE DEF used
      <4>1. QED
        BY <3>1
    <3>4. new \in Seq(Points) /\ Len(new) \in Nat
      <4> HIDE DEF used
      <4>1. QED
        BY <3>1
    <3>5. Len(q) + Len(new) <= MaxCases
      <4> HIDE DEF used, q
      <4>1. QED
        BY <1>1, <2>2, <3>1, <3>4
    <3>6. QED
      BY <3>1, <3>2, <3>3, <3>4, <3>5
  <2>5. QED
    BY <2>1, <2>3, <2>4
<1>4. QED
  BY <1>2, <1>3

-----------------------------------------------------------------------------
LEMMA SearchInitially == OptimizerInit => SearchInv
<1> SUFFICES ASSUME OptimizerInit PROVE SearchInv
  OBVIOUS
<1>1. NoSearch \in SearchState /\ NoSearch.seen = << >> /\ NoSearch.rounds = << >> /\ NoSearch.best = 0
  BY DEF NoSearch, SearchState
<1>2. OptimizerTypeOK
  <2>1. sweep.points = << >> /\ sweep.cases = << >> /\ 0 \in 0 .. MaxSearches /\ 0 \in 0 .. MaxSearchCrashes
    BY SearchConstants DEF OptimizerInit, NoSweep
  <2>2. << >> \in Seq(Points) /\ << >> \in Seq(Observation)
    OBVIOUS
  <2>3. QED
    BY <1>1, <2>1, <2>2 DEF OptimizerTypeOK, OptimizerInit
<1>3. WithinBudgets
  BY <1>1, SearchConstants DEF OptimizerInit, WithinBudgets
<1>4. SearchFileInv
  BY <1>1 DEF OptimizerInit, SearchFileInv, TriedOnce, Tried, NamesBest, CompletedAt
<1>5. RoundInv
  BY DEF OptimizerInit, RoundInv, NoSweep
<1>6. QED
  BY <1>2, <1>3, <1>4, <1>5 DEF SearchInv

\* What a call that starts over begins with.
LEMMA NewSearch ==
  ASSUME NEW exec \in BOOLEAN
  PROVE  LET new == [NoSearch EXCEPT !.status = IF exec THEN "running" ELSE "planned"]
         IN  /\ new \in SearchState /\ new.status \in {"running", "planned"}
             /\ Len(new.rounds) <= MaxRounds /\ Len(new.seen) <= MaxCases
             /\ TriedOnce(new.seen) /\ NamesBest(new)
<1> DEFINE s == IF exec THEN "running" ELSE "planned"
           new == [NoSearch EXCEPT !.status = s]
<1>0. s \in {"running", "planned"}
  OBVIOUS
<1> HIDE DEF s
<1>1. /\ new \in SearchState /\ new.status \in {"running", "planned"}
      /\ new.seen = << >> /\ new.rounds = << >> /\ new.best = 0
  <2>1. NoSearch \in SearchState /\ NoSearch.seen = << >> /\ NoSearch.rounds = << >> /\ NoSearch.best = 0
    BY DEF NoSearch, SearchState
  <2>2. QED
    BY <1>0, <2>1 DEF SearchState
<1> HIDE DEF new
<1>2. QED
  BY <1>1, SearchConstants DEF TriedOnce, Tried, NamesBest, CompletedAt, new, s

\* A save of a good state is a good file.
LEMMA SaveKeeps ==
  ASSUME NEW new \in SearchState, SaveSearch(new), new.status # "absent",
         Len(new.rounds) <= MaxRounds, Len(new.seen) <= MaxCases, TriedOnce(new.seen), NamesBest(new)
  PROVE  /\ omem' \in SearchState /\ ofile' \in SearchState /\ WithinBudgets' /\ SearchFileInv'
<1>1. omem' = new /\ ofile' = new
  BY DEF SaveSearch
<1>2. QED
  BY <1>1 DEF WithinBudgets, SearchFileInv

\* A status is written; the rest stays.
LEMMA StatusKeeps ==
  ASSUME SearchInv, NEW status \in {"planned", "running", "completed", "failed"},
         SaveSearch([omem EXCEPT !.status = status])
  PROVE  /\ omem' \in SearchState /\ ofile' \in SearchState /\ WithinBudgets' /\ SearchFileInv'
         /\ ofile'.seen = ofile.seen
<1> DEFINE new == [omem EXCEPT !.status = status]
<1>1. omem \in SearchState /\ omem = ofile /\ TriedOnce(omem.seen) /\ NamesBest(omem)
      /\ Len(omem.rounds) <= MaxRounds /\ Len(omem.seen) <= MaxCases
  BY DEF SearchInv, OptimizerTypeOK, SearchFileInv, WithinBudgets
<1>2. new \in SearchState /\ new.status = status /\ new.seen = omem.seen /\ new.rounds = omem.rounds /\ new.best = omem.best
  BY <1>1 DEF SearchState
<1>3. SaveSearch(new)
  OBVIOUS
<1> HIDE DEF new
<1>4. NamesBest(new) /\ TriedOnce(new.seen) /\ new.status # "absent"
  BY <1>1, <1>2 DEF NamesBest
<1>5. omem' \in SearchState /\ ofile' \in SearchState /\ WithinBudgets' /\ SearchFileInv'
  BY <1>1, <1>2, <1>3, <1>4, SaveKeeps
<1>6. QED
  BY <1>1, <1>2, <1>3, <1>5 DEF SaveSearch

LEMMA CallKeeps ==
  ASSUME SearchInv, NEW exec \in Modes, NEW overwrite \in BOOLEAN, Call(exec, overwrite)
  PROVE  SearchInv'
<1> DEFINE fresh == [NoSearch EXCEPT !.status = IF exec THEN "running" ELSE "planned"]
           resumed == Rebased(Loaded(exec), ofile)
           new == IF ofile.status = "absent" \/ overwrite THEN fresh ELSE resumed
<1>1. exec \in BOOLEAN
  BY SearchConstants
<1>2. ofile \in SearchState /\ TriedOnce(ofile.seen) /\ NamesBest(ofile) /\ Len(ofile.rounds) <= MaxRounds /\ Len(ofile.seen) <= MaxCases
  BY DEF SearchInv, OptimizerTypeOK, SearchFileInv, WithinBudgets
<1>3. /\ fresh \in SearchState /\ fresh.status \in {"running", "planned"}
      /\ Len(fresh.rounds) <= MaxRounds /\ Len(fresh.seen) <= MaxCases
      /\ TriedOnce(fresh.seen) /\ NamesBest(fresh)
  BY <1>1, NewSearch
<1>4. /\ resumed \in SearchState /\ resumed.status \in {"running", "planned"}
      /\ Len(resumed.rounds) <= Len(ofile.rounds) /\ Len(resumed.seen) <= Len(ofile.seen)
      /\ TriedOnce(resumed.seen) /\ NamesBest(resumed)
  BY <1>1, <1>2, RebasedFacts
<1>5. SaveSearch(new)
  BY DEF Call
<1> HIDE DEF fresh, resumed
<1>6. Len(resumed.rounds) <= MaxRounds /\ Len(resumed.seen) <= MaxCases
  BY <1>2, <1>4, SearchConstants DEF SearchState
<1>7. /\ new \in SearchState /\ new.status # "absent"
      /\ Len(new.rounds) <= MaxRounds /\ Len(new.seen) <= MaxCases
      /\ TriedOnce(new.seen) /\ NamesBest(new)
  BY <1>3, <1>4, <1>6
<1> HIDE DEF new
<1>8. omem' \in SearchState /\ ofile' \in SearchState /\ WithinBudgets' /\ SearchFileInv'
  BY <1>5, <1>7, SaveKeeps
<1>9. OptimizerTypeOK'
  BY <1>1, <1>8, SearchConstants DEF SearchInv, OptimizerTypeOK, Call, NoSweep
<1>10. RoundInv'
  BY DEF Call, RoundInv, NoSweep
<1>11. QED
  BY <1>8, <1>9, <1>10 DEF SearchInv

LEMMA ProposeKeeps ==
  ASSUME SearchInv, Propose
  PROVE  SearchInv'
<1>1. PICK points \in Proposals :
         IF points = << >> THEN SaveSearch([omem EXCEPT !.status = "completed"]) /\ OReturn("completed") /\ UNCHANGED sweep
         ELSE sweep' = [points |-> points, cases |-> << >>] /\ opc' = "casing" /\ UNCHANGED <<omem, ofile, oret>>
  BY DEF Propose
<1>2. CASE points = << >>
  <2>1. SaveSearch([omem EXCEPT !.status = "completed"]) /\ opc' = "idle" /\ oret' = "completed" /\ sweep' = sweep
    BY <1>1, <1>2 DEF OReturn
  <2>2. omem' \in SearchState /\ ofile' \in SearchState /\ WithinBudgets' /\ SearchFileInv'
    BY <2>1, StatusKeeps
  <2>3. OptimizerTypeOK'
    BY <2>1, <2>2 DEF SearchInv, OptimizerTypeOK, Propose
  <2>4. RoundInv'
    BY <2>1 DEF SearchInv, RoundInv
  <2>5. QED
    BY <2>2, <2>3, <2>4 DEF SearchInv
<1>3. CASE points # << >>
  <2>1. sweep' = [points |-> points, cases |-> << >>] /\ opc' = "casing" /\ UNCHANGED <<omem, ofile, oret>>
    BY <1>1, <1>3
  <2>2. omem \in SearchState /\ omem = ofile /\ InBudget
    BY DEF SearchInv, OptimizerTypeOK, SearchFileInv, Propose
  <2>3. /\ points \in Seq(Points) /\ Len(omem.seen) + Len(points) <= MaxCases
        /\ \A i, j \in DOMAIN points : points[i] = points[j] => i = j
        /\ \A i \in DOMAIN points : \A n \in Tried(omem.seen) : omem.seen[n].at # points[i]
    BY <2>2, ProposalsFacts DEF InBudget
  <2>4. << >> \in Seq(Observation) /\ Len(<< >>) = 0 /\ Len(points) \in Nat /\ DOMAIN << >> = {}
    BY <2>3
  <2>5. OptimizerTypeOK'
    BY <2>1, <2>3, <2>4 DEF SearchInv, OptimizerTypeOK, Propose
  <2>6. WithinBudgets' /\ SearchFileInv'
    BY <2>1 DEF SearchInv, WithinBudgets, SearchFileInv, Propose
  <2>7. RoundInv'
    <3>1. sweep'.points = points /\ sweep'.cases = << >> /\ sweep' \in [points : Seq(Points), cases : Seq(Observation)]
      BY <2>1, <2>3, <2>4
    <3>2. InBudget'
      BY <2>1, <2>2 DEF InBudget
    <3>3. /\ Len(ofile'.seen) + Len(sweep'.points) <= MaxCases
          /\ \A i, j \in DOMAIN sweep'.points : sweep'.points[i] = sweep'.points[j] => i = j
          /\ \A i \in DOMAIN sweep'.points : \A n \in Tried(ofile'.seen) : ofile'.seen[n].at # sweep'.points[i]
      BY <2>1, <2>2, <2>3, <3>1
    <3>4. Len(sweep'.cases) <= Len(sweep'.points) /\ \A i \in DOMAIN sweep'.cases : sweep'.cases[i].at = sweep'.points[i]
      BY <2>4, <3>1
    <3>5. QED
      BY <2>1, <3>1, <3>2, <3>3, <3>4 DEF RoundInv
  <2>8. QED
    BY <2>5, <2>6, <2>7 DEF SearchInv
<1>4. QED
  BY <1>2, <1>3

\* One more case of the round.
LEMMA CaseIsKeeps ==
  ASSUME SearchInv, opc \in {"casing", "running"}, Len(sweep.cases) < Len(sweep.points),
         NEW status \in {"planned", "completed", "failed"}, NEW v \in {0} \cup Objectives, CaseIs(status, v)
  PROVE  /\ sweep' \in [points : Seq(Points), cases : Seq(Observation)]
         /\ sweep'.points = sweep.points
         /\ Len(sweep'.cases) = Len(sweep.cases) + 1
         /\ \A i \in DOMAIN sweep'.cases : sweep'.cases[i].at = sweep.points[i]
<1> DEFINE c == [at |-> sweep.points[Position], round |-> Round, pos |-> Position, status |-> status, objective |-> v]
<1>1. sweep' = [sweep EXCEPT !.cases = Append(sweep.cases, c)]
  BY DEF CaseIs
<1>2. /\ sweep \in [points : Seq(Points), cases : Seq(Observation)] /\ InBudget
      /\ \A i \in DOMAIN sweep.cases : sweep.cases[i].at = sweep.points[i]
  BY DEF SearchInv, RoundInv
<1>3. /\ sweep.points \in Seq(Points) /\ sweep.cases \in Seq(Observation) /\ Len(sweep.cases) \in Nat /\ Len(sweep.points) \in Nat
  BY <1>2
<1>4. Position \in 1 .. Len(sweep.points) /\ Position \in Nat /\ Position = Len(sweep.cases) + 1
  BY <1>3 DEF Position
<1>5. Round \in 1 .. MaxRounds
  <2>1. omem.rounds \in Seq({"planned", "completed", "failed"})
    BY DEF SearchInv, OptimizerTypeOK, SearchState
  <2>2. Len(omem.rounds) \in Nat
    BY <2>1
  <2>3. QED
    BY <1>2, <2>2, SearchConstants DEF InBudget, Round
<1>6. c \in Observation /\ c.at = sweep.points[Position]
  BY <1>3, <1>4, <1>5 DEF Observation
<1> HIDE DEF c
<1>7. /\ Append(sweep.cases, c) \in Seq(Observation) /\ Len(Append(sweep.cases, c)) = Len(sweep.cases) + 1
      /\ DOMAIN Append(sweep.cases, c) = 1 .. Len(sweep.cases) + 1 /\ DOMAIN sweep.cases = 1 .. Len(sweep.cases)
      /\ Append(sweep.cases, c)[Len(sweep.cases) + 1] = c
      /\ \A i \in 1 .. Len(sweep.cases) : Append(sweep.cases, c)[i] = sweep.cases[i]
  BY <1>3, <1>6
<1>8. \A i \in DOMAIN Append(sweep.cases, c) : Append(sweep.cases, c)[i].at = sweep.points[i]
  <2> SUFFICES ASSUME NEW i \in DOMAIN Append(sweep.cases, c) PROVE Append(sweep.cases, c)[i].at = sweep.points[i]
    OBVIOUS
  <2>1. i \in 1 .. Len(sweep.cases) \/ i = Len(sweep.cases) + 1
    BY <1>3, <1>7
  <2>2. QED
    BY <1>2, <1>4, <1>6, <1>7, <2>1
<1>9. sweep'.points = sweep.points /\ sweep'.cases = Append(sweep.cases, c) /\ sweep' \in [points : Seq(Points), cases : Seq(Observation)]
  BY <1>1, <1>2, <1>7
<1>10. QED
  BY <1>7, <1>8, <1>9

\* A round has no more points than there are.
LEMMA PositionBound ==
  ASSUME SearchInv, opc \in {"casing", "running"}
  PROVE  Len(sweep.points) <= Cardinality(Points) /\ Cardinality(Points) \in Nat
<1> DEFINE p == sweep.points
<1>1. p \in Seq(Points) /\ \A i, j \in DOMAIN p : p[i] = p[j] => i = j
  BY DEF SearchInv, RoundInv
<1> HIDE DEF p
<1>2. p \in [1 .. Len(p) -> Points] /\ Len(p) \in Nat /\ DOMAIN p = 1 .. Len(p)
  BY <1>1
<1>3. p \in Injection(1 .. Len(p), Points)
  BY <1>1, <1>2 DEF Injection, IsInjective
<1>4. Cardinality(1 .. Len(p)) = Len(p) /\ Cardinality(Points) \in Nat
  <2>1. Cardinality(1 .. Len(p)) = IF 1 > Len(p) THEN 0 ELSE Len(p) - 1 + 1
    BY <1>2, FS_Interval
  <2>2. QED
    BY <1>2, <2>1, FS_CardinalityType, SearchConstants
<1>5. Cardinality(1 .. Len(p)) <= Cardinality(Points)
  BY <1>3, SearchConstants, FS_Injection
<1>6. QED
  BY <1>4, <1>5 DEF p

\* <<Round, Position>> is a directory of the grid.
LEMMA DirectoryType ==
  ASSUME SearchInv, opc \in {"casing", "running"}, Len(sweep.cases) < Len(sweep.points)
  PROVE  <<Round, Position>> \in (1 .. MaxRounds) \X (1 .. Cardinality(Points))
<1>1. /\ sweep \in [points : Seq(Points), cases : Seq(Observation)] /\ InBudget
  BY DEF SearchInv, RoundInv
<1>2. Len(sweep.cases) \in Nat /\ Len(sweep.points) \in Nat
  BY <1>1
<1>3. omem.rounds \in Seq({"planned", "completed", "failed"})
  BY DEF SearchInv, OptimizerTypeOK, SearchState
<1>4. Len(omem.rounds) \in Nat /\ Len(omem.rounds) < MaxRounds
  BY <1>1, <1>3 DEF InBudget
<1>5. Round \in 1 .. MaxRounds
  BY <1>4, SearchConstants DEF Round
<1>6. Position \in 1 .. Cardinality(Points)
  BY <1>2, PositionBound DEF Position
<1>7. QED
  BY <1>5, <1>6

LEMMA CaseStartsKeeps ==
  ASSUME SearchInv, CaseStarts
  PROVE  SearchInv'
<1>0. opc = "casing" /\ opc \in {"casing", "running"} /\ UNCHANGED <<search, ofile, omem, execute, good, oret, ocalls, ocrashes>>
  BY DEF CaseStarts
<1>1. Len(sweep.cases) < Len(sweep.points) /\ Len(sweep.cases) \in Nat /\ Len(sweep.points) \in Nat
  <2>1. sweep.points \in Seq(Points) /\ sweep.cases \in Seq(Observation)
    BY DEF SearchInv, RoundInv
  <2>2. QED
    BY <2>1 DEF CaseStarts, Position
<1>2. WithinBudgets' /\ SearchFileInv'
  BY <1>0 DEF SearchInv, WithinBudgets, SearchFileInv
<1>3. CASE opc' = "casing" /\ made' = made /\ \E status \in {"planned", "failed"} : CaseIs(status, 0)
  <2>1. PICK status \in {"planned", "completed", "failed"} : CaseIs(status, 0)
    BY <1>3
  <2>2. /\ sweep' \in [points : Seq(Points), cases : Seq(Observation)]
        /\ sweep'.points = sweep.points
        /\ Len(sweep'.cases) = Len(sweep.cases) + 1
        /\ \A i \in DOMAIN sweep'.cases : sweep'.cases[i].at = sweep.points[i]
    BY <1>0, <1>1, <2>1, CaseIsKeeps
  <2>3. OptimizerTypeOK'
    BY <1>0, <1>3, <2>2 DEF SearchInv, OptimizerTypeOK
  <2>4. RoundInv'
    BY <1>0, <1>1, <1>3, <2>2 DEF SearchInv, RoundInv, InBudget, Tried
  <2>5. QED
    BY <1>2, <2>3, <2>4 DEF SearchInv
<1>4. CASE made' = made \cup {<<Round, Position>>} /\ opc' = "running" /\ sweep' = sweep
  <2>1. OptimizerTypeOK'
    <3>1. <<Round, Position>> \in (1 .. MaxRounds) \X (1 .. Cardinality(Points))
      BY <1>0, <1>1, DirectoryType
    <3>2. QED
      BY <1>0, <1>4, <3>1 DEF SearchInv, OptimizerTypeOK
  <2>2. RoundInv'
    BY <1>0, <1>1, <1>4 DEF SearchInv, RoundInv, InBudget, Tried
  <2>3. QED
    BY <1>2, <2>1, <2>2 DEF SearchInv
<1>5. QED
  BY <1>0, <1>3, <1>4 DEF CaseStarts

LEMMA CaseEndsKeeps ==
  ASSUME SearchInv, CaseEnds
  PROVE  SearchInv'
<1>0. opc = "running" /\ opc' = "casing" /\ opc \in {"casing", "running"}
      /\ UNCHANGED <<search, ofile, omem, execute, made, oret, ocalls, ocrashes>>
  BY DEF CaseEnds
<1>1. Len(sweep.cases) < Len(sweep.points) /\ Len(sweep.cases) \in Nat /\ Len(sweep.points) \in Nat
  <2>1. sweep.points \in Seq(Points) /\ sweep.cases \in Seq(Observation)
    BY DEF SearchInv, RoundInv
  <2>2. QED
    BY <1>0, <2>1 DEF SearchInv, RoundInv
<1>2. WithinBudgets' /\ SearchFileInv'
  BY <1>0 DEF SearchInv, WithinBudgets, SearchFileInv
<1>3. /\ \E status \in {"planned", "completed", "failed"}, v \in {0} \cup Objectives : CaseIs(status, v)
      /\ good' = good \/ good' = good \cup {<<Round, Position>>}
  <2>1. CASE CaseIs("failed", 0) /\ UNCHANGED good
    BY <2>1
  <2>2. CASE \E v \in {0} \cup Objectives : CaseIs("completed", v) /\ good' = good \cup {<<Round, Position>>}
    BY <2>2
  <2>3. QED
    BY <2>1, <2>2 DEF CaseEnds
<1>4. PICK status \in {"planned", "completed", "failed"}, v \in {0} \cup Objectives : CaseIs(status, v)
  BY <1>3
<1>5. /\ sweep' \in [points : Seq(Points), cases : Seq(Observation)]
      /\ sweep'.points = sweep.points
      /\ Len(sweep'.cases) = Len(sweep.cases) + 1
      /\ \A i \in DOMAIN sweep'.cases : sweep'.cases[i].at = sweep.points[i]
  BY <1>0, <1>1, <1>4, CaseIsKeeps
<1>6. OptimizerTypeOK'
  <2>1. <<Round, Position>> \in (1 .. MaxRounds) \X (1 .. Cardinality(Points))
    BY <1>0, <1>1, DirectoryType
  <2>2. QED
    BY <1>0, <1>3, <1>5, <2>1 DEF SearchInv, OptimizerTypeOK
<1>7. RoundInv'
  BY <1>0, <1>1, <1>5 DEF SearchInv, RoundInv, InBudget, Tried
<1>8. QED
  BY <1>2, <1>6, <1>7 DEF SearchInv

\* The observations of a round are added to those there are.
LEMMA AddedOnce ==
  ASSUME NEW q \in Seq(Observation), NEW r \in Seq(Observation), NEW p, TriedOnce(q),
         \A i, j \in DOMAIN p : p[i] = p[j] => i = j,
         \A i \in DOMAIN p : \A n \in Tried(q) : q[n].at # p[i],
         \A i \in DOMAIN r : i \in DOMAIN p /\ r[i].at = p[i]
  PROVE  /\ q \o r \in Seq(Observation) /\ Len(q \o r) = Len(q) + Len(r)
         /\ TriedOnce(q \o r)
         /\ \A n \in DOMAIN q : n \in DOMAIN (q \o r) /\ (q \o r)[n] = q[n]
<1> DEFINE s == q \o r
<1>1. /\ s \in Seq(Observation) /\ Len(s) = Len(q) + Len(r) /\ Len(q) \in Nat /\ Len(r) \in Nat
      /\ DOMAIN s = 1 .. Len(q) + Len(r) /\ DOMAIN q = 1 .. Len(q) /\ DOMAIN r = 1 .. Len(r)
      /\ \A n \in 1 .. Len(q) : s[n] = q[n]
      /\ \A n \in DOMAIN s : n > Len(q) => n - Len(q) \in 1 .. Len(r) /\ s[n] = r[n - Len(q)]
  OBVIOUS
<1> HIDE DEF s
<1>2. \A n \in DOMAIN q : n \in DOMAIN s /\ s[n] = q[n]
  BY <1>1
<1>3. TriedOnce(s)
  <2> SUFFICES ASSUME NEW n \in Tried(s), NEW k \in Tried(s), s[n].at = s[k].at
               PROVE  n = k
    BY DEF TriedOnce
  <2>1. n \in DOMAIN s /\ k \in DOMAIN s /\ n \in Nat /\ k \in Nat
    BY <1>1 DEF Tried
  <2>2. CASE n <= Len(q) /\ k <= Len(q)
    <3>1. n \in Tried(q) /\ k \in Tried(q) /\ s[n] = q[n] /\ s[k] = q[k]
      BY <1>1, <2>1, <2>2 DEF Tried
    <3>2. QED
      BY <3>1 DEF TriedOnce
  <2>3. CASE n <= Len(q) /\ ~(k <= Len(q))
    <3>1. n \in Tried(q) /\ s[n] = q[n] /\ k - Len(q) \in DOMAIN r /\ s[k] = r[k - Len(q)]
      BY <1>1, <2>1, <2>3 DEF Tried
    <3>2. QED
      BY <3>1
  <2>4. CASE ~(n <= Len(q)) /\ k <= Len(q)
    <3>1. k \in Tried(q) /\ s[k] = q[k] /\ n - Len(q) \in DOMAIN r /\ s[n] = r[n - Len(q)]
      BY <1>1, <2>1, <2>4 DEF Tried
    <3>2. QED
      BY <3>1
  <2>5. CASE ~(n <= Len(q)) /\ ~(k <= Len(q))
    <3>1. /\ n - Len(q) \in DOMAIN r /\ s[n] = r[n - Len(q)]
          /\ k - Len(q) \in DOMAIN r /\ s[k] = r[k - Len(q)]
      BY <1>1, <2>1, <2>5
    <3>2. n - Len(q) = k - Len(q)
      BY <3>1
    <3>3. QED
      BY <1>1, <2>1, <3>2
  <2>6. QED
    BY <2>2, <2>3, <2>4, <2>5
<1>4. QED
  BY <1>1, <1>2, <1>3 DEF s

\* What a round that is over is added to.
LEMMA RoundAdds ==
  ASSUME SearchInv, CloseRound
  PROVE  LET all == ofile.seen \o sweep.cases
         IN  /\ all \in Seq(Observation) /\ Len(all) <= MaxCases /\ TriedOnce(all)
             /\ \A n \in DOMAIN ofile.seen : n \in DOMAIN all /\ all[n] = ofile.seen[n]
<1> DEFINE q == ofile.seen
           r == sweep.cases
           p == sweep.points
<1>1. /\ q \in Seq(Observation) /\ TriedOnce(q) /\ r \in Seq(Observation) /\ p \in Seq(Points)
      /\ Len(q) + Len(p) <= MaxCases /\ Len(r) <= Len(p)
      /\ \A i, j \in DOMAIN p : p[i] = p[j] => i = j
      /\ \A i \in DOMAIN p : \A n \in Tried(q) : q[n].at # p[i]
      /\ \A i \in DOMAIN r : r[i].at = p[i]
  BY DEF SearchInv, OptimizerTypeOK, SearchState, SearchFileInv, RoundInv, CloseRound
<1> HIDE DEF p, q, r
<1>2. Len(q) \in Nat /\ Len(r) \in Nat /\ Len(p) \in Nat /\ \A i \in DOMAIN r : i \in DOMAIN p
  BY <1>1
<1>3. /\ q \o r \in Seq(Observation) /\ Len(q \o r) = Len(q) + Len(r) /\ TriedOnce(q \o r)
      /\ \A n \in DOMAIN q : n \in DOMAIN (q \o r) /\ (q \o r)[n] = q[n]
  BY <1>1, <1>2, AddedOnce
<1>4. Len(q \o r) <= MaxCases
  BY <1>1, <1>2, <1>3, SearchConstants
<1>5. QED
  BY <1>3, <1>4 DEF q, r

LEMMA CloseRoundKeeps ==
  ASSUME SearchInv, CloseRound
  PROVE  SearchInv'
<1> DEFINE all == omem.seen \o sweep.cases
           new == [omem EXCEPT !.rounds = Append(omem.rounds, RoundStatus), !.seen = all, !.best = Best(all)]
<1>0. /\ opc = "casing" /\ opc' = "closing" /\ SaveSearch(new)
      /\ UNCHANGED <<search, execute, sweep, made, good, oret, ocalls, ocrashes>>
  BY DEF CloseRound
<1>1. omem \in SearchState /\ omem = ofile
  BY DEF SearchInv, OptimizerTypeOK, SearchFileInv
<1>2. /\ all \in Seq(Observation) /\ Len(all) <= MaxCases /\ TriedOnce(all)
  BY <1>1, RoundAdds DEF SearchInv, SearchFileInv
<1>3. /\ Best(all) \in Nat
      /\ Best(all) # 0 => Best(all) \in CompletedAt(all)
      /\ \A n \in CompletedAt(all) : Best(all) # 0 /\ all[Best(all)].objective <= all[n].objective
  BY <1>2, BestFacts
<1>4. RoundStatus \in {"planned", "completed", "failed"}
  BY DEF RoundStatus
<1>5. /\ Append(omem.rounds, RoundStatus) \in Seq({"planned", "completed", "failed"})
      /\ Len(Append(omem.rounds, RoundStatus)) <= MaxRounds
  <2>1. omem \in SearchState /\ InBudget
    BY <1>0 DEF SearchInv, OptimizerTypeOK, RoundInv
  <2>2. omem.rounds \in Seq({"planned", "completed", "failed"}) /\ Len(omem.rounds) < MaxRounds
    BY <2>1 DEF SearchState, InBudget
  <2>3. QED
    BY <1>4, <2>2, SearchConstants
<1> HIDE DEF all
<1>6. /\ new \in SearchState /\ new.rounds = Append(omem.rounds, RoundStatus) /\ new.seen = all
      /\ new.best = Best(all) /\ new.status = omem.status
  <2>1. omem \in SearchState
    BY DEF SearchInv, OptimizerTypeOK
  <2>2. QED
    BY <1>2, <1>3, <1>5, <2>1 DEF SearchState
<1> HIDE DEF new
<1>7. NamesBest(new)
  BY <1>3, <1>6 DEF NamesBest
<1>8. new.status # "absent"
  BY <1>0, <1>1, <1>6 DEF SearchInv, SearchFileInv
<1>9. omem' \in SearchState /\ ofile' \in SearchState /\ WithinBudgets' /\ SearchFileInv'
  BY <1>0, <1>2, <1>5, <1>6, <1>7, <1>8, SaveKeeps
<1>10. OptimizerTypeOK'
  BY <1>0, <1>9 DEF SearchInv, OptimizerTypeOK
<1>11. RoundInv'
  BY <1>0 DEF SearchInv, RoundInv
<1>12. QED
  BY <1>9, <1>10, <1>11 DEF SearchInv

\* A status is saved and the call returns, or goes on.
LEMMA EndKeeps ==
  ASSUME SearchInv, NEW status \in {"planned", "completed", "failed"},
         SaveSearch([omem EXCEPT !.status = status]), OReturn(status),
         UNCHANGED <<search, execute, sweep, made, good, ocalls, ocrashes>>
  PROVE  SearchInv'
<1>1. omem' \in SearchState /\ ofile' \in SearchState /\ WithinBudgets' /\ SearchFileInv'
  BY StatusKeeps
<1>2. OptimizerTypeOK'
  BY <1>1 DEF SearchInv, OptimizerTypeOK, OReturn
<1>3. RoundInv'
  BY DEF SearchInv, RoundInv, OReturn
<1>4. QED
  BY <1>1, <1>2, <1>3 DEF SearchInv

LEMMA JudgeKeeps ==
  ASSUME SearchInv, Judge
  PROVE  SearchInv'
<1>1. UNCHANGED <<search, execute, sweep, made, good, ocalls, ocrashes>>
  BY DEF Judge
<1>2. CASE SaveSearch([omem EXCEPT !.status = "planned"]) /\ OReturn("planned")
  BY <1>1, <1>2, EndKeeps
<1>3. CASE SaveSearch([omem EXCEPT !.status = "failed"]) /\ OReturn("failed")
  BY <1>1, <1>3, EndKeeps
<1>4. CASE opc' = "proposing" /\ UNCHANGED <<omem, ofile, oret>>
  <2>1. OptimizerTypeOK'
    BY <1>1, <1>4 DEF SearchInv, OptimizerTypeOK
  <2>2. WithinBudgets' /\ SearchFileInv' /\ RoundInv'
    BY <1>1, <1>4 DEF SearchInv, WithinBudgets, SearchFileInv, RoundInv, Judge
  <2>3. QED
    BY <2>1, <2>2 DEF SearchInv
<1>5. QED
  BY <1>2, <1>3, <1>4 DEF Judge

LEMMA FinishKeeps ==
  ASSUME SearchInv, Finish
  PROVE  SearchInv'
  BY EndKeeps DEF Finish

LEMMA SearchCrashKeeps ==
  ASSUME SearchInv, SearchCrash
  PROVE  SearchInv'
<1>1. OptimizerTypeOK'
  <2>1. ocrashes' \in 0 .. MaxSearchCrashes
    BY SearchConstants DEF SearchInv, OptimizerTypeOK, SearchCrash
  <2>2. QED
    BY <2>1 DEF SearchInv, OptimizerTypeOK, SearchCrash
<1>2. WithinBudgets' /\ SearchFileInv' /\ RoundInv'
  BY DEF SearchInv, WithinBudgets, SearchFileInv, RoundInv, SearchCrash
<1>3. QED
  BY <1>1, <1>2 DEF SearchInv

LEMMA SearchInductive == SearchInv /\ [OptimizerNext]_ovars => SearchInv'
<1> SUFFICES ASSUME SearchInv, [OptimizerNext]_ovars
             PROVE  SearchInv'
  OBVIOUS
<1>1. CASE \E e \in Modes, o \in {b \in BOOLEAN : b => search \in Overwritten} : Call(e, o)
  BY <1>1, CallKeeps
<1>2. CASE Work
  BY <1>2, ProposeKeeps, CaseStartsKeeps, CaseEndsKeeps, CloseRoundKeeps, JudgeKeeps, FinishKeeps DEF Work
<1>3. CASE SearchCrash
  BY <1>3, SearchCrashKeeps
<1>4. CASE UNCHANGED ovars
  BY <1>4 DEF ovars, SearchInv, OptimizerTypeOK, WithinBudgets, SearchFileInv, RoundInv, InBudget, Tried, TriedOnce,
              NamesBest, CompletedAt
<1>5. QED
  BY <1>1, <1>2, <1>3, <1>4 DEF OptimizerNext

\* What is promised of the file follows.
LEMMA SearchPromised == SearchInv => SearchInvariant
<1> SUFFICES ASSUME SearchInv PROVE SearchInvariant
  OBVIOUS
<1>1. ofile.seen \in Seq(Observation) /\ TriedOnce(ofile.seen)
  BY DEF SearchInv, OptimizerTypeOK, SearchState, SearchFileInv
<1>2. NoPointTwice
  BY <1>1, OnceExecuted DEF NoPointTwice
<1>3. BestIsBest
  BY DEF SearchInv, SearchFileInv, NamesBest, BestIsBest
<1>4. QED
  BY <1>2, <1>3 DEF SearchInv, SearchInvariant

\* Searches keep to their budgets over all the calls of an id, try no point
\* twice and name their best case (adaptive_optimizer, multidim_optimizer).
THEOREM SearchKeepsItsPromises == OptimizerSpec => []SearchInvariant
  BY SearchInitially, SearchInductive, SearchPromised, PTL DEF OptimizerSpec

\* No step of a search that may not be overwritten takes back an observation
\* that completed: resuming, planning and closing a round all keep them.
LEMMA CompletedStepwise == SearchInv /\ [OptimizerNext]_ovars => CompletedKept
<1> SUFFICES ASSUME SearchInv, [OptimizerNext]_ovars, search \notin Overwritten, NEW n \in CompletedAt(ofile.seen)
             PROVE  \E k \in DOMAIN ofile'.seen : ofile'.seen[k] = ofile.seen[n]
  BY DEF CompletedKept
<1>0. n \in DOMAIN ofile.seen
  BY DEF CompletedAt
<1>1. CASE ofile'.seen = ofile.seen
  BY <1>0, <1>1
<1>2. ASSUME NEW status \in {"planned", "completed", "failed"}, SaveSearch([omem EXCEPT !.status = status])
      PROVE  ofile'.seen = ofile.seen
  BY <1>2, StatusKeeps
<1>3. CASE \E e \in Modes, o \in {b \in BOOLEAN : b => search \in Overwritten} : Call(e, o)
  <2>1. PICK e \in Modes, o \in {b \in BOOLEAN : b => search \in Overwritten} : Call(e, o)
    BY <1>3
  <2>2. ~o /\ e \in BOOLEAN
    BY SearchConstants
  <2>3. ofile.status # "absent"
    BY <1>0 DEF SearchInv, SearchFileInv
  <2>4. ofile' = Rebased(Loaded(e), ofile)
    BY <2>1, <2>2, <2>3 DEF Call, SaveSearch
  <2>5. ofile \in SearchState /\ TriedOnce(ofile.seen) /\ NamesBest(ofile)
    BY DEF SearchInv, OptimizerTypeOK, SearchFileInv
  <2>6. QED
    BY <2>2, <2>4, <2>5, RebasedFacts
<1>4. CASE Propose
  <2>1. ofile' = ofile \/ SaveSearch([omem EXCEPT !.status = "completed"])
    BY <1>4 DEF Propose
  <2>2. QED
    BY <1>1, <1>2, <2>1
<1>5. CASE CloseRound
  <2>1. omem = ofile
    BY DEF SearchInv, SearchFileInv
  <2>2. ofile'.seen = ofile.seen \o sweep.cases
    <3>1. omem \in SearchState
      BY DEF SearchInv, OptimizerTypeOK
    <3>2. QED
      BY <1>5, <2>1, <3>1 DEF CloseRound, SaveSearch, SearchState
  <2>3. QED
    BY <1>0, <1>5, <2>2, RoundAdds
<1>6. CASE Judge
  <2>1. ofile' = ofile \/ SaveSearch([omem EXCEPT !.status = "planned"]) \/ SaveSearch([omem EXCEPT !.status = "failed"])
    BY <1>6 DEF Judge
  <2>2. QED
    BY <1>1, <1>2, <2>1
<1>7. CASE Finish
  BY <1>1, <1>2, <1>7 DEF Finish
<1>8. CASE CaseStarts \/ CaseEnds \/ SearchCrash \/ UNCHANGED ovars
  <2>1. ofile' = ofile
    BY <1>8 DEF CaseStarts, CaseEnds, SearchCrash, ovars
  <2>2. QED
    BY <1>1, <2>1
<1>9. QED
  BY <1>3, <1>4, <1>5, <1>6, <1>7, <1>8 DEF OptimizerNext, Work

\* An executing call never drops a completed observation.
THEOREM SearchKeepsCompleted == OptimizerSpec => [][CompletedKept]_ovars
  BY SearchInitially, SearchInductive, CompletedStepwise, PTL DEF OptimizerSpec

-----------------------------------------------------------------------------
(***************************************************************************)
(* Convergence studies.                                                    *)
(***************************************************************************)
\* Meshes are compared by their value, so one that is asked for twice makes two
\* finest ones that are the same; a request of meshes that differ.
DistinctMeshes == "mesh" \in Studies => \A i, j \in DOMAIN Axis : Axis[i] = Axis[j] => i = j

\* The cases that have ended.
CasesBehind == IF study = "mesh" /\ cpc = "running" THEN Front(csweep) ELSE Cases
Outcome == IF Executes THEN {"completed", "failed"} ELSE {"planned"}
Settled(list) == \A n \in DOMAIN list : list[n].value = Axis[n] /\ list[n].status \in Outcome

\* The call at work has gone through the axis up to where it is, and the state of
\* a tool study is saved with every case, without a verdict.
StudyCallInv ==
    /\ cpc # "idle" => /\ CasesBehind \in Seq(Case) /\ Len(CasesBehind) <= Len(Axis) /\ Settled(CasesBehind)
                       /\ study = "tool" => cmem = cfile /\ cmem.quality = "none"
    /\ cpc \in {"cases", "running"} => Len(CasesBehind) < Len(Axis)
    /\ cpc = "running" => Executes
    /\ cpc = "closing" => Len(CasesBehind) = Len(Axis)
    /\ study = "mesh" /\ cpc = "running" => csweep # << >>

StudyInv == StudyInvariant /\ StudyCallInv

LEMMA StudyConstants ==
  /\ Studies \subseteq {"mesh", "tool"} /\ Registered \subseteq BOOLEAN /\ ReusesRuns \in BOOLEAN
  /\ Axis \in Seq(Nat) /\ Len(Axis) >= 2 /\ Metrics \subseteq Nat /\ Tolerance \in Nat
  /\ Asks \subseteq SUBSET {"execute", "overwrite"} /\ MaxStudies \in Nat /\ MaxStudyCrashes \in Nat
  BY ConvergenceAssumption

LEMMA StudyInitially == ConvergenceInit => StudyInv
<1> SUFFICES ASSUME ConvergenceInit PROVE StudyInv
  OBVIOUS
<1>1. Absent \in StudyState /\ Absent.quality = "none" /\ Absent.status = "absent"
  BY DEF Absent, StudyState, Qualities
<1>2. ConvergenceTypeOK
  <2>1. << >> \in Seq(Case) /\ Len(<< >>) <= Len(Axis) /\ 0 \in 0 .. MaxStudies /\ 0 \in 0 .. MaxStudyCrashes
    BY StudyConstants
  <2>2. QED
    BY <1>1, <2>1 DEF ConvergenceTypeOK, ConvergenceInit
<1>3. PassedIsConverged /\ StudyIsItsSweep
  BY <1>1 DEF ConvergenceInit, PassedIsConverged, StudyIsItsSweep
<1>4. StudyCallInv
  BY DEF ConvergenceInit, StudyCallInv
<1>5. QED
  BY <1>2, <1>3, <1>4 DEF StudyInv, StudyInvariant

\* A new case.
LEMMA CaseAtFacts ==
  ASSUME NEW n \in DOMAIN Axis, NEW status \in {"planned", "running", "completed", "failed"},
         NEW metric \in Metrics \cup {NoMetric}
  PROVE  CaseAt(n, status, metric) \in Case /\ CaseAt(n, status, metric).value = Axis[n]
         /\ CaseAt(n, status, metric).status = status
  BY DEF CaseAt, Case, ToSet

LEMMA AppendSettles ==
  ASSUME NEW list \in Seq(Case), Len(list) < Len(Axis), Settled(list),
         NEW status \in Outcome, NEW metric \in Metrics \cup {NoMetric}
  PROVE  LET more == Append(list, CaseAt(Next_(list), status, metric))
         IN  more \in Seq(Case) /\ Len(more) = Len(list) + 1 /\ Len(list) \in Nat /\ Settled(more)
<1> DEFINE c == CaseAt(Next_(list), status, metric)
           more == Append(list, c)
<1>1. Len(list) \in Nat /\ Next_(list) = Len(list) + 1 /\ Next_(list) \in DOMAIN Axis
  BY StudyConstants DEF Next_
<1>2. c \in Case /\ c.value = Axis[Len(list) + 1] /\ c.status = status
  BY <1>1, CaseAtFacts DEF Outcome
<1> HIDE DEF c
<1>3. /\ more \in Seq(Case) /\ Len(more) = Len(list) + 1 /\ DOMAIN more = 1 .. Len(list) + 1
      /\ DOMAIN list = 1 .. Len(list)
      /\ more[Len(list) + 1] = c /\ \A n \in 1 .. Len(list) : more[n] = list[n]
  BY <1>1, <1>2
<1> HIDE DEF more
<1>4. ASSUME NEW n \in DOMAIN more
      PROVE  more[n].value = Axis[n] /\ more[n].status \in Outcome
  <2>1. n \in DOMAIN list \/ n = Len(list) + 1
    BY <1>1, <1>3
  <2>2. QED
    BY <1>2, <1>3, <2>1 DEF Settled
<1>5. QED
  BY <1>1, <1>3, <1>4 DEF Settled, more, c

\* A case that ended is written down.
LEMMA PutCasesKeeps ==
  ASSUME StudyInv, cpc \in {"cases", "running"}, NEW status \in Outcome, NEW metric \in Metrics \cup {NoMetric},
         PutCases(Append(CasesBehind, CaseAt(Next_(CasesBehind), status, metric))),
         UNCHANGED <<study, cflags, cdirs, ccalls, ccrashes>>
  PROVE  StudyInv'
<1> DEFINE more == Append(CasesBehind, CaseAt(Next_(CasesBehind), status, metric))
<1>1. /\ CasesBehind \in Seq(Case) /\ Len(CasesBehind) < Len(Axis) /\ Settled(CasesBehind)
      /\ study = "tool" => cmem = cfile /\ cmem.quality = "none"
  BY DEF StudyInv, StudyCallInv
<1>2. more \in Seq(Case) /\ Len(more) = Len(CasesBehind) + 1 /\ Len(CasesBehind) \in Nat /\ Settled(more)
  BY <1>1, AppendSettles
<1>3. PutCases(more)
  OBVIOUS
<1> HIDE DEF more
<1>4. Len(more) <= Len(Axis) /\ Len(more) \in Nat /\ (Len(more) # Len(Axis) => Len(more) < Len(Axis))
  BY <1>1, <1>2, StudyConstants
<1>5. /\ cpc' = IF Len(more) = Len(Axis) THEN "closing" ELSE "cases"
      /\ study = "mesh" => csweep' = more /\ cmem' = cmem /\ cfile' = cfile
      /\ study # "mesh" => cmem' = [cmem EXCEPT !.cases = more] /\ cfile' = cmem' /\ csweep' = csweep
  BY <1>3 DEF PutCases, Save
<1>6. cmem \in StudyState /\ cfile \in StudyState /\ study \in {"mesh", "tool"}
  BY StudyConstants DEF StudyInv, StudyInvariant, ConvergenceTypeOK
<1>7. study # "mesh" => cmem' \in StudyState /\ cmem'.cases = more /\ cmem'.quality = "none"
  BY <1>1, <1>2, <1>5, <1>6 DEF StudyState
<1>8. ConvergenceTypeOK'
  BY <1>2, <1>4, <1>5, <1>6, <1>7 DEF StudyInv, StudyInvariant, ConvergenceTypeOK
<1>9. CasesBehind' = more /\ Outcome' = Outcome /\ Executes' = Executes
  BY <1>5, <1>6, <1>7 DEF CasesBehind, Cases, Outcome, Executes
<1>10. StudyCallInv'
  <2>1. Settled(CasesBehind)'
    BY <1>2, <1>9 DEF Settled
  <2>2. cpc' # "running" /\ (cpc' = "cases" => Len(more) < Len(Axis)) /\ (cpc' = "closing" => Len(more) = Len(Axis))
    BY <1>4, <1>5
  <2>3. (study = "tool")' => cmem' = cfile' /\ cmem'.quality = "none"
    BY <1>5, <1>7
  <2>4. QED
    BY <1>2, <1>4, <1>9, <2>1, <2>2, <2>3 DEF StudyCallInv
<1>11. StudyIsItsSweep'
  BY <1>5 DEF StudyIsItsSweep
<1>12. PassedIsConverged'
  <2>1. CASE study = "mesh"
    BY <1>5, <2>1 DEF StudyInv, StudyInvariant, PassedIsConverged
  <2>2. CASE study # "mesh"
    BY <1>5, <1>7, <2>2 DEF PassedIsConverged
  <2>3. QED
    BY <2>1, <2>2
<1>13. QED
  BY <1>8, <1>10, <1>11, <1>12 DEF StudyInv, StudyInvariant

LEMMA FreshFacts ==
  ASSUME NEW asked \in SUBSET {"execute", "overwrite"}
  PROVE  /\ Fresh(asked) \in StudyState /\ Fresh(asked).cases = << >> /\ Fresh(asked).quality = "none"
         /\ LET refused == [Fresh(asked) EXCEPT !.status = "failed", !.quality = "failed"]
            IN  refused \in StudyState /\ refused.quality = "failed"
<1>1. Absent \in StudyState /\ Absent.cases = << >> /\ Absent.quality = "none"
  BY DEF Absent, StudyState, Qualities
<1> DEFINE e == "execute" \in asked
<1>2. e \in BOOLEAN
  OBVIOUS
<1>3. Fresh(asked) = [Absent EXCEPT !.status = "planned", !.execute = e]
  BY DEF Fresh
<1> HIDE DEF e
<1>4. /\ Fresh(asked) \in StudyState /\ Fresh(asked).cases = << >> /\ Fresh(asked).quality = "none"
  BY <1>1, <1>2, <1>3 DEF StudyState
<1>5. QED
  BY <1>4 DEF StudyState, Qualities

\* A call begins with no case behind it, or returns what it found.
LEMMA StudyCallKeeps ==
  ASSUME StudyInv, NEW asked \in Asks, CCall(asked)
  PROVE  StudyInv'
<1>0. /\ asked \in SUBSET {"execute", "overwrite"} /\ cpc = "idle"
      /\ ccalls' = ccalls + 1 /\ cflags' = asked /\ ccalls < MaxStudies /\ UNCHANGED <<study, cdirs, ccrashes>>
  BY StudyConstants DEF CCall
<1>1. /\ Fresh(asked) \in StudyState /\ Fresh(asked).cases = << >> /\ Fresh(asked).quality = "none"
      /\ [Fresh(asked) EXCEPT !.status = "failed", !.quality = "failed"] \in StudyState
      /\ [Fresh(asked) EXCEPT !.status = "failed", !.quality = "failed"].quality = "failed"
  BY <1>0, FreshFacts
<1>2. cfile \in StudyState /\ cmem \in StudyState /\ csweep \in Seq(Case)
  BY DEF StudyInv, StudyInvariant, ConvergenceTypeOK
<1>3. /\ << >> \in Seq(Case) /\ Len(<< >>) = 0 /\ 0 < Len(Axis) /\ 0 <= Len(Axis) /\ Settled(<< >>)'
  BY StudyConstants DEF Settled
<1>4. /\ csweep' \in Seq(Case) /\ Len(csweep') <= Len(Axis)
      /\ cmem' \in StudyState /\ cfile' \in StudyState /\ cpc' \in {"idle", "cases"}
      /\ cfile' # cfile => cfile'.quality # "passed"
      /\ study = "mesh" => cpc' = "cases"
      /\ cpc' = "cases" => Cases' = << >> /\ (study = "tool" => cmem' = cfile' /\ cmem'.quality = "none")
  <2>1. CASE StartMesh(asked)
    <3>1. study = "mesh" /\ csweep' = << >> /\ cpc' = "cases" /\ ((cmem' = cfile /\ cfile' = cfile) \/ Save(Fresh(asked)))
      BY <2>1 DEF StartMesh
    <3>2. Cases' = << >>
      BY <1>0, <3>1 DEF Cases
    <3>3. QED
      BY <1>1, <1>2, <1>3, <3>1, <3>2 DEF Save
  <2>2. CASE StartTool(asked)
    <3>1. study = "tool" /\ csweep' = csweep
      BY <2>2 DEF StartTool
    <3>2. Len(csweep) <= Len(Axis)
      BY DEF StudyInv, StudyInvariant, ConvergenceTypeOK
    <3>3. CASE cpc' = "idle" /\ cmem' = cmem /\ cfile' = cfile
      BY <1>2, <3>1, <3>2, <3>3
    <3>4. CASE Save([Fresh(asked) EXCEPT !.status = "failed", !.quality = "failed"]) /\ cpc' = "idle"
      BY <1>1, <1>2, <3>1, <3>2, <3>4 DEF Save
    <3>5. CASE Save(Fresh(asked)) /\ cpc' = "cases"
      BY <1>0, <1>1, <1>2, <3>1, <3>2, <3>5 DEF Save, Cases
    <3>6. QED
      BY <2>2, <3>3, <3>4, <3>5 DEF StartTool, CReturn
  <2>3. QED
    BY <2>1, <2>2 DEF CCall
<1>5. ConvergenceTypeOK'
  BY <1>0, <1>4, StudyConstants DEF StudyInv, StudyInvariant, ConvergenceTypeOK
<1>6. PassedIsConverged'
  <2>1. CASE cfile' = cfile
    BY <1>0, <2>1 DEF StudyInv, StudyInvariant, PassedIsConverged
  <2>2. CASE cfile' # cfile
    BY <1>4, <2>2 DEF PassedIsConverged
  <2>3. QED
    BY <2>1, <2>2
<1>7. StudyIsItsSweep'
  BY <1>0, <1>4 DEF StudyIsItsSweep
<1>8. StudyCallInv'
  <2>1. CASE cpc' = "idle"
    BY <2>1 DEF StudyCallInv
  <2>2. CASE cpc' = "cases"
    <3>1. CasesBehind' = << >>
      BY <1>4, <2>2 DEF CasesBehind
    <3>2. Settled(CasesBehind)'
      BY <3>1 DEF Settled
    <3>3. QED
      BY <1>0, <1>3, <1>4, <2>2, <3>1, <3>2 DEF StudyCallInv
  <2>3. QED
    BY <1>4, <2>1, <2>2
<1>9. QED
  BY <1>5, <1>6, <1>7, <1>8 DEF StudyInv, StudyInvariant

LEMMA PlanCaseKeeps ==
  ASSUME StudyInv, PlanCase
  PROVE  StudyInv'
<1>1. cpc = "cases" /\ "planned" \in Outcome /\ CasesBehind = Cases /\ NoMetric \in Metrics \cup {NoMetric}
  BY DEF PlanCase, Outcome, CasesBehind
<1>2. QED
  BY <1>1, PutCasesKeeps DEF PlanCase

LEMMA EndCaseKeeps ==
  ASSUME StudyInv, EndCase
  PROVE  StudyInv'
<1>1. /\ cpc = "running" /\ "completed" \in Outcome /\ "failed" \in Outcome /\ NoMetric \in Metrics \cup {NoMetric}
      /\ CasesBehind = IF study = "mesh" THEN Front(csweep) ELSE cmem.cases
  BY DEF EndCase, StudyInv, StudyCallInv, Outcome, CasesBehind, Cases
<1>2. /\ UNCHANGED <<study, cflags, cdirs, ccalls, ccrashes>>
      /\ \/ \E metric \in Metrics \cup {NoMetric} : PutCases(Append(CasesBehind, CaseAt(Next_(CasesBehind), "completed", metric)))
         \/ PutCases(Append(CasesBehind, CaseAt(Next_(CasesBehind), "failed", NoMetric)))
  BY <1>1 DEF EndCase
<1>3. QED
  BY <1>1, <1>2, PutCasesKeeps

\* Front takes back what Append put there.
LEMMA FrontAppend ==
  ASSUME NEW S, NEW list \in Seq(S), NEW x \in S
  PROVE  Front(Append(list, x)) = list /\ Append(list, x) \in Seq(S) /\ Len(Append(list, x)) = Len(list) + 1
         /\ Append(list, x) # << >>
<1>1. Len(list) \in Nat /\ Append(list, x) \in Seq(S) /\ Len(Append(list, x)) = Len(list) + 1
      /\ \A n \in 1 .. Len(list) : Append(list, x)[n] = list[n]
  OBVIOUS
<1> DEFINE f == SubSeq(Append(list, x), 1, Len(list))
<1>2. f \in Seq(S) /\ Len(f) = Len(list) /\ \A n \in 1 .. Len(list) : f[n] = list[n]
  BY <1>1
<1> HIDE DEF f
<1>3. f = list
  BY <1>1, <1>2
<1>4. Front(Append(list, x)) = f
  BY <1>1 DEF Front, f
<1>5. Append(list, x) # << >>
  BY <1>1
<1>6. QED
  BY <1>1, <1>3, <1>4, <1>5

LEMMA StartCaseKeeps ==
  ASSUME StudyInv, StartCase
  PROVE  StudyInv'
<1> DEFINE n == Next_(Cases)
<1>0. /\ cpc = "cases" /\ Executes /\ CasesBehind = Cases /\ "failed" \in Outcome /\ NoMetric \in Metrics \cup {NoMetric}
      /\ UNCHANGED <<study, cflags, ccalls, ccrashes>>
  BY DEF StartCase, Outcome, CasesBehind
<1>1. CASE PutCases(Append(Cases, CaseAt(n, "failed", NoMetric))) /\ UNCHANGED cdirs
  BY <1>0, <1>1, PutCasesKeeps
<1>2. CASE /\ cdirs' = cdirs \cup {n} /\ cpc' = "running"
           /\ csweep' = IF study = "mesh" THEN Append(csweep, CaseAt(n, "running", NoMetric)) ELSE csweep
           /\ UNCHANGED <<cmem, cfile>>
  <2>1. /\ Cases \in Seq(Case) /\ Len(Cases) < Len(Axis) /\ Settled(Cases)
        /\ study = "tool" => cmem = cfile /\ cmem.quality = "none"
    BY <1>0 DEF StudyInv, StudyCallInv
  <2>2. n \in DOMAIN Axis /\ Len(Cases) \in Nat
    BY <2>1, StudyConstants DEF Next_
  <2>3. CaseAt(n, "running", NoMetric) \in Case
    BY <1>0, <2>2, CaseAtFacts
  <2> HIDE DEF n
  <2>4. study = "mesh" => /\ csweep = Cases /\ Front(csweep') = Cases /\ csweep' \in Seq(Case)
                          /\ Len(csweep') = Len(Cases) + 1 /\ csweep' # << >>
    BY <1>2, <2>1, <2>3, FrontAppend DEF Cases
  <2>5. csweep' \in Seq(Case) /\ Len(csweep') <= Len(Axis)
    <3>1. csweep \in Seq(Case) /\ Len(csweep) <= Len(Axis)
      BY DEF StudyInv, StudyInvariant, ConvergenceTypeOK
    <3>2. QED
      BY <1>2, <2>1, <2>2, <2>4, <3>1, StudyConstants
  <2>6. ConvergenceTypeOK'
    BY <1>0, <1>2, <2>2, <2>5 DEF StudyInv, StudyInvariant, ConvergenceTypeOK
  <2>7. CasesBehind' = Cases /\ Outcome' = Outcome /\ Executes' = Executes
    BY <1>0, <1>2, <2>4 DEF CasesBehind, Cases, Outcome, Executes
  <2>8. StudyCallInv'
    <3>1. Settled(CasesBehind)'
      BY <2>1, <2>7 DEF Settled
    <3>2. QED
      BY <1>0, <1>2, <2>1, <2>2, <2>4, <2>7, <3>1, StudyConstants DEF StudyCallInv
  <2>9. PassedIsConverged' /\ StudyIsItsSweep'
    BY <1>0, <1>2 DEF StudyInv, StudyInvariant, PassedIsConverged, StudyIsItsSweep
  <2>10. QED
    BY <2>6, <2>8, <2>9 DEF StudyInv, StudyInvariant
<1>3. QED
  BY <1>1, <1>2 DEF StartCase

LEMMA StudyCrashKeeps ==
  ASSUME StudyInv, CCrash
  PROVE  StudyInv'
<1>1. ConvergenceTypeOK'
  <2>1. ccrashes' \in 0 .. MaxStudyCrashes /\ ccrashes' # 0
    BY StudyConstants DEF StudyInv, StudyInvariant, ConvergenceTypeOK, CCrash
  <2>2. QED
    BY <2>1 DEF StudyInv, StudyInvariant, ConvergenceTypeOK, CCrash, CReturn
<1>2. PassedIsConverged'
  BY DEF StudyInv, StudyInvariant, PassedIsConverged, CCrash
<1>3. StudyIsItsSweep'
  <2>1. ccrashes' # 0
    BY StudyConstants DEF StudyInv, StudyInvariant, ConvergenceTypeOK, CCrash
  <2>2. QED
    BY <2>1 DEF StudyIsItsSweep
<1>4. StudyCallInv'
  BY DEF StudyCallInv, CCrash, CReturn
<1>5. QED
  BY <1>1, <1>2, <1>3, <1>4 DEF StudyInv, StudyInvariant

-----------------------------------------------------------------------------
\* The first of some positions in the order of the meshes.
LEMMA FinestFacts ==
  ASSUME NEW done \in Seq(Case), NEW P \in SUBSET (DOMAIN done), P # {}
  PROVE  Finest(done, P) \in P /\ \A m \in P \ {Finest(done, P)} : Finer(done, Finest(done, P), m)
<1>0. \A n \in P : n \in Nat /\ done[n].value \in Nat
  <2>1. \A c \in Case : c.value \in Nat
    BY StudyConstants DEF Case, ToSet
  <2>2. \A n \in P : n \in Nat /\ done[n] \in Case
    OBVIOUS
  <2>3. QED
    BY <2>1, <2>2
<1> DEFINE values == {done[n].value : n \in P}
<1>1. values \in SUBSET Nat /\ values # {}
  BY <1>0
<1>2. PICK v \in values : \A w \in values : v <= w
  BY <1>1, LeastNumber
<1> DEFINE firsts == {n \in P : done[n].value = v}
<1>3. firsts \in SUBSET Nat /\ firsts # {}
  BY <1>0, <1>2
<1>4. PICK n \in firsts : \A m \in firsts : n <= m
  BY <1>3, LeastNumber
<1>5. ASSUME NEW m \in P \ {n}
      PROVE  Finer(done, n, m)
  <2>1. v <= done[m].value /\ done[n].value = v /\ v \in Nat /\ done[m].value \in Nat /\ n \in Nat /\ m \in Nat /\ m # n
    BY <1>0, <1>1, <1>2, <1>4
  <2>2. CASE done[m].value = v
    BY <1>4, <2>1, <2>2 DEF Finer
  <2>3. CASE done[m].value # v
    BY <2>1, <2>3 DEF Finer
  <2>4. QED
    BY <2>2, <2>3
<1>6. n \in P
  BY <1>4
<1>7. QED
  BY <1>5, <1>6 DEF Finest

\* Two meshes below a third one count as two.
LEMMA TwoBelow ==
  ASSUME NEW done \in Seq(Case), NEW i \in DOMAIN done, NEW j \in DOMAIN done, NEW k \in DOMAIN done,
         done[i].value < done[k].value, done[j].value < done[k].value, done[i] # done[j]
  PROVE  ~(Cardinality({b \in ToSet(done) : b.value < done[k].value}) < 2)
<1> DEFINE below == {b \in ToSet(done) : b.value < done[k].value}
           two == {done[i], done[j]}
<1>1. IsFiniteSet(ToSet(done))
  <2>1. done \in Surjection(1 .. Len(done), ToSet(done))
    BY DEF Surjection, ToSet
  <2>2. IsFiniteSet(1 .. Len(done))
    BY FS_Interval
  <2>3. QED
    BY <2>1, <2>2, FS_Surjection
<1>2. two \subseteq below /\ below \subseteq ToSet(done)
  BY DEF ToSet
<1>3. IsFiniteSet(two) /\ Cardinality(two) = 2
  <2>1. IsFiniteSet({done[i]}) /\ Cardinality({done[i]}) = 1
    BY FS_Singleton
  <2>2. two = {done[i]} \cup {done[j]} /\ done[j] \notin {done[i]}
    OBVIOUS
  <2>3. IsFiniteSet({done[i]} \cup {done[j]}) /\ Cardinality({done[i]} \cup {done[j]}) = 1 + 1
    BY <2>1, <2>2, FS_AddElement
  <2>4. QED
    BY <2>2, <2>3
<1>4. IsFiniteSet(below)
  BY <1>1, <1>2, FS_Subset
<1>5. Cardinality(two) <= Cardinality(below) /\ Cardinality(below) \in Nat
  BY <1>2, <1>4, FS_Subset, FS_CardinalityType
<1>6. QED
  BY <1>3, <1>5

\* Deltas are symmetric, and none between a case and itself.
LEMMA DeltaFacts ==
  ASSUME NEW a \in Case, NEW b \in Case
  PROVE  Delta(a, b) = Delta(b, a) /\ Delta(a, a) = 0 /\ Delta(a, b) \in Int
<1>1. a.metric \in Int /\ b.metric \in Int
  <2>1. a.metric \in Metrics \cup {NoMetric} /\ b.metric \in Metrics \cup {NoMetric}
    BY DEF Case
  <2>2. Metrics \subseteq Int /\ NoMetric \in Int
    BY StudyConstants DEF NoMetric
  <2>3. QED
    BY <2>1, <2>2
<1>2. QED
  BY <1>1 DEF Delta

FineEnd(list) ==
    IF study = "tool"
    THEN LET done == Completed(list) IN {done[Len(done)], done[Len(done) - 1]}
    ELSE {c \in ToSet(Completed(list)) : Cardinality({b \in ToSet(Completed(list)) : b.value < c.value}) < 2}

\* What the report compares is all there is at the fine end.
LEMMA EndsAreCompared ==
  ASSUME DistinctMeshes, study \in Studies, NEW list \in Seq(Case), Len(list) = Len(Axis), Settled(list),
         ~(Len(Completed(list)) < 2)
  PROVE  /\ Compared(list)[1] \in Case /\ Compared(list)[2] \in Case
         /\ \A c \in FineEnd(list) : c = Compared(list)[1] \/ c = Compared(list)[2]
<1> DEFINE P == {n \in DOMAIN list : list[n].status = "completed" /\ list[n].metric # NoMetric}
           done == Completed(list)
<1>1. P \in SUBSET (DOMAIN list) /\ done = Selected(list, P)
  BY DEF Completed
<1> HIDE DEF P, done
<1>2. /\ done \in Seq(Case) /\ Len(done) \in Nat /\ DOMAIN done = 1 .. Len(done)
      /\ \A i \in DOMAIN done : Nth(P, i) \in P /\ done[i] = list[Nth(P, i)]
      /\ \A i, j \in DOMAIN done : Nth(P, i) = Nth(P, j) => i = j
  BY <1>1, SelectedFacts
<1>3. Len(done) >= 2 /\ 1 \in DOMAIN done /\ 2 \in DOMAIN done /\ Len(done) \in DOMAIN done /\ Len(done) - 1 \in DOMAIN done
  BY <1>2 DEF done
<1>4. CASE study = "tool"
  <2>1. Compared(list) = <<done[Len(done) - 1], done[Len(done)]>>
    BY <1>4 DEF Compared, done
  <2>2. FineEnd(list) = {done[Len(done)], done[Len(done) - 1]}
    BY <1>4 DEF FineEnd, done
  <2>3. QED
    BY <1>2, <1>3, <2>1, <2>2
<1>5. CASE study = "mesh"
  <2> DEFINE first == Finest(done, DOMAIN done)
             second == Finest(done, DOMAIN done \ {first})
  <2>1. Compared(list) = <<done[second], done[first]>>
    BY <1>5 DEF Compared, done
  <2>2. FineEnd(list) = {c \in ToSet(done) : Cardinality({b \in ToSet(done) : b.value < c.value}) < 2}
    BY <1>5 DEF FineEnd, done
  <2>3. first \in DOMAIN done /\ \A m \in DOMAIN done \ {first} : Finer(done, first, m)
    BY <1>2, <1>3, FinestFacts
  <2> HIDE DEF first
  <2>4. second \in DOMAIN done \ {first} /\ \A m \in (DOMAIN done \ {first}) \ {second} : Finer(done, second, m)
    <3>1. DOMAIN done \ {first} # {} /\ DOMAIN done \ {first} \in SUBSET (DOMAIN done)
      BY <1>3
    <3>2. QED
      BY <1>2, <3>1, FinestFacts
  <2> HIDE DEF second
  <2>5. \A i, j \in DOMAIN done : done[i].value = done[j].value => i = j
    <3>1. \A i, j \in DOMAIN Axis : Axis[i] = Axis[j] => i = j
      BY <1>5 DEF DistinctMeshes
    <3>2. DOMAIN list = DOMAIN Axis
      BY StudyConstants
    <3>3. \A i \in DOMAIN done : Nth(P, i) \in DOMAIN Axis /\ done[i].value = Axis[Nth(P, i)]
      BY <1>1, <1>2, <3>2 DEF Settled
    <3>4. QED
      BY <1>2, <3>1, <3>3
  <2>6. ASSUME NEW c \in FineEnd(list)
        PROVE  c = done[second] \/ c = done[first]
    <3>1. PICK k \in DOMAIN done : c = done[k]
      BY <2>2 DEF ToSet
    <3>2. CASE k # first /\ k # second
      <4>1. Finer(done, first, k) /\ Finer(done, second, k)
        BY <2>3, <2>4, <3>2
      <4>2. done[first].value < done[k].value /\ done[second].value < done[k].value
        BY <2>3, <2>4, <2>5, <3>2, <4>1 DEF Finer
      <4>3. done[first] # done[second]
        BY <2>3, <2>4, <2>5
      <4>4. ~(Cardinality({b \in ToSet(done) : b.value < done[k].value}) < 2)
        <5> HIDE DEF done
        <5>1. first \in DOMAIN done /\ second \in DOMAIN done
          BY <2>3, <2>4
        <5>2. QED
          BY <1>2, <3>1, <4>2, <4>3, <5>1, TwoBelow
      <4>5. QED
        BY <2>2, <3>1, <4>4
    <3>3. QED
      BY <3>1, <3>2
  <2>7. QED
    BY <1>2, <2>1, <2>3, <2>4, <2>6
<1>6. QED
  BY <1>4, <1>5, StudyConstants

\* A study that is over passes only when it converged.
LEMMA PassedFacts ==
  ASSUME DistinctMeshes, study \in Studies, NEW list \in Seq(Case), Len(list) = Len(Axis), Settled(list),
         Quality(list) = "passed"
  PROVE  /\ Executes /\ \A n \in DOMAIN list : list[n].status = "completed"
         /\ \A a, b \in FineEnd(list) : Delta(a, b) <= Tolerance
<1>1. /\ Executes /\ ~(Len(Completed(list)) < 2)
      /\ ~(Delta(Compared(list)[1], Compared(list)[2]) > Tolerance)
      /\ \A n \in DOMAIN list : list[n].status # "failed"
  BY DEF Quality
<1>2. \A n \in DOMAIN list : list[n].status = "completed"
  BY <1>1 DEF Settled, Outcome
<1> DEFINE x == Compared(list)[1]
           y == Compared(list)[2]
<1>3. x \in Case /\ y \in Case /\ \A c \in FineEnd(list) : c = x \/ c = y
  BY <1>1, EndsAreCompared
<1> HIDE DEF x, y
<1>4. /\ Delta(x, y) = Delta(y, x) /\ Delta(x, x) = 0 /\ Delta(y, y) = 0 /\ Delta(x, y) \in Int
  BY <1>3, DeltaFacts
<1>5. Delta(x, y) <= Tolerance /\ Delta(y, x) <= Tolerance /\ Delta(x, x) <= Tolerance /\ Delta(y, y) <= Tolerance
  BY <1>1, <1>4, StudyConstants DEF x, y
<1>6. \A a, b \in FineEnd(list) : Delta(a, b) <= Tolerance
  BY <1>3, <1>5
<1>7. QED
  BY <1>1, <1>2, <1>6

LEMMA CloseKeeps ==
  ASSUME DistinctMeshes, StudyInv, Close
  PROVE  StudyInv'
<1> DEFINE q == Quality(Cases)
           e == Executes
           s == Status(q)
           list == Cases
<1>0. /\ cpc = "closing" /\ cpc' = "idle" /\ UNCHANGED <<study, csweep, cflags, cdirs, ccalls, ccrashes>>
      /\ cmem' = [cmem EXCEPT !.execute = e, !.cases = list, !.quality = q, !.status = s] /\ cfile' = cmem'
  BY DEF Close, Save, CReturn
<1>1. /\ list \in Seq(Case) /\ Len(list) = Len(Axis) /\ Settled(list)
  BY <1>0 DEF StudyInv, StudyCallInv, CasesBehind
<1>2. cmem \in StudyState /\ study \in Studies
  BY DEF StudyInv, StudyInvariant, ConvergenceTypeOK
<1>3. q \in Qualities /\ s \in {"absent", "planned", "completed", "failed"} /\ e \in BOOLEAN
  BY DEF Quality, Qualities, Status, Executes
<1>4. q = "passed" => /\ e /\ \A n \in DOMAIN list : list[n].status = "completed"
                      /\ \A a, b \in FineEnd(list) : Delta(a, b) <= Tolerance
  BY <1>1, <1>2, PassedFacts
<1> HIDE DEF q, e, s, list
<1>5. /\ cfile' \in StudyState /\ cfile'.execute = e /\ cfile'.cases = list /\ cfile'.quality = q
  BY <1>0, <1>1, <1>2, <1>3 DEF StudyState
<1>6. ConvergenceTypeOK'
  BY <1>0, <1>5 DEF StudyInv, StudyInvariant, ConvergenceTypeOK
<1>7. PassedIsConverged'
  <2> DEFINE completed == Completed(list)
  <2>1. study' = study /\ Completed(list) = Completed(cfile'.cases)
    BY <1>0, <1>5
  <2>2. SUFFICES ASSUME q = "passed"
                 PROVE  LET ends == IF study = "tool"
                                    THEN {completed[Len(completed)], completed[Len(completed) - 1]}
                                    ELSE {c \in ToSet(Completed(list)) :
                                            Cardinality({b \in ToSet(Completed(list)) : b.value < c.value}) < 2}
                        IN  \A a, b \in ends : Delta(a, b) <= Tolerance
    BY <1>1, <1>4, <1>5, <2>1 DEF PassedIsConverged
  <2>3. QED
    BY <1>4, <2>2 DEF FineEnd
<1>8. StudyIsItsSweep'
  BY <1>0, <1>5 DEF StudyIsItsSweep, list, Cases
<1>9. StudyCallInv'
  BY <1>0 DEF StudyCallInv
<1>10. QED
  BY <1>6, <1>7, <1>8, <1>9 DEF StudyInv, StudyInvariant

LEMMA StudyInductive == DistinctMeshes /\ StudyInv /\ [ConvergenceNext]_cvars => StudyInv'
<1> SUFFICES ASSUME DistinctMeshes, StudyInv, [ConvergenceNext]_cvars
             PROVE  StudyInv'
  OBVIOUS
<1>1. CASE \E asked \in Asks : CCall(asked)
  BY <1>1, StudyCallKeeps
<1>2. CASE CWork
  BY <1>2, PlanCaseKeeps, StartCaseKeeps, EndCaseKeeps, CloseKeeps DEF CWork
<1>3. CASE CCrash
  BY <1>3, StudyCrashKeeps
<1>4. CASE UNCHANGED cvars
  BY <1>4 DEF cvars, StudyInv, StudyInvariant, ConvergenceTypeOK, PassedIsConverged, StudyIsItsSweep, StudyCallInv,
              CasesBehind, Cases, Settled, Outcome, Executes
<1>5. QED
  BY <1>1, <1>2, <1>3, <1>4 DEF ConvergenceNext

\* A study that passed converged, on the sweep it was made from
\* (mesh_convergence, tool_convergence), when the meshes asked for differ.
THEOREM StudiesConverge == DistinctMeshes => (ConvergenceSpec => []StudyInvariant)
<1> SUFFICES ASSUME DistinctMeshes PROVE ConvergenceSpec => []StudyInvariant
  OBVIOUS
<1>1. StudyInv /\ [ConvergenceNext]_cvars => StudyInv'
  BY StudyInductive
<1>2. StudyInv => StudyInvariant
  BY DEF StudyInv
<1>3. QED
  BY <1>1, <1>2, StudyInitially, PTL DEF ConvergenceSpec

-----------------------------------------------------------------------------
(***************************************************************************)
(* All the subjects together, as the runs check them: a call of one leaves *)
(* what the others keep alone.                                             *)
(***************************************************************************)
DiodeAside == ddir = FALSE /\ dfile = "absent" /\ inner = FALSE /\ dpc = "idle" /\ dret = "none"
TaskAside == task = FALSE /\ tfile = "absent" /\ flags = {} /\ tpc = "idle" /\ tret = "none"

RunsInv ==
    /\ SweepInv
    /\ subject = "diode" => DiodeInv
    /\ subject # "diode" => DiodeAside
    /\ subject = "task" => TaskInv
    /\ subject # "task" => TaskAside

ToolsInv == RunsInv /\ ProcessInv /\ DeviceInv /\ SentaurusInv /\ SearchInv /\ StudyInv

\* A wrapper that was never called says nothing.
LEMMA AsideHolds ==
  /\ DiodeAside => DiodeInvariant
  /\ TaskAside => TaskInvariant
<1>1. ASSUME DiodeAside PROVE DiodeInvariant
  <2>1. ddir \in BOOLEAN /\ inner \in BOOLEAN
    BY <1>1, Zenon DEF DiodeAside
  <2>2. QED
    BY <1>1, <2>1 DEF DiodeAside, DiodeInvariant, DiodeTypeOK, DiodeRestsOnPN, DiodeFollowsPN
<1>2. ASSUME TaskAside PROVE TaskInvariant
  <2>1. task \in BOOLEAN
    BY <1>2, Zenon DEF TaskAside
  <2>2. QED
    BY <1>2, <2>1 DEF TaskAside, TaskInvariant, TaskTypeOK, TaskStatuses, TaskRestsOnRun, TaskResumes
<1>3. QED
  BY <1>1, <1>2

\* No process is watched: the call is over, and had no deadline.
LEMMA RestingProcess ==
  ASSUME NoTimeout \in Timeouts, ProcessRests
  PROVE  ProcessInv
<1> USE DEF ProcessRests
<1>1. ProcessTypeOK
  <2>1. {held, deaf, token, seen} \subseteq BOOLEAN
    BY Zenon
  <2>2. result \in Result
    BY DEF Result
  <2>3. clock \in 0 .. MaxClock /\ patience \in 0 .. Grace
    BY ClockLimit
  <2>4. QED
    BY <2>1, <2>2, <2>3 DEF ProcessTypeOK, NoTimeout
<1>2. CancelIsNonzero /\ NoChildLeft /\ StoppedInTime /\ ClockInv
  BY DEF CancelIsNonzero, NoChildLeft, StoppedInTime, ClockInv, NoTimeout
<1>3. QED
  BY <1>1, <1>2 DEF ProcessInv, ProcessInvariant

LEMMA ToolsInitially == NoTimeout \in Timeouts /\ ToolsInit => ToolsInv
<1> SUFFICES ASSUME NoTimeout \in Timeouts, ToolsInit
             PROVE  ToolsInv
  OBVIOUS
<1>1. DiodeInv /\ DiodeAside /\ TaskInv /\ TaskAside
  BY DiodeInitially, TaskInitially DEF ToolsInit, DiodeInit, TaskInit, DiodeAside, TaskAside
<1>2. ProcessInv
  BY ProcessInitially, RestingProcess DEF ToolsInit
<1>3. DeviceInv /\ SentaurusInv /\ SearchInv /\ StudyInv
  BY DeviceInitially, SentaurusInitially, SearchInitially, StudyInitially DEF ToolsInit
<1>4. QED
  BY <1>1, <1>2, <1>3 DEF ToolsInv, RunsInv, DiodeInv

\* What a call of another subject leaves alone.
LEMMA RunsKept ==
  ASSUME RunsInv, UNCHANGED <<subject, vars, dvars, tvars>>
  PROVE  RunsInv'
<1>1. SweepInv'
  BY CallsKept, Kept DEF RunsInv, vars
<1>2. subject = "diode" => DiodeInv'
  BY DiodeStep DEF RunsInv
<1>3. subject = "task" => TaskInv'
  BY TaskStep DEF RunsInv
<1>4. QED
  BY <1>1, <1>2, <1>3 DEF RunsInv, DiodeAside, TaskAside, dvars, tvars

LEMMA RunsStep ==
  ASSUME RunsInv, subject' = subject,
         \/ subject = "sweep" /\ Next /\ UNCHANGED <<dvars, tvars>>
         \/ subject = "diode" /\ DiodeNext /\ UNCHANGED tvars
         \/ subject = "task" /\ TaskNext /\ UNCHANGED dvars
  PROVE  RunsInv'
<1>1. CASE subject = "sweep" /\ Next /\ UNCHANGED <<dvars, tvars>>
  <2>1. SweepInv'
    BY <1>1, SweepStep DEF RunsInv
  <2>2. QED
    BY <1>1, <2>1 DEF RunsInv, DiodeAside, TaskAside, dvars, tvars
<1>2. CASE subject = "diode" /\ DiodeNext /\ UNCHANGED tvars
  <2>1. DiodeInv'
    BY <1>2, DiodeStep DEF RunsInv
  <2>2. QED
    BY <1>2, <2>1 DEF RunsInv, DiodeInv, TaskAside, tvars
<1>3. CASE subject = "task" /\ TaskNext /\ UNCHANGED dvars
  <2>1. TaskInv'
    BY <1>3, TaskStep DEF RunsInv
  <2>2. QED
    BY <1>3, <2>1 DEF RunsInv, TaskInv, DiodeAside, dvars
<1>4. QED
  BY <1>1, <1>2, <1>3

LEMMA ToolsStep == DistinctMeshes /\ ToolsInv /\ [ToolsNext]_everything => ToolsInv'
<1> SUFFICES ASSUME DistinctMeshes, ToolsInv, [ToolsNext]_everything
             PROVE  ToolsInv'
  OBVIOUS
<1> USE DEF ToolsInv
<1>1. CASE \/ Is("sweep") /\ Next /\ UNCHANGED <<dvars, tvars>> /\ NoOther
           \/ Is("diode") /\ DiodeNext /\ UNCHANGED tvars /\ NoOther
           \/ Is("task") /\ TaskNext /\ UNCHANGED dvars /\ NoOther
  <2>1. RunsInv'
    BY <1>1, RunsStep DEF Is
  <2>2. UNCHANGED <<pvars, evars, sentVars, ovars, cvars>>
    BY <1>1 DEF NoOther
  <2>3. QED
    BY <2>1, <2>2, ProcessStep, DeviceInductive, SentaurusInductive, SearchInductive, StudyInductive
<1>2. CASE /\ UNCHANGED <<subject, vars, dvars, tvars>>
           /\ [ProcessNext]_pvars /\ [ExtendedNext]_evars /\ [SentaurusNext]_sentVars
           /\ [OptimizerNext]_ovars /\ [ConvergenceNext]_cvars
  BY <1>2, RunsKept, ProcessStep, DeviceInductive, SentaurusInductive, SearchInductive, StudyInductive
<1>3. QED
  BY <1>1, <1>2 DEF ToolsNext, Is, NoSweep_, everything

\* Whichever subject is called, however often it dies: runs, their wrappers,
\* watched processes, studies, searches, devices and Sentaurus projects keep what
\* they promise, and nothing one of them does disturbs another.  The instance
\* needs a process without a deadline, which the subjects that watch none leave
\* in its place, and a study meshes that differ.
THEOREM ToolsKeepTheirPromises ==
  NoTimeout \in Timeouts /\ DistinctMeshes =>
      (ToolsSpec => [](/\ SweepInvariant /\ WrapperInvariant /\ ProcessInvariant
                       /\ CampaignInvariant /\ DeviceInvariant /\ SentaurusInvariant))
<1> SUFFICES ASSUME NoTimeout \in Timeouts, DistinctMeshes
             PROVE  ToolsSpec => [](/\ SweepInvariant /\ WrapperInvariant /\ ProcessInvariant
                                    /\ CampaignInvariant /\ DeviceInvariant /\ SentaurusInvariant)
  OBVIOUS
<1>1. ToolsInit => ToolsInv
  BY ToolsInitially
<1>2. ToolsInv => /\ SweepInvariant /\ WrapperInvariant /\ ProcessInvariant
                  /\ CampaignInvariant /\ DeviceInvariant /\ SentaurusInvariant
  BY AsideHolds, SearchPromised
     DEF ToolsInv, RunsInv, SweepInv, DiodeInv, TaskInv, ProcessInv, DeviceInv, SentaurusInv,
         StudyInv, WrapperInvariant, CampaignInvariant
<1>3. ToolsInv /\ [ToolsNext]_everything => ToolsInv'
  BY ToolsStep
<1>4. QED
  BY <1>1, <1>2, <1>3, PTL DEF ToolsSpec

\* Searches and studies keep their promises whichever subject is called: a search
\* its budgets, its points and its best, a study its sweep and, over meshes that
\* differ, its verdict.  A timeout or the lack of one does not matter to them.
THEOREM CampaignsKeepTheirPromises == DistinctMeshes => (ToolsSpec => []CampaignInvariant)
<1> SUFFICES ASSUME DistinctMeshes PROVE ToolsSpec => []CampaignInvariant
  OBVIOUS
<1> DEFINE CampaignInv == SearchInv /\ StudyInv
<1>1. ToolsInit => CampaignInv
  BY SearchInitially, StudyInitially DEF ToolsInit
<1>2. [ToolsNext]_everything => [OptimizerNext]_ovars /\ [ConvergenceNext]_cvars
  BY DEF ToolsNext, NoOther, everything
<1>3. CampaignInv /\ [ToolsNext]_everything => CampaignInv'
  BY <1>2, SearchInductive, StudyInductive
<1>4. CampaignInv => CampaignInvariant
  BY SearchPromised DEF StudyInv, CampaignInvariant
<1> HIDE DEF CampaignInv
<1>5. QED
  BY <1>1, <1>3, <1>4, PTL DEF ToolsSpec

\* Whoever is called, a search keeps the observations that completed and a formula
\* called again loses its result to an exception outside of it only; nothing is
\* assumed of the instance.
THEOREM ResultsStay == ToolsSpec => ResultsAreKept
<1> DEFINE ResultInv == SearchInv /\ DeviceInv
<1>1. ToolsInit => ResultInv
  BY SearchInitially, DeviceInitially DEF ToolsInit
<1>2. [ToolsNext]_everything => [OptimizerNext]_ovars /\ [ExtendedNext]_evars
  BY DEF ToolsNext, NoOther, everything
<1>3. ResultInv /\ [ToolsNext]_everything => ResultInv' /\ CompletedKept /\ FormulaRepeats
  BY <1>2, SearchInductive, DeviceInductive, CompletedStepwise, FormulaStepwise
<1> HIDE DEF ResultInv
<1>4. QED
  BY <1>1, <1>3, PTL DEF ToolsSpec, ResultsAreKept
=============================================================================
