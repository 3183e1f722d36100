--------------------------- MODULE AgentSoakProofs ---------------------------
(***************************************************************************)
(* Proofs about AgentSoak, for every set of requests and reasons and every *)
(* value of the limits.                                                    *)
(***************************************************************************)
EXTENDS AgentSoak, TLAPS

AtWork == {"top", "cycle", "judge"}

\* What the files say of each other, wherever the process is or dies: the soak
\* never knows of more steps than the agent took, a cycle has a step to take,
\* a soak at work has not ended, and an agent that failed says why.
FileInv ==
    /\ file.steps <= agent.steps /\ soak.steps <= agent.steps
    /\ pc = "cycle" /\ agent.status # "torn" => agent.steps < cap
    /\ pc \in AtWork => soak.status = "running" /\ file.status = "running"
    /\ file.status = "completed" => agent.status = "completed"
    /\ agent.status = "failed" => agent.reason \in Families

\* Every retry was counted and the count is in the file, where a later launch
\* finds it.
RetryInv ==
    \A f \in Families :
        /\ retries[f] <= file.seen[f]
        /\ pc # "off" => retries[f] <= soak.seen[f]

\* How a soak ends; see EndMatchesAgent.
EndInv ==
    pc \in {"remember", "finish"} =>
        /\ soak.status = "completed" => agent.status = "completed"
        /\ soak.status = "failed" =>
              \/ error # "none"
              \/ agent.status = "failed" /\ agent.reason # "step_slice_exhausted"
        /\ soak.status = "max_steps_reached" => agent.steps = MaxSteps

Inv == TypeOK /\ FileInv /\ RetryInv /\ EndInv

AgentState ==
    [status : AgentStatuses, reason : Families \cup {"none"}, steps : 0 .. MaxSteps,
     guided : 0 .. MaxGuided]

-----------------------------------------------------------------------------
LEMMA Limits ==
  /\ MaxSteps \in Nat \ {0} /\ Slice \in Nat \ {0}
  /\ MaxAttempts \in Nat /\ MaxGuided \in Nat /\ MaxLaunches \in Nat
  BY LimitAssumption

\* The states a process may begin with.
LEMMA NewStates ==
  /\ Fresh \in SoakState /\ NoState \in SoakState
  /\ Fresh.status = "running" /\ NoState.status = "absent"
  /\ Fresh.steps = 0 /\ NoState.steps = 0
  /\ \A f \in Families : Fresh.seen[f] = 0 /\ NoState.seen[f] = 0
<1>1. [f \in Families |-> 0] \in [Families -> 0 .. MaxAttempts] BY Limits
<1>2. Fresh \in SoakState BY <1>1, Limits DEF Fresh, SoakState, SoakStatuses
<1>3. NoState \in SoakState BY <1>2 DEF NoState, SoakState, SoakStatuses
<1>4. QED BY <1>2, <1>3 DEF Fresh, NoState

\* Another status is all that Leave, Conclude and a resume change.
LEMMA StatusOnly ==
  ASSUME NEW s \in SoakState, NEW status \in SoakStatuses
  PROVE  LET t == [s EXCEPT !.status = status]
         IN  t \in SoakState /\ t.status = status /\ t.steps = s.steps /\ t.seen = s.seen
  BY DEF SoakState

\* An event is counted, exactly unless the family is used up.
LEMMA SeenType ==
  ASSUME soak \in SoakState, NEW family \in Families
  PROVE  /\ Seen(family) \in [Families -> 0 .. MaxAttempts]
         /\ \A f \in Families : soak.seen[f] <= Seen(family)[f]
         /\ ~Spent(family) => Seen(family)[family] = soak.seen[family] + 1
<1>1. soak.seen \in [Families -> 0 .. MaxAttempts] BY DEF SoakState
<1>2. \A f \in Families : soak.seen[f] \in 0 .. MaxAttempts BY <1>1
<1>3. MaxAttempts \in Nat BY Limits
<1>4. QED BY <1>1, <1>2, <1>3 DEF Seen, Spent

LEMMA SliceEndType ==
  ASSUME NEW n \in 0 .. MaxSteps, n < MaxSteps
  PROVE  SliceEnd(n) \in 0 .. MaxSteps /\ n < SliceEnd(n)
  BY Limits DEF SliceEnd

LEMMA InvInit == Init => Inv
<1> SUFFICES ASSUME Init PROVE Inv OBVIOUS
<1> USE DEF Init
<1>a. agent \in AgentState
  BY Limits DEF NoAgent, AgentState, AgentStatuses
<1>b. retries \in [Families -> Nat] OBVIOUS
<1>c. asks \in SUBSET Options /\ token \in BOOLEAN /\ late \in BOOLEAN OBVIOUS
<1>d. /\ cap \in 0 .. MaxSteps /\ launches \in 0 .. MaxLaunches
      /\ memories \in Nat /\ losses \in Nat
  BY Limits
<1>1. TypeOK
  BY <1>a, <1>b, <1>c, <1>d, NewStates DEF TypeOK, AgentState
<1>2. FileInv BY NewStates DEF FileInv, NoAgent, AtWork
<1>3. RetryInv BY NewStates, <1>b DEF RetryInv
<1>4. QED BY <1>1, <1>2, <1>3 DEF Inv, EndInv

-----------------------------------------------------------------------------
(***************************************************************************)
(* The steps, by what they touch.                                          *)
(***************************************************************************)
\* The process ends its loop: the files and the history stay.
LEMMA LeaveStep ==
  ASSUME Inv, pc = "top",
         \/ Leave("cancelled") \/ Leave("timed_out")
         \/ Leave("max_steps_reached") /\ ExistingSteps >= MaxSteps
  PROVE  Inv'
<1> USE DEF Inv
<1>1. PICK status \in {"cancelled", "timed_out", "max_steps_reached"} :
         Leave(status) /\ (status = "max_steps_reached" => ExistingSteps >= MaxSteps)
  OBVIOUS
<1>2. /\ soak' \in SoakState /\ soak'.status = status
      /\ soak'.steps = soak.steps /\ soak'.seen = soak.seen
  <2>1. status \in SoakStatuses /\ soak \in SoakState
    BY DEF SoakStatuses, TypeOK
  <2>2. soak' = [soak EXCEPT !.status = status]
    BY <1>1 DEF Leave
  <2>3. QED
    BY <2>1, <2>2, StatusOnly
<1>3. UNCHANGED <<asks, file, agent, cap, error, retries, outside>> /\ pc' = "remember"
  BY <1>1 DEF Leave
<1>4. TypeOK'
  BY <1>2, <1>3 DEF TypeOK, outside
<1>5. FileInv'
  BY <1>2, <1>3 DEF FileInv, AtWork
<1>6. RetryInv'
  BY <1>2, <1>3 DEF RetryInv
<1>7. status = "max_steps_reached" => agent.steps = MaxSteps
  BY <1>1, Limits DEF ExistingSteps, TypeOK, SoakState, FileInv
<1>8. EndInv'
  BY <1>1, <1>2, <1>3, <1>7 DEF EndInv
<1>9. QED
  BY <1>4, <1>5, <1>6, <1>8

\* A cycle begins with a step to take.
LEMMA BeginStep ==
  ASSUME Inv, BeginCycle
  PROVE  Inv'
<1> USE DEF Inv, BeginCycle
<1>1. ExistingSteps \in 0 .. MaxSteps /\ ExistingSteps < MaxSteps
  BY Limits DEF ExistingSteps, TypeOK, SoakState
<1>2. cap' \in 0 .. MaxSteps /\ ExistingSteps < cap'
  BY <1>1, SliceEndType
<1>3. TypeOK'
  BY <1>2 DEF TypeOK, outside
<1>4. FileInv' /\ RetryInv' /\ EndInv'
  BY <1>2 DEF FileInv, RetryInv, EndInv, ExistingSteps, AtWork
<1>5. QED
  BY <1>3, <1>4

\* The run of the agent adds steps, within those it was given.
LEMMA ReturnStep ==
  ASSUME Inv,
         NEW status \in AgentStatuses, NEW reason \in Families \cup {"none"},
         NEW steps \in 0 .. MaxSteps, NEW guided \in 0 .. MaxGuided,
         agent.steps <= steps, status = "failed" => reason \in Families,
         AgentReturns(status, reason, steps, guided)
  PROVE  Inv'
<1> USE DEF Inv, AgentReturns
<1>1. /\ agent' \in AgentState /\ agent'.steps = steps
      /\ agent'.status = status /\ agent'.reason = reason
  BY DEF AgentState
<1>2. TypeOK'
  BY <1>1, Limits DEF TypeOK, AgentState, outside
<1>3. file.steps <= steps /\ soak.steps <= steps
  BY Limits DEF TypeOK, SoakState, FileInv
<1>4. FileInv'
  BY <1>1, <1>3 DEF FileInv, AtWork
<1>5. RetryInv' /\ EndInv'
  BY DEF RetryInv, EndInv
<1>6. QED
  BY <1>2, <1>4, <1>5

LEMMA RunStep ==
  ASSUME Inv, RunAgent
  PROVE  Inv'
<1>1. cap \in 0 .. MaxSteps /\ agent.steps \in 0 .. MaxSteps /\ agent.guided \in 0 .. MaxGuided
  BY DEF Inv, TypeOK
<1>2. ASSUME NEW n \in Progress
      PROVE  n \in 0 .. MaxSteps /\ agent.steps <= n
  BY DEF Progress
<1>3. ASSUME NEW n, NEW g \in Guided(n) PROVE g \in 0 .. MaxGuided
  BY DEF Guided
<1>4. CASE AgentCompletes
  BY <1>2, <1>3, <1>4, ReturnStep DEF AgentCompletes, AgentStatuses
<1>5. CASE AgentPauses
  BY <1>2, <1>3, <1>5, ReturnStep DEF AgentPauses, AgentStatuses
<1>6. CASE AgentObeysCancel
  BY <1>2, <1>3, <1>6, ReturnStep DEF AgentObeysCancel, AgentStatuses
<1>7. CASE AgentFails
  BY <1>2, <1>3, <1>7, ReturnStep, RequestAssumption DEF AgentFails, AgentStatuses
<1>8. agent.status # "torn" /\ pc = "cycle" => agent.steps < cap
  BY DEF Inv, FileInv
<1>9. CASE AgentUsesSlice
  <2>1. agent.steps < cap
    BY <1>8, <1>9 DEF AgentUsesSlice, AgentReturns, CannotStart
  <2>2. PICK g \in Guided(cap) : AgentReturns("failed", "step_slice_exhausted", cap, g)
    BY <1>9 DEF AgentUsesSlice
  <2>3. agent.steps <= cap
    BY <2>1, <1>1
  <2>4. QED
    BY <1>1, <1>3, <2>2, <2>3, ReturnStep DEF AgentStatuses, Families
<1>10. CASE AgentPlans
  <2>1. agent.steps < cap
    BY <1>8, <1>10 DEF AgentPlans, AgentReturns, CannotStart
  <2>2. agent.steps + 1 \in 0 .. MaxSteps /\ agent.steps <= agent.steps + 1
    BY <1>1, <2>1, Limits
  <2>3. AgentReturns("planned", "none", agent.steps + 1, agent.guided)
    BY <1>10 DEF AgentPlans
  <2>4. QED
    BY <1>1, <2>2, <2>3, ReturnStep DEF AgentStatuses
<1>11. CASE AgentRaises
  <2>1. /\ error' \in {"llm_schema", "unknown"} /\ cap' = 0 /\ pc' = "judge"
        /\ UNCHANGED <<asks, soak, file, agent, retries, outside>>
    BY <1>11 DEF AgentRaises
  <2>2. TypeOK'
    BY <2>1, Limits DEF Inv, TypeOK, outside
  <2>3. FileInv' /\ RetryInv' /\ EndInv'
    BY <2>1, <1>11 DEF AgentRaises, Inv, FileInv, RetryInv, EndInv, AtWork
  <2>4. QED
    BY <2>2, <2>3 DEF Inv
<1>12. QED
  BY <1>4, <1>5, <1>6, <1>7, <1>9, <1>10, <1>11 DEF RunAgent, Inv

-----------------------------------------------------------------------------
(***************************************************************************)
(* What follows from a run.                                                *)
(***************************************************************************)
\* The process tries again: the event it counted is in the file.
LEMMA RetryStep ==
  ASSUME Inv, pc = "judge", NEW family \in Families, ~Spent(family),
         NEW known \in SoakState,
         known.status = "running", known.steps <= agent.steps, known.seen = Seen(family),
         Retry(known, family),
         UNCHANGED <<asks, agent, cap, outside>>
  PROVE  Inv'
<1> USE DEF Inv, Retry
<1>1. soak \in SoakState /\ retries \in [Families -> Nat]
  BY DEF TypeOK
<1>2. /\ Seen(family) \in [Families -> 0 .. MaxAttempts]
      /\ \A f \in Families : soak.seen[f] <= Seen(family)[f]
      /\ Seen(family)[family] = soak.seen[family] + 1
  BY <1>1, SeenType
<1>3. retries' \in [Families -> Nat]
  BY <1>1
<1>4. TypeOK'
  BY <1>3 DEF TypeOK, outside
<1>5. FileInv'
  BY DEF FileInv, AtWork
<1>6. ASSUME NEW f \in Families PROVE retries'[f] <= Seen(family)[f]
  <2>1. retries[f] <= soak.seen[f]
    BY DEF RetryInv
  <2>2. /\ retries[f] \in Nat /\ soak.seen[f] \in 0 .. MaxAttempts
        /\ Seen(family)[f] \in 0 .. MaxAttempts
    BY <1>1, <1>2 DEF SoakState
  <2>3. CASE f = family
    BY <1>1, <1>2, <2>1, <2>2, <2>3, Limits
  <2>4. CASE f # family
    BY <1>1, <1>2, <2>1, <2>2, <2>4, Limits
  <2>5. QED
    BY <2>3, <2>4
<1>7. RetryInv' /\ EndInv'
  BY <1>6 DEF RetryInv, EndInv
<1>8. QED
  BY <1>4, <1>5, <1>7

\* What it learnt is saved, with the end it means if it means one.
LEMMA ConcludeStep ==
  ASSUME Inv, pc = "judge", NEW known \in SoakState, NEW status \in SoakStatuses,
         known.steps <= agent.steps,
         \A f \in Families : soak.seen[f] <= known.seen[f],
         status = "completed" => agent.status = "completed",
         status = "failed" => agent.status = "failed" /\ agent.reason # "step_slice_exhausted",
         status = "max_steps_reached" => agent.steps = MaxSteps,
         Conclude(known, status),
         UNCHANGED <<asks, agent, cap, outside>>
  PROVE  Inv'
<1> USE DEF Inv, Conclude
<1>1. /\ soak' \in SoakState /\ soak'.status = status
      /\ soak'.steps = known.steps /\ soak'.seen = known.seen
  BY StatusOnly
<1>2. TypeOK'
  BY <1>1 DEF TypeOK, outside
<1>3. FileInv'
  BY <1>1 DEF FileInv, AtWork
<1>4. ASSUME NEW f \in Families PROVE retries[f] <= known.seen[f]
  <2>1. retries[f] \in Nat /\ soak.seen[f] \in 0 .. MaxAttempts /\ known.seen[f] \in 0 .. MaxAttempts
    BY DEF TypeOK, SoakState
  <2>2. retries[f] <= soak.seen[f] /\ soak.seen[f] <= known.seen[f]
    BY DEF RetryInv
  <2>3. QED
    BY <2>1, <2>2, Limits
<1>5. RetryInv' /\ EndInv'
  BY <1>1, <1>4 DEF RetryInv, EndInv
<1>6. QED
  BY <1>2, <1>3, <1>5

\* The agent returned: the cases of Judge, in their order.
LEMMA JudgeStep ==
  ASSUME Inv, Judge
  PROVE  Inv'
<1> USE DEF Inv
<1> DEFINE end == terminal_soak_status
           family == classify_failure_family(agent.reason, agent.steps)
           seen == IF end = "failed" THEN Seen(family) ELSE soak.seen
           known == [soak EXCEPT !.steps = agent.steps,
                                 !.seen = IF end = "failed" THEN Seen(family) ELSE @]
<1>1. /\ pc = "judge" /\ UNCHANGED <<asks, agent, cap, outside>>
      /\ soak.status = "running" /\ soak \in SoakState
      /\ agent.steps \in 0 .. MaxSteps /\ agent.status \in AgentStatuses
  BY DEF Judge, FileInv, AtWork, TypeOK
<1>2. /\ end \in {"completed", "waiting", "cancelled", "failed", "none"}
      /\ end = "completed" => agent.status = "completed"
      /\ end = "failed" => agent.status = "failed" /\ agent.reason # "step_slice_exhausted"
  BY DEF terminal_soak_status
<1>3. end = "failed" => family \in Families
  BY <1>2 DEF classify_failure_family, FileInv, Families
<1>4. known = [soak EXCEPT !.steps = agent.steps, !.seen = seen]
  BY <1>1 DEF SoakState
<1>5. /\ seen \in [Families -> 0 .. MaxAttempts]
      /\ \A f \in Families : soak.seen[f] <= seen[f]
  <2>1. CASE end = "failed"
    BY <2>1, <1>1, <1>3, SeenType
  <2>2. CASE end # "failed"
    BY <2>2, <1>1, Limits DEF SoakState
  <2>3. QED
    BY <2>1, <2>2
<1>6. /\ known \in SoakState /\ known.status = "running"
      /\ known.steps = agent.steps /\ known.seen = seen
  BY <1>1, <1>4, <1>5 DEF SoakState
<1>7. known.steps <= agent.steps
  BY <1>1, <1>6
<1> HIDE DEF end, family, seen, known
<1>8. \/ end = "failed" /\ Retries(family) /\ Retry(known, family)
      \/ Conclude(known, "running")
      \/ end # "none" /\ Conclude(known, end)
      \/ agent.steps >= MaxSteps /\ Conclude(known, "max_steps_reached")
  BY DEF Judge, end, family, known
<1>9. CASE end = "failed" /\ Retries(family) /\ Retry(known, family)
  <2>1. family \in Families /\ ~Spent(family) /\ known.seen = Seen(family)
    BY <1>9, <1>3, <1>6 DEF Retries, seen
  <2>2. QED
    BY <1>1, <1>6, <1>7, <1>9, <2>1, RetryStep
<1>10. \A f \in Families : soak.seen[f] <= known.seen[f]
  BY <1>5, <1>6
<1>11. CASE Conclude(known, "running")
  BY <1>1, <1>6, <1>7, <1>10, <1>11, ConcludeStep DEF SoakStatuses
<1>12. CASE end # "none" /\ Conclude(known, end)
  BY <1>1, <1>2, <1>6, <1>7, <1>10, <1>12, ConcludeStep DEF SoakStatuses
<1>13. CASE agent.steps >= MaxSteps /\ Conclude(known, "max_steps_reached")
  <2>1. agent.steps = MaxSteps
    BY <1>1, <1>13, Limits
  <2>2. QED
    BY <1>1, <1>6, <1>7, <1>10, <1>13, <2>1, ConcludeStep DEF SoakStatuses
<1>14. QED
  BY <1>8, <1>9, <1>11, <1>12, <1>13

\* The run raised: another try, or an end that the file does not know yet.
LEMMA JudgeErrorStep ==
  ASSUME Inv, JudgeError
  PROVE  Inv'
<1> USE DEF Inv
<1> DEFINE family == classify_failure_family(error, soak.steps)
           known == [soak EXCEPT !.seen = Seen(family)]
<1>1. /\ pc = "judge" /\ error # "none" /\ UNCHANGED <<asks, agent, cap, outside>>
      /\ soak.status = "running" /\ file.status = "running" /\ soak \in SoakState
  BY DEF JudgeError, FileInv, AtWork, TypeOK
<1>2. family \in Families
  BY <1>1 DEF classify_failure_family, TypeOK, Families
<1>3. /\ Seen(family) \in [Families -> 0 .. MaxAttempts]
      /\ \A f \in Families : soak.seen[f] <= Seen(family)[f]
  BY <1>1, <1>2, SeenType
<1>4. /\ known \in SoakState /\ known.status = "running"
      /\ known.steps = soak.steps /\ known.seen = Seen(family)
  BY <1>1, <1>3 DEF SoakState
<1>5. soak.steps <= agent.steps
  BY DEF FileInv
<1>6. CASE Retries(family)
  <2>1. Retry(known, family) /\ ~Spent(family)
    BY <1>6 DEF JudgeError, Retries
  <2>2. QED
    BY <1>1, <1>2, <1>4, <1>5, <2>1, RetryStep
<1>7. CASE ~Retries(family)
  <2>1. PICK status \in {"waiting", "failed"} : soak' = [known EXCEPT !.status = status]
    BY <1>7 DEF JudgeError
  <2>2. pc' = "remember" /\ UNCHANGED <<file, retries, error>>
    BY <1>7 DEF JudgeError
  <2>3. status \in SoakStatuses
    BY DEF SoakStatuses
  <2>4. /\ soak' \in SoakState /\ soak'.status = status
        /\ soak'.steps = soak.steps /\ soak'.seen = Seen(family)
    BY <1>4, <2>1, <2>3, StatusOnly
  <2>5. TypeOK'
    BY <1>1, <2>2, <2>4 DEF TypeOK, outside
  <2>6. FileInv'
    BY <1>1, <1>5, <2>2, <2>4 DEF FileInv, AtWork
  <2>7. ASSUME NEW f \in Families PROVE retries[f] <= Seen(family)[f]
    <3>1. /\ retries[f] \in Nat /\ soak.seen[f] \in 0 .. MaxAttempts
          /\ Seen(family)[f] \in 0 .. MaxAttempts
      BY <1>3 DEF TypeOK, SoakState
    <3>2. retries[f] <= soak.seen[f] /\ soak.seen[f] <= Seen(family)[f]
      BY <1>1, <1>3 DEF RetryInv
    <3>3. QED
      BY <3>1, <3>2, Limits
  <2>8. RetryInv' /\ EndInv'
    BY <1>1, <2>2, <2>4, <2>7 DEF RetryInv, EndInv
  <2>9. QED
    BY <2>5, <2>6, <2>8
<1>8. QED
  BY <1>6, <1>7

-----------------------------------------------------------------------------
(***************************************************************************)
(* The ends of the process.                                                *)
(***************************************************************************)
\* A state that is resumed keeps its counts, a new one has none to keep.
LEMMA LaunchStep ==
  ASSUME Inv, Launch
  PROVE  Inv'
<1> USE DEF Inv
<1> DEFINE resumed == "resume" \in asks' /\ file.status # "absent"
<1>1. /\ asks' \in SUBSET Options /\ launches' \in 0 .. MaxLaunches /\ losses' \in Nat
      /\ file' = soak' /\ pc' = "top"
      /\ UNCHANGED <<agent, cap, error, token, late, memories>>
  BY Limits, RequestAssumption DEF Launch, TypeOK
<1>2. /\ soak' \in SoakState /\ soak'.status = "running" /\ soak'.steps <= agent.steps
      /\ retries' \in [Families -> Nat]
      /\ \A f \in Families : retries'[f] <= soak'.seen[f]
  <2>1. CASE resumed
    <3>1. soak' = [file EXCEPT !.status = "running"] /\ retries' = retries
      BY <2>1 DEF Launch
    <3>2. file \in SoakState /\ retries \in [Families -> Nat]
      BY DEF TypeOK
    <3>3. /\ soak' \in SoakState /\ soak'.status = "running"
          /\ soak'.steps = file.steps /\ soak'.seen = file.seen
      BY <3>1, <3>2, StatusOnly DEF SoakStatuses
    <3>4. QED
      BY <3>1, <3>2, <3>3 DEF FileInv, RetryInv
  <2>2. CASE ~resumed
    <3>1. soak' = Fresh /\ retries' = [f \in Families |-> 0]
      BY <2>2 DEF Launch
    <3>2. agent.steps \in Nat
      BY DEF TypeOK
    <3>3. QED
      BY <3>1, <3>2, NewStates
  <2>3. QED
    BY <2>1, <2>2
<1>3. TypeOK'
  BY <1>1, <1>2 DEF TypeOK
<1>4. FileInv' /\ RetryInv' /\ EndInv'
  BY <1>1, <1>2 DEF FileInv, RetryInv, EndInv, AtWork
<1>5. QED
  BY <1>3, <1>4

LEMMA RememberStep ==
  ASSUME Inv, Remember
  PROVE  Inv'
<1> USE DEF Inv
<1>1. /\ pc = "remember" /\ pc' = "finish" /\ memories' \in Nat
      /\ UNCHANGED <<asks, file, agent, cap, error, token, late, launches, retries, losses>>
  BY DEF Remember, TypeOK
<1>2. /\ soak' \in SoakState /\ soak'.status = soak.status
      /\ soak'.steps = soak.steps /\ soak'.seen = soak.seen
  BY DEF Remember, TypeOK, SoakState
<1>3. TypeOK'
  BY <1>1, <1>2 DEF TypeOK
<1>4. FileInv' /\ RetryInv' /\ EndInv'
  BY <1>1, <1>2 DEF FileInv, RetryInv, EndInv, AtWork
<1>5. QED
  BY <1>3, <1>4

\* The file says how the soak ended, and an agent that completed stays so.
LEMMA FinishStep ==
  ASSUME Inv, Finish
  PROVE  Inv'
<1> USE DEF Inv
<1>1. /\ pc = "finish" /\ pc' = "off" /\ file' = soak
      /\ soak' = NoState /\ cap' = 0 /\ error' = "none" /\ late' \in BOOLEAN
      /\ UNCHANGED <<asks, agent, retries, token, memories, launches, losses>>
  BY DEF Finish, Forget
<1>2. TypeOK'
  BY <1>1, NewStates, Limits DEF TypeOK
<1>3. soak'.steps <= agent.steps
  BY <1>1, NewStates DEF TypeOK
<1>4. FileInv'
  BY <1>1, <1>3 DEF FileInv, EndInv, AtWork
<1>5. RetryInv' /\ EndInv'
  BY <1>1 DEF RetryInv, EndInv
<1>6. QED
  BY <1>2, <1>4, <1>5

\* Only the file survives; a run of the agent that dies with the process had a
\* soak at work, whose file does not say completed.
LEMMA CrashStep ==
  ASSUME Inv, Crash
  PROVE  Inv'
<1> USE DEF Inv
<1>1. /\ pc' = "off" /\ soak' = NoState /\ cap' = 0 /\ error' = "none" /\ late' \in BOOLEAN
      /\ losses' = losses + 1
      /\ UNCHANGED <<asks, file, token, memories, launches, retries>>
  BY DEF Crash, Forget
<1>2. /\ agent' \in AgentState /\ agent.steps <= agent'.steps
      /\ file.status = "completed" => agent'.status = "completed"
      /\ agent'.status = "failed" => agent'.reason \in Families
  <2>1. CASE UNCHANGED agent
    BY <2>1 DEF TypeOK, AgentState, FileInv
  <2>2. CASE ~UNCHANGED agent
    <3>1. PICK n \in Progress, status \in {"running", "torn"} :
             agent' = [agent EXCEPT !.status = status, !.reason = "none", !.steps = n]
      BY <2>2 DEF Crash
    <3>2. agent \in AgentState /\ n \in 0 .. MaxSteps /\ agent.steps <= n
      BY DEF TypeOK, AgentState, Progress
    <3>3. agent' \in AgentState /\ agent'.status = status /\ agent'.steps = n
      BY <3>1, <3>2 DEF AgentState, AgentStatuses
    <3>4. file.status = "running"
      BY <2>2 DEF Crash, FileInv, AtWork
    <3>5. QED
      BY <3>2, <3>3, <3>4
  <2>3. QED
    BY <2>1, <2>2
<1>3. TypeOK'
  BY <1>1, <1>2, NewStates, Limits DEF TypeOK, AgentState
<1>4. file.steps <= agent'.steps /\ soak'.steps <= agent'.steps
  BY <1>1, <1>2, NewStates DEF TypeOK, SoakState, AgentState, FileInv
<1>5. FileInv' /\ RetryInv' /\ EndInv'
  BY <1>1, <1>2, <1>4 DEF FileInv, RetryInv, EndInv, AtWork
<1>6. QED
  BY <1>3, <1>5

\* The cancel file, an approval and the clock.
LEMMA OutsideStep ==
  ASSUME Inv, Cancel \/ Approve \/ Elapse \/ UNCHANGED vars
  PROVE  Inv'
<1>1. /\ token' \in BOOLEAN /\ late' \in BOOLEAN
      /\ UNCHANGED <<pc, asks, soak, file, agent, cap, error, memories, launches, retries, losses>>
  BY DEF Inv, TypeOK, Cancel, Approve, Elapse, vars
<1>2. QED
  BY <1>1 DEF Inv, TypeOK, FileInv, RetryInv, EndInv

LEMMA InvNext == Inv /\ [Next]_vars => Inv'
<1> SUFFICES ASSUME Inv, [Next]_vars PROVE Inv'
  OBVIOUS
<1>1. CASE Launch
  BY <1>1, LaunchStep
<1>2. CASE ObeyCancel \/ TimeOut \/ ReachMaxSteps
  BY <1>2, LeaveStep DEF ObeyCancel, TimeOut, ReachMaxSteps
<1>3. CASE BeginCycle
  BY <1>3, BeginStep
<1>4. CASE RunAgent
  BY <1>4, RunStep
<1>5. CASE Judge
  BY <1>5, JudgeStep
<1>6. CASE JudgeError
  BY <1>6, JudgeErrorStep
<1>7. CASE Remember
  BY <1>7, RememberStep
<1>8. CASE Finish
  BY <1>8, FinishStep
<1>9. CASE Crash
  BY <1>9, CrashStep
<1>10. CASE Cancel \/ Approve \/ Elapse \/ UNCHANGED vars
  BY <1>10, OutsideStep
<1>11. QED
  BY <1>1, <1>2, <1>3, <1>4, <1>5, <1>6, <1>7, <1>8, <1>9, <1>10 DEF Next, Step

LEMMA InvHolds == Spec => []Inv
  BY InvInit, InvNext, PTL DEF Spec

\* Every variable has its type for any requests and limits; in particular no
\* slice takes the agent beyond max_steps, wherever the process dies.
THEOREM SoakTypeCorrect == Spec => []TypeOK
<1>1. Inv => TypeOK
  BY DEF Inv
<1>2. QED
  BY <1>1, InvHolds, PTL

\* No kind of failure is retried more often than max_recovery_attempts: every
\* retry was counted in the state file before it began, so a process that is
\* launched again finds it there.
THEOREM RetriesAreBounded == Spec => []RetriesBounded
<1>1. Inv => RetriesBounded
  <2> SUFFICES ASSUME Inv, NEW f \in Families PROVE retries[f] <= MaxAttempts
    BY DEF RetriesBounded
  <2>1. retries[f] \in Nat /\ file.seen[f] \in 0 .. MaxAttempts
    BY DEF Inv, TypeOK, SoakState
  <2>2. retries[f] <= file.seen[f]
    BY DEF Inv, RetryInv
  <2>3. QED
    BY <2>1, <2>2, Limits
<1>2. QED
  BY <1>1, InvHolds, PTL

\* A soak that ended as completed, failed or at max_steps has an agent that did.
THEOREM EndsMatch == Spec => []EndMatchesAgent
<1>1. Inv => EndMatchesAgent
  BY DEF Inv, FileInv, EndInv, EndMatchesAgent
<1>2. QED
  BY <1>1, InvHolds, PTL

-----------------------------------------------------------------------------
(***************************************************************************)
(* The record of an end.                                                   *)
(***************************************************************************)
\* A state that names no record has had none, unless the process died between
\* the two: there is a loss left to account for the record it will have.
RecordInv ==
    /\ memories <= losses
    /\ pc \in AtWork \cup {"remember"} =>
          file.status # "absent" /\ soak.remembered = file.remembered
    /\ pc = "finish" => soak.remembered
    /\ pc # "finish" /\ file.status # "absent" /\ ~file.remembered => memories < losses

LEMMA RecordInit == Init => RecordInv
  BY NewStates DEF Init, RecordInv, AtWork

\* A step that counts nothing, at work before and after it or leaving the loop,
\* and keeps what the two states say of the record.
LEMMA RecordKept ==
  ASSUME TypeOK, RecordInv, pc \in AtWork, pc' \in AtWork \cup {"remember"},
         UNCHANGED <<memories, losses>>,
         soak'.remembered = soak.remembered,
         file' = file \/ file' = soak', file'.status # "absent"
  PROVE  RecordInv'
  BY DEF RecordInv, TypeOK, AtWork

\* The steps of a process at work.
LEMMA RecordAtWork ==
  ASSUME Inv, RecordInv,
         \/ ObeyCancel \/ TimeOut \/ ReachMaxSteps \/ BeginCycle \/ RunAgent
         \/ Judge \/ JudgeError
  PROVE  RecordInv'
<1>1. /\ TypeOK /\ soak \in SoakState /\ file \in SoakState /\ UNCHANGED <<memories, losses>>
  BY DEF Inv, TypeOK, ObeyCancel, TimeOut, ReachMaxSteps, BeginCycle, RunAgent, Judge, JudgeError,
         Leave, AgentCompletes, AgentPauses, AgentObeysCancel, AgentFails, AgentUsesSlice,
         AgentPlans, AgentRaises, AgentReturns, outside
<1>2. pc \in AtWork => file.status = "running" /\ soak.status = "running"
  BY DEF Inv, FileInv
<1>3. CASE ObeyCancel \/ TimeOut \/ ReachMaxSteps
  <2>1. PICK status \in {"cancelled", "timed_out", "max_steps_reached"} : Leave(status)
    BY <1>3 DEF ObeyCancel, TimeOut, ReachMaxSteps
  <2>2. pc = "top" /\ pc' = "remember" /\ file' = file /\ soak'.remembered = soak.remembered
    BY <1>1, <1>3, <2>1 DEF ObeyCancel, TimeOut, ReachMaxSteps, Leave, SoakState
  <2>3. QED
    BY <1>1, <1>2, <2>2, RecordKept DEF AtWork
<1>4. CASE BeginCycle \/ RunAgent
  <2>1. pc \in AtWork /\ pc' \in AtWork /\ file' = file /\ soak' = soak
    BY <1>4 DEF BeginCycle, RunAgent, AgentCompletes, AgentPauses, AgentObeysCancel, AgentFails,
                AgentUsesSlice, AgentPlans, AgentRaises, AgentReturns, AtWork
  <2>2. QED
    BY <1>1, <1>2, <2>1, RecordKept
<1>5. ASSUME NEW known \in SoakState, known.remembered = soak.remembered,
             known.status = "running", pc = "judge",
             NEW family, Retry(known, family)
      PROVE  RecordInv'
  <2>1. pc' = "top" /\ soak' = known /\ file' = soak'
    BY <1>5 DEF Retry
  <2>2. QED
    BY <1>1, <1>5, <2>1, RecordKept DEF AtWork
<1>6. ASSUME NEW known \in SoakState, known.remembered = soak.remembered, pc = "judge",
             NEW status \in SoakStatuses \ {"absent"}, Conclude(known, status)
      PROVE  RecordInv'
  <2>1. soak'.remembered = known.remembered /\ soak'.status = status /\ file' = soak'
    BY <1>6 DEF Conclude, SoakState
  <2>2. pc' \in AtWork \cup {"remember"}
    BY <1>6 DEF Conclude, AtWork
  <2>3. QED
    BY <1>1, <1>6, <2>1, <2>2, RecordKept DEF AtWork
<1>7. CASE Judge
  <2> DEFINE end == terminal_soak_status
             family == classify_failure_family(agent.reason, agent.steps)
             seen == IF end = "failed" THEN Seen(family) ELSE soak.seen
             known == [soak EXCEPT !.steps = agent.steps,
                                   !.seen = IF end = "failed" THEN Seen(family) ELSE @]
  <2>1. pc = "judge" /\ soak.status = "running" /\ agent.steps \in 0 .. MaxSteps
    BY <1>2, <1>7 DEF Judge, AtWork, Inv, TypeOK
  <2>2. /\ end \in {"completed", "waiting", "cancelled", "failed", "none"}
        /\ end = "failed" => family \in Families
    BY DEF terminal_soak_status, classify_failure_family, Families, Inv, FileInv
  <2>3. seen \in [Families -> 0 .. MaxAttempts]
    BY <1>1, <2>2, SeenType DEF SoakState
  <2>4. known = [soak EXCEPT !.steps = agent.steps, !.seen = seen]
    BY <1>1 DEF SoakState
  <2>5. known \in SoakState /\ known.remembered = soak.remembered /\ known.status = "running"
    BY <1>1, <2>1, <2>3, <2>4 DEF SoakState
  <2> HIDE DEF end, family, seen, known
  <2>6. \/ Retry(known, family)
        \/ \E status \in {"running", end, "max_steps_reached"} \ {"none"} : Conclude(known, status)
    BY <1>7 DEF Judge, end, family, known
  <2>7. {"running", end, "max_steps_reached"} \ {"none"} \subseteq SoakStatuses \ {"absent"}
    BY <2>2 DEF SoakStatuses
  <2>8. QED
    BY <1>5, <1>6, <2>1, <2>5, <2>6, <2>7
<1>8. CASE JudgeError
  <2> DEFINE family == classify_failure_family(error, soak.steps)
             known == [soak EXCEPT !.seen = Seen(family)]
  <2>1. pc = "judge" /\ soak.status = "running" /\ error # "none"
    BY <1>2, <1>8 DEF JudgeError, AtWork
  <2>2. family \in Families
    BY <2>1 DEF classify_failure_family, Families, Inv, TypeOK
  <2>3. Seen(family) \in [Families -> 0 .. MaxAttempts]
    BY <1>1, <2>2, SeenType
  <2>4. known \in SoakState /\ known.remembered = soak.remembered /\ known.status = "running"
    BY <1>1, <2>1, <2>3 DEF SoakState
  <2>5. CASE Retries(family)
    BY <1>5, <1>8, <2>1, <2>4, <2>5 DEF JudgeError
  <2>6. CASE ~Retries(family)
    <3>1. PICK status \in {"waiting", "failed"} : soak' = [known EXCEPT !.status = status]
      BY <1>8, <2>6 DEF JudgeError
    <3>2. soak'.remembered = soak.remembered
      BY <2>4, <3>1 DEF SoakState
    <3>3. pc' = "remember" /\ file' = file
      BY <1>8, <2>6 DEF JudgeError
    <3>4. QED
      BY <1>1, <1>2, <2>1, <3>2, <3>3, RecordKept DEF AtWork
  <2>7. QED
    BY <2>5, <2>6
<1>9. QED
  BY <1>3, <1>4, <1>7, <1>8

LEMMA RecordNext == Inv /\ RecordInv /\ [Next]_vars => RecordInv'
<1> SUFFICES ASSUME Inv, RecordInv, [Next]_vars PROVE RecordInv'
  OBVIOUS
<1>1. /\ soak \in SoakState /\ file \in SoakState
      /\ memories \in Nat /\ losses \in Nat /\ memories <= losses
  BY DEF Inv, TypeOK, RecordInv
<1>2. CASE Launch
  <2> DEFINE resumed == "resume" \in asks' /\ file.status # "absent"
  <2>1. pc = "off" /\ pc' = "top" /\ file' = soak' /\ memories' = memories
    BY <1>2 DEF Launch
  <2>2. CASE resumed
    <3>1. soak' = [file EXCEPT !.status = "running"] /\ losses' = losses
      BY <1>2, <2>2 DEF Launch
    <3>2. soak'.remembered = file.remembered /\ soak'.status = "running"
      BY <1>1, <3>1 DEF SoakState
    <3>3. QED
      BY <1>1, <2>1, <2>2, <3>1, <3>2 DEF RecordInv
  <2>3. CASE ~resumed
    <3>1. soak' = Fresh /\ losses' = losses + 1
      BY <1>2, <2>3 DEF Launch
    <3>2. soak'.status = "running"
      BY <3>1, NewStates
    <3>3. QED
      BY <1>1, <2>1, <3>1, <3>2 DEF RecordInv
  <2>4. QED
    BY <2>2, <2>3
<1>3. CASE Remember
  <2>1. /\ pc = "remember" /\ pc' = "finish" /\ UNCHANGED <<file, losses>>
        /\ memories' = IF soak.remembered THEN memories ELSE memories + 1
    BY <1>3 DEF Remember
  <2>2. soak'.remembered
    BY <1>1, <1>3 DEF Remember, SoakState
  <2>3. CASE soak.remembered
    BY <1>1, <2>1, <2>2, <2>3 DEF RecordInv, AtWork
  <2>4. CASE ~soak.remembered
    <3>1. memories < losses
      BY <2>1, <2>4 DEF RecordInv, AtWork
    <3>2. QED
      BY <1>1, <2>1, <2>2, <2>4, <3>1 DEF RecordInv, AtWork
  <2>5. QED
    BY <2>3, <2>4
<1>4. CASE Finish
  <2>1. pc = "finish" /\ pc' = "off" /\ file' = soak /\ UNCHANGED <<memories, losses>>
    BY <1>4 DEF Finish
  <2>2. QED
    BY <1>1, <2>1 DEF RecordInv, AtWork
<1>5. CASE Crash
  <2>1. pc' = "off" /\ losses' = losses + 1 /\ UNCHANGED <<file, memories>>
    BY <1>5 DEF Crash
  <2>2. QED
    BY <1>1, <2>1 DEF RecordInv, AtWork
<1>6. CASE Cancel \/ Approve \/ Elapse \/ UNCHANGED vars
  BY <1>6 DEF Cancel, Approve, Elapse, vars, RecordInv
<1>7. QED
  BY <1>2, <1>3, <1>4, <1>5, <1>6, RecordAtWork DEF Next, Step

\* A soak state is recorded in the agent memory at most once, but for each
\* process that died: a resumed soak finds the name of its record in the file.
THEOREM RecordedAtMostOnce == Spec => []RecordedOnce
<1>1. Inv /\ RecordInv => RecordedOnce
  BY DEF RecordInv, RecordedOnce
<1>2. QED
  BY <1>1, RecordInit, RecordNext, InvHolds, PTL DEF Spec
=============================================================================
