----------------------- MODULE AutonomousAgentProofs ------------------------
(***************************************************************************)
(* Proofs about the agent loop (AutonomousAgent), for all requests, limits *)
(* and reports of the tools: what the policy makes sure of before it       *)
(* orders an action still holds when the action is executed and recorded,  *)
(* wherever the process was interrupted.                                   *)
(***************************************************************************)
EXTENDS AutonomousAgent, SequenceTheorems, WellFoundedInduction, TLAPS

-----------------------------------------------------------------------------
(***************************************************************************)
(* The policy is a table of 36 rows, and orders the first that applies.    *)
(***************************************************************************)
RowSet == {Setup[i] : i \in 1 .. 14} \cup {Queued[i] : i \in 1 .. 7} \cup {Planning[i] : i \in 1 .. 8} \cup {Signoff[i] : i \in 1 .. 7}

LEMMA PolicyParts ==
  /\ Setup \in Seq(RowSet) /\ Len(Setup) = 14
  /\ Queued \in Seq(RowSet) /\ Len(Queued) = 7
  /\ Planning \in Seq(RowSet) /\ Len(Planning) = 8
  /\ Signoff \in Seq(RowSet) /\ Len(Signoff) = 7
<1>1. Setup \in Seq(RowSet) /\ Len(Setup) = 14
  <2>1. Setup = [i \in 1 .. 14 |-> Setup[i]] /\ Len(Setup) = 14
    BY DEF Setup
  <2>2. QED
    BY <2>1 DEF RowSet
<1>2. Queued \in Seq(RowSet) /\ Len(Queued) = 7
  <2>1. Queued = [i \in 1 .. 7 |-> Queued[i]] /\ Len(Queued) = 7
    BY DEF Queued
  <2>2. QED
    BY <2>1 DEF RowSet
<1>3. Planning \in Seq(RowSet) /\ Len(Planning) = 8
  <2>1. Planning = [i \in 1 .. 8 |-> Planning[i]] /\ Len(Planning) = 8
    BY DEF Planning
  <2>2. QED
    BY <2>1 DEF RowSet
<1>4. Signoff \in Seq(RowSet) /\ Len(Signoff) = 7
  <2>1. Signoff = [i \in 1 .. 7 |-> Signoff[i]] /\ Len(Signoff) = 7
    BY DEF Signoff
  <2>2. QED
    BY <2>1 DEF RowSet
<1>5. QED
  BY <1>1, <1>2, <1>3, <1>4

LEMMA LeastBelow ==
  ASSUME NEW below, IsWellFoundedOn(below, Nat),
         \A i, j \in Nat : j < i => <<j, i>> \in below,
         NEW T \in SUBSET Nat, T # {}
  PROVE  \E i \in T : \A j \in T : i <= j
<1>1. \E i \in T : \A j \in T : ~(<<j, i>> \in below)
  BY WFMin
<1>2. PICK i \in T : \A j \in T : ~(<<j, i>> \in below)
  BY <1>1
<1>3. \A j \in T : i <= j
  <2> TAKE j \in T
  <2>1. i \in Nat /\ j \in Nat /\ ~(<<j, i>> \in below)
    BY <1>2
  <2>2. ~(j < i)
    BY <2>1, Zenon
  <2>3. QED
    BY <2>1, <2>2
<1>4. QED
  BY <1>3

LEMMA Least ==
  ASSUME NEW T \in SUBSET Nat, T # {}
  PROVE  \E i \in T : \A j \in T : i <= j
<1>1. \A i, j \in Nat : j < i => <<j, i>> \in OpToRel(<, Nat)
  BY DEF OpToRel
<1>2. QED
  BY <1>1, NatLessThanWellFounded, LeastBelow, Zenon

LEMMA PolicyRows ==
  /\ Len(Policy) = 36
  /\ \A i \in 1 .. 36 :
        Policy[i] = IF i <= 14 THEN Setup[i] ELSE IF i <= 21 THEN Queued[i - 14]
                    ELSE IF i <= 29 THEN Planning[i - 21] ELSE Signoff[i - 29]
<1>1. Setup \in Seq(RowSet) /\ Queued \in Seq(RowSet)
  BY PolicyParts
<1>2. Planning \in Seq(RowSet) /\ Signoff \in Seq(RowSet)
  BY PolicyParts
<1>3. Len(Setup) = 14 /\ Len(Queued) = 7 /\ Len(Planning) = 8 /\ Len(Signoff) = 7
  BY PolicyParts
<1> DEFINE start == Setup \o Queued
           upper == start \o Planning
           table == upper \o Signoff
<1>4. /\ start \in Seq(RowSet) /\ Len(start) = Len(Setup) + Len(Queued)
      /\ \A i \in 1 .. Len(Setup) + Len(Queued) : start[i] = IF i <= Len(Setup) THEN Setup[i] ELSE Queued[i - Len(Setup)]
  BY <1>1, ConcatProperties, Zenon
<1> HIDE DEF start
<1>5. start \in Seq(RowSet)
  BY <1>4
<1>6. /\ upper \in Seq(RowSet) /\ Len(upper) = Len(start) + Len(Planning)
      /\ \A i \in 1 .. Len(start) + Len(Planning) : upper[i] = IF i <= Len(start) THEN start[i] ELSE Planning[i - Len(start)]
  BY <1>5, <1>2, ConcatProperties, Zenon
<1> HIDE DEF upper
<1>7. upper \in Seq(RowSet)
  BY <1>6
<1>8. /\ Len(table) = Len(upper) + Len(Signoff)
      /\ \A i \in 1 .. Len(upper) + Len(Signoff) : table[i] = IF i <= Len(upper) THEN upper[i] ELSE Signoff[i - Len(upper)]
  BY <1>7, <1>2, ConcatProperties, Zenon
<1> HIDE DEF table
<1>9. Len(table) = 36
  BY <1>4, <1>6, <1>8, <1>3
<1>10. \A i \in 1 .. 36 : table[i] = IF i <= 14 THEN Setup[i] ELSE IF i <= 21 THEN Queued[i - 14]
                                   ELSE IF i <= 29 THEN Planning[i - 21] ELSE Signoff[i - 29]
  <2> TAKE i \in 1 .. 36
  <2>1. Len(start) = 21 /\ Len(upper) = 29
    BY <1>4, <1>6, <1>3
  <2>2. i \in 1 .. Len(upper) + Len(Signoff)
    BY <2>1, <1>3
  <2>3. table[i] = IF i <= 29 THEN upper[i] ELSE Signoff[i - 29]
    BY <1>8, <2>1, <2>2
  <2>4. i <= 29 => i \in 1 .. Len(start) + Len(Planning)
    BY <2>1, <1>3
  <2>5. i <= 29 => upper[i] = IF i <= 21 THEN start[i] ELSE Planning[i - 21]
    BY <1>6, <2>1, <2>4, <1>3
  <2>6. i <= 21 => i \in 1 .. Len(Setup) + Len(Queued)
    BY <1>3
  <2>7. i <= 21 => start[i] = IF i <= 14 THEN Setup[i] ELSE Queued[i - 14]
    BY <1>4, <2>6, <1>3
  <2>8. QED
    BY <2>3, <2>5, <2>7
<1>11. QED
  BY <1>9, <1>10 DEF table, upper, start, Policy

LEMMA LastRow == Policy[36].when
<1>1. Policy[36] = Signoff[7]
  BY PolicyRows
<1>2. QED
  BY <1>1 DEF Signoff, Row

\* The policy always finds a row, and orders the first one whose condition holds.
LEMMA FirstRow ==
  \E i \in 1 .. 36 :
    /\ Policy[i].when /\ \A j \in 1 .. i - 1 : ~Policy[j].when
    /\ deterministic_action = Policy[i].do
<1> DEFINE holds == {i \in 1 .. 36 : Policy[i].when}
<1>1. holds \in SUBSET Nat /\ holds # {}
  BY LastRow
<1>2. \E i \in holds : \A j \in holds : i <= j
  BY <1>1, Least, Zenon
<1>3. \E i \in 1 .. 36 : Policy[i].when /\ \A j \in 1 .. i - 1 : ~Policy[j].when
  BY <1>2
<1> DEFINE first == CHOOSE i \in 1 .. 36 : Policy[i].when /\ \A j \in 1 .. i - 1 : ~Policy[j].when
<1>4. first \in 1 .. 36 /\ Policy[first].when /\ \A j \in 1 .. first - 1 : ~Policy[j].when
  BY <1>3, Zenon
<1>5. deterministic_action = Policy[first].do
  BY PolicyRows DEF deterministic_action
<1> HIDE DEF first
<1>6. QED
  BY <1>4, <1>5

-----------------------------------------------------------------------------
(***************************************************************************)
(* The inductive invariant.                                                *)
(***************************************************************************)
CandidateActs ==
    {"none", "run_candidate", "run_repair", "plan_refinement", "ask_user", "plan_extension"}
DecisionActs == {"none", "plan_guidance", "run_repair", "pareto_review"}

\* What the policy makes sure of before it orders action a: that the gates
\* are passed, that the state is signed off before it stops, that a preflight
\* is not repeated, and the budget of a follow-up patch.
Gated(a) ==
    a.act \in Tools =>
        /\ RunsSentaurus(a) /\ Has("project") => Did("preflight_ready")
        /\ Did("evidence_gap") => Has("allow_gaps")
        /\ Did("unverified") => Has("allow_unverified")
Concluding(a) ==
    a.act = "stop_success" =>
        /\ a.src = state.latest /\ state.latest # 0 /\ ~NeedsRepair
        /\ state.made["benchmark"] # 0
        /\ Has("objectives") => state.made["objectives"] # 0
        /\ Has("report") => state.made["report"] # 0
Budgeted(a) ==
    ~Has("auto_design") =>
        /\ a.act = "plan_refinement" => BelowMax("refinement")
        /\ a.act = "plan_guidance" => BelowMax("guidance")
        /\ a.act = "run_refinement" => a.slot = "refinement" /\ state.todo["refinement"] # "none"
        /\ a.act = "run_guidance" => a.slot = "guidance" /\ state.todo["guidance"] # "none"
Ordered(a) ==
    /\ Gated(a) /\ Concluding(a) /\ Budgeted(a)
    /\ a.act = "run_preflight" => ~Did("preflight")
    /\ a.act # "plan_decision"

\* What the steps of the policy leave in checkpoint s.  A follow-up patch that
\* is queued is within the limit; one whose step raises stays queued, and what
\* it added to the counter it adds to the allowance.
BudgetIn(s) ==
    \A k \in {"refinement", "guidance"} :
        /\ s.runs[k] <= MaxRefinements + s.raised[k]
        /\ s.todo[k] # "none" => s.runs[k] < MaxRefinements + s.raised[k]
RecordedIn(s) ==
    /\ s.todo["decision"] = "none"
    /\ s.todo["experiment"] \in CandidateActs
    /\ "unverified" \in s.done => "patched" \in s.done
    /\ "sentaurus_run" \in s.done => "preflight_ready" \in s.done
    /\ "preflight_ready" \in s.done => "preflight" \in s.done
    /\ ~Has("auto_design") => BudgetIn(s)

Determined == RecordedIn(state) /\ (pc = "execute" => Ordered(action))

\* A request with a source has a first file, candidates are made from a file,
\* a curve decision queues one of three actions, and an agent that runs has
\* not ended.
PlacesInv ==
    /\ Has("source") => evidence # << >>
    /\ state.from["candidate"] \in Files
    /\ state.todo["decision"] \in DecisionActs
    /\ pc # "off" => Live

AgentInv ==
    /\ TypeOK /\ SignoffIsCurrent /\ SignedOff /\ PlacesInv
    /\ ~Has("llm") => Determined

\* The gates and the budget follow.
LEMMA AgentIsLimited == ASSUME AgentInv PROVE LimitsHold /\ SignoffHolds
<1>1. GatesHold
  BY DEF AgentInv, Determined, Ordered, Gated, GatesHold
<1>2. RefinementsWithinMax
  BY DEF AgentInv, Determined, RecordedIn, BudgetIn, RefinementsWithinMax
<1>3. QED
  BY <1>1, <1>2 DEF AgentInv, LimitsHold, SignoffHolds

IsAction(a) ==
    a.act \in Acts /\ a.src \in Files /\ a.ask \in BOOLEAN

-----------------------------------------------------------------------------
(***************************************************************************)
(* Decisions.                                                              *)
(***************************************************************************)
\* The rows a later row relies on.
LEMMA GateRows ==
  /\ Policy[2].when = (Did("evidence_gap") /\ ~Has("allow_gaps"))
  /\ Policy[5].when = (Did("patched") /\ Did("unverified") /\ ~Has("allow_unverified"))
  /\ Policy[9].when = (Has("initial_sentaurus") /\ BaselineDue /\ ~Did("preflight_ready"))
  /\ Policy[12].when = (BaselineDue /\ ~Did("preflight_ready"))
  /\ Policy[13].when = BaselineDue
<1>1. Policy[2] = Setup[2] /\ Policy[5] = Setup[5] /\ Policy[9] = Setup[9]
  BY PolicyRows
<1>2. Policy[12] = Setup[12] /\ Policy[13] = Setup[13]
  BY PolicyRows
<1>3. QED
  BY <1>1, <1>2 DEF Setup, Row

LEMMA SignoffRows ==
  /\ Policy[22].when = (state.latest = 0)
  /\ Policy[30].when = NeedsRepair
  /\ Policy[31].when = (state.made["benchmark"] = 0)
  /\ Policy[33].when = (Has("objectives") /\ state.made["objectives"] = 0)
  /\ Policy[34].when = (Has("report") /\ state.made["report"] = 0)
<1>1. Policy[22] = Planning[1] /\ Policy[30] = Signoff[1] /\ Policy[31] = Signoff[2]
  BY PolicyRows
<1>2. Policy[33] = Signoff[4] /\ Policy[34] = Signoff[5]
  BY PolicyRows
<1>3. QED
  BY <1>1, <1>2 DEF Planning, Signoff, Row

\* Every action the policy orders is an action on a file there is.
LEMMA PolicyActs ==
  ASSUME TypeOK, PlacesInv
  PROVE  IsAction(deterministic_action)
<1>1. PICK i \in 1 .. 36 : deterministic_action = Policy[i].do
  BY FirstRow
<1>2. state.latest \in Files /\ state.from["candidate"] \in Files
  BY DEF TypeOK, PlacesInv
<1>3. Asks \subseteq Acts /\ Tools \subseteq Acts /\ StateBound \subseteq Acts /\ Others \subseteq Acts
  BY DEF Acts
<1>4. \A k \in Slots : state.todo[k] \in Acts /\ Reviewed(state.todo[k]) \in Acts
  BY <1>3 DEF TypeOK, AgentState, Reviewed, Asks, StateBound
<1>5. CASE i <= 14
  <2>1. Policy[i] = Setup[i]
    BY <1>5, PolicyRows
  <2>2. \A j \in 1 .. 14 : IsAction(Setup[j].do)
    <3>1. /\ IsAction(Setup[1].do) /\ IsAction(Setup[2].do) /\ IsAction(Setup[3].do) /\ IsAction(Setup[4].do)
          /\ IsAction(Setup[5].do) /\ IsAction(Setup[6].do) /\ IsAction(Setup[7].do) /\ IsAction(Setup[8].do)
          /\ IsAction(Setup[9].do) /\ IsAction(Setup[10].do) /\ IsAction(Setup[11].do) /\ IsAction(Setup[12].do)
          /\ IsAction(Setup[13].do) /\ IsAction(Setup[14].do)
      BY <1>2, <1>3 DEF Setup, Row, IsAction, Asks, Tools, Others
    <3>2. QED
      BY <3>1
  <2>3. QED
    BY <1>1, <1>5, <2>1, <2>2
<1>6. CASE i > 14 /\ i <= 21
  <2>1. Policy[i] = Queued[i - 14]
    BY <1>6, PolicyRows
  <2>2. \A j \in 1 .. 7 : IsAction(Queued[j].do)
    <3>1. \A k \in Slots, act \in Acts, src \in Files : \A when :
            IsAction(Queue(k, act, src, when).do)
      <4>1. \A k : (k \in state.risky) \in BOOLEAN
        OBVIOUS
      <4>2. QED
        BY <4>1 DEF Queue, IsAction
    <3>2. IsAction(Queued[1].do) /\ IsAction(Queued[2].do) /\ IsAction(Queued[3].do) /\ IsAction(Queued[4].do)
      <4>1. "run_refinement" \in Acts /\ "run_guidance" \in Acts
        BY <1>3 DEF Tools
      <4>2. IsAction(Queued[1].do) /\ IsAction(Queued[2].do)
        BY <1>2, <3>1, <4>1 DEF Queued, Slots
      <4>3. IsAction(Queued[3].do) /\ IsAction(Queued[4].do)
        BY <1>2, <1>4, <3>1 DEF Queued, Slots
      <4>4. QED
        BY <4>2, <4>3
    <3>3. IsAction(Queued[5].do) /\ IsAction(Queued[6].do)
      BY <1>2, <1>3 DEF Queued, Row, IsAction, Asks, StateBound
    <3>4. IsAction(Queued[7].do)
      <4>1. "run_sentaurus_patch" \in Acts
        BY <1>3 DEF Tools
      <4>2. QED
        BY <1>2, <3>1, <4>1 DEF Queued, Slots
    <3>5. QED
      BY <3>2, <3>3, <3>4
  <2>3. QED
    BY <1>1, <1>6, <2>1, <2>2
<1>7. CASE i > 21 /\ i <= 29
  <2>1. Policy[i] = Planning[i - 21]
    BY <1>7, PolicyRows
  <2>2. \A j \in 1 .. 8 : IsAction(Planning[j].do)
    <3>1. /\ IsAction(Planning[1].do) /\ IsAction(Planning[2].do) /\ IsAction(Planning[3].do) /\ IsAction(Planning[4].do)
          /\ IsAction(Planning[5].do) /\ IsAction(Planning[6].do) /\ IsAction(Planning[7].do) /\ IsAction(Planning[8].do)
      BY <1>2, <1>3 DEF Planning, Row, Reviewed, IsAction, Asks, Tools, StateBound, Others
    <3>2. QED
      BY <3>1
  <2>3. QED
    BY <1>1, <1>7, <2>1, <2>2
<1>8. CASE i > 29
  <2>1. Policy[i] = Signoff[i - 29]
    BY <1>8, PolicyRows
  <2>2. \A j \in 1 .. 7 : IsAction(Signoff[j].do)
    <3>1. /\ IsAction(Signoff[1].do) /\ IsAction(Signoff[2].do) /\ IsAction(Signoff[3].do) /\ IsAction(Signoff[4].do)
          /\ IsAction(Signoff[5].do) /\ IsAction(Signoff[6].do) /\ IsAction(Signoff[7].do)
      BY <1>2, <1>3 DEF Signoff, Row, IsAction, Tools, StateBound, Others
    <3>2. QED
      BY <3>1
  <2>3. QED
    BY <1>1, <1>8, <2>1, <2>2
<1>9. QED
  BY <1>5, <1>6, <1>7, <1>8

\* The actions nothing has to be made sure of before.
Quiet(a) ==
    a.act \notin Tools \cup {"run_preflight", "plan_decision", "stop_success", "plan_refinement",
                            "plan_guidance"}

LEMMA QuietIsOrdered == ASSUME NEW a, Quiet(a) PROVE Ordered(a)
  BY DEF Quiet, Ordered, Gated, Concluding, Budgeted, Tools

LEMMA QuietRows ==
  /\ \A j \in {1, 2, 3, 4, 5, 6, 7, 9, 12} : Quiet(Setup[j].do)
  /\ Quiet(Queued[5].do) /\ Quiet(Queued[6].do)
  /\ \A j \in {5, 6, 7, 8} : Quiet(Planning[j].do)
  /\ \A j \in {2, 3, 4, 5, 6} : Quiet(Signoff[j].do)
<1>1. \A j \in {1, 2, 3, 4, 5, 6, 7, 9, 12} : Quiet(Setup[j].do)
  BY DEF Setup, Row, Quiet, Tools
<1>2. Quiet(Queued[5].do) /\ Quiet(Queued[6].do)
  BY DEF Queued, Row, Quiet, Tools
<1>3. \A j \in {5, 6, 7, 8} : Quiet(Planning[j].do)
  BY DEF Planning, Row, Reviewed, Quiet, Tools
<1>4. \A j \in {2, 3, 4, 5, 6} : Quiet(Signoff[j].do)
  BY DEF Signoff, Row, Quiet, Tools
<1>5. QED
  BY <1>1, <1>2, <1>3, <1>4

LEMMA OrderRows ==
  /\ Policy[8].do.act = "run_preflight"
  /\ Policy[8].when = (Has("initial_sentaurus") /\ BaselineDue /\ ~Did("preflight"))
  /\ Policy[11].do.act = "run_preflight" /\ Policy[11].when = (BaselineDue /\ ~Did("preflight"))
  /\ Policy[15].do.act = "run_refinement" /\ Policy[15].do.slot = "refinement"
  /\ Policy[15].when = (Has("refine") /\ state.todo["refinement"] # "none")
  /\ Policy[16].do.act = "run_guidance" /\ Policy[16].do.slot = "guidance"
  /\ Policy[16].when = (Has("refine") /\ state.todo["guidance"] # "none")
  /\ Policy[17].when = (state.from["decided"] = state.latest /\ state.todo["decision"] # "none")
  /\ Policy[18].do.act = state.todo["experiment"]
  /\ Policy[18].when = (Has("auto_design") /\ state.todo["experiment"] # "none")
  /\ Policy[21].do.act = "run_sentaurus_patch"
  /\ Policy[22].do.act = "run_supervisor"
  /\ Policy[23].do.act = "plan_guidance"
  /\ Policy[23].when = (Guide # 0 /\ ~IsSentaurus /\ Guide # state.signed /\ BelowMax("guidance"))
  /\ Policy[24].when = (Has("llm") /\ Observed.effect # "none" /\ ~IsSentaurus
                        /\ BelowMax("decision") /\ state.from["decision"] # state.latest)
  /\ Policy[25].do.act = "plan_refinement"
  /\ Policy[25].when = (Observed.effect # "none" /\ ~IsSentaurus
                        /\ BelowMax("refinement") /\ state.from["refinement"] # state.latest)
  /\ Policy[30].do.act = "run_repair"
<1>1. Policy[8] = Setup[8] /\ Policy[11] = Setup[11] /\ Policy[30] = Signoff[1]
  BY PolicyRows
<1>2. Policy[15] = Queued[1] /\ Policy[16] = Queued[2] /\ Policy[17] = Queued[3]
  BY PolicyRows
<1>3. Policy[18] = Queued[4] /\ Policy[21] = Queued[7]
  BY PolicyRows
<1>4. /\ Policy[22] = Planning[1] /\ Policy[23] = Planning[2]
      /\ Policy[24] = Planning[3] /\ Policy[25] = Planning[4]
  BY PolicyRows
<1>5. /\ Policy[8].do.act = "run_preflight"
      /\ Policy[8].when = (Has("initial_sentaurus") /\ BaselineDue /\ ~Did("preflight"))
      /\ Policy[11].do.act = "run_preflight" /\ Policy[11].when = (BaselineDue /\ ~Did("preflight"))
  BY <1>1 DEF Setup, Row
<1>6. /\ Policy[15].do.act = "run_refinement" /\ Policy[15].do.slot = "refinement"
      /\ Policy[15].when = (Has("refine") /\ state.todo["refinement"] # "none")
      /\ Policy[16].do.act = "run_guidance" /\ Policy[16].do.slot = "guidance"
      /\ Policy[16].when = (Has("refine") /\ state.todo["guidance"] # "none")
      /\ Policy[17].when = (state.from["decided"] = state.latest /\ state.todo["decision"] # "none")
  BY <1>2 DEF Queued, Queue
<1>7. /\ Policy[18].do.act = state.todo["experiment"]
      /\ Policy[18].when = (Has("auto_design") /\ state.todo["experiment"] # "none")
      /\ Policy[21].do.act = "run_sentaurus_patch"
  BY <1>3 DEF Queued, Queue
<1>8. /\ Policy[22].do.act = "run_supervisor"
      /\ Policy[23].do.act = "plan_guidance"
      /\ Policy[23].when = (Guide # 0 /\ ~IsSentaurus /\ Guide # state.signed /\ BelowMax("guidance"))
      /\ Policy[24].when = (Has("llm") /\ Observed.effect # "none" /\ ~IsSentaurus
                            /\ BelowMax("decision") /\ state.from["decision"] # state.latest)
      /\ Policy[25].do.act = "plan_refinement"
      /\ Policy[25].when = (Observed.effect # "none" /\ ~IsSentaurus
                            /\ BelowMax("refinement") /\ state.from["refinement"] # state.latest)
  BY <1>4 DEF Planning, Row
<1>9. Policy[30].do.act = "run_repair"
  BY <1>1 DEF Signoff, Row
<1>10. QED
  BY <1>5, <1>6, <1>7, <1>8, <1>9

\* Whatever the policy orders is made sure of: the rows before it see to it.
LEMMA PolicyIsOrdered ==
  ASSUME TypeOK, RecordedIn(state), ~Has("llm")
  PROVE  Ordered(deterministic_action)
<1> DEFINE d == deterministic_action
<1>1. PICK i \in 1 .. 36 :
        Policy[i].when /\ (\A j \in 1 .. i - 1 : ~Policy[j].when) /\ d = Policy[i].do
  BY FirstRow
<1> HIDE DEF d
<1>2. i > 2 => (Did("evidence_gap") => Has("allow_gaps"))
  <2>1. i > 2 => ~Policy[2].when
    BY <1>1
  <2>2. QED
    BY <2>1, GateRows
<1>3. i > 5 => (Did("unverified") => Has("allow_unverified"))
  <2>1. i > 5 => ~Policy[5].when
    BY <1>1
  <2>2. QED
    BY <2>1, GateRows DEF RecordedIn, Did
<1>4. i > 9 => (Has("initial_sentaurus") /\ Has("project") => Did("preflight_ready"))
  <2>1. i > 9 => ~Policy[9].when
    BY <1>1
  <2>2. QED
    BY <2>1, GateRows DEF RecordedIn, Did, BaselineDue
<1>5. i > 12 => (Has("project") => Did("preflight_ready"))
  <2>1. i > 12 => ~Policy[12].when
    BY <1>1
  <2>2. QED
    BY <2>1, GateRows DEF RecordedIn, Did, BaselineDue
<1>6. /\ i <= 14 => Policy[i] = Setup[i]
      /\ i > 14 /\ i <= 21 => Policy[i] = Queued[i - 14]
      /\ i > 21 /\ i <= 29 => Policy[i] = Planning[i - 21]
      /\ i > 29 => Policy[i] = Signoff[i - 29]
  BY PolicyRows
<1>7. CASE i \in {1, 2, 3, 4, 5, 6, 7, 9, 12} \cup {19, 20} \cup {26, 27, 28, 29} \cup {31, 32, 33, 34, 35}
  <2>1. Quiet(d)
    <3>1. CASE i \in {1, 2, 3, 4, 5, 6, 7, 9, 12}
      BY <1>1, <1>6, <3>1, QuietRows
    <3>2. CASE i \in {19, 20}
      BY <1>1, <1>6, <3>2, QuietRows
    <3>3. CASE i \in {26, 27, 28, 29}
      <4>1. i - 21 \in {5, 6, 7, 8} /\ Policy[i] = Planning[i - 21]
        BY <1>6, <3>3
      <4>2. QED
        BY <1>1, <4>1, QuietRows
    <3>4. CASE i \in {31, 32, 33, 34, 35}
      <4>1. i - 29 \in {2, 3, 4, 5, 6} /\ Policy[i] = Signoff[i - 29]
        BY <1>6, <3>4
      <4>2. QED
        BY <1>1, <4>1, QuietRows
    <3>5. QED
      BY <1>7, <3>1, <3>2, <3>3, <3>4
  <2>2. QED
    BY <2>1, QuietIsOrdered DEF d
<1>8. CASE i \in {8, 11}
  <2>1. d.act = "run_preflight" /\ ~Did("preflight")
    BY <1>1, <1>8, OrderRows
  <2>2. QED
    BY <2>1 DEF Ordered, Gated, Concluding, Budgeted, Tools, d
<1>9. CASE i \in {10, 13, 14}
  <2>1. d.act = IF i = 10 THEN "run_initial" ELSE IF i = 13 THEN "run_sentaurus" ELSE "run_user_deck"
    BY <1>1, <1>6, <1>9 DEF Setup, Row
  <2>2. QED
    BY <1>2, <1>3, <1>4, <1>5, <1>9, <2>1
    DEF Ordered, Gated, Concluding, Budgeted, RunsSentaurus, d
<1>10. CASE i \in {15, 16, 21, 22, 30}
  <2>1. /\ i = 15 => d.act = "run_refinement" /\ d.slot = "refinement" /\ state.todo["refinement"] # "none"
        /\ i = 16 => d.act = "run_guidance" /\ d.slot = "guidance" /\ state.todo["guidance"] # "none"
        /\ i = 21 => d.act = "run_sentaurus_patch"
        /\ i = 22 => d.act = "run_supervisor"
        /\ i = 30 => d.act = "run_repair"
    BY <1>1, OrderRows
  <2>2. QED
    BY <1>2, <1>3, <1>5, <1>10, <2>1
    DEF Ordered, Gated, Concluding, Budgeted, RunsSentaurus, d
<1>11. i # 17 /\ i # 24
  BY <1>1, OrderRows DEF RecordedIn, Did
<1>12. CASE i = 18
  <2>1. d.act = state.todo["experiment"] /\ state.todo["experiment"] # "none" /\ Has("auto_design")
    BY <1>1, <1>12, OrderRows
  <2>2. d.act \in CandidateActs
    BY <2>1 DEF RecordedIn, Did
  <2>3. QED
    BY <1>2, <1>3, <1>5, <1>12, <2>1, <2>2
    DEF CandidateActs, Ordered, Gated, Concluding, Budgeted, RunsSentaurus, d
<1>13. CASE i \in {23, 25}
  <2>1. /\ i = 23 => d.act = "plan_guidance" /\ BelowMax("guidance")
        /\ i = 25 => d.act = "plan_refinement" /\ BelowMax("refinement")
    BY <1>1, OrderRows
  <2>2. QED
    BY <1>13, <2>1 DEF Ordered, Gated, Concluding, Budgeted, Tools, d
<1>14. CASE i = 36
  <2>1. d.act = "stop_success" /\ d.src = state.latest
    BY <1>1, <1>6, <1>14 DEF Signoff, Row
  <2>2. ~Policy[22].when /\ ~Policy[30].when /\ ~Policy[31].when /\ ~Policy[33].when /\ ~Policy[34].when
    BY <1>1, <1>14
  <2>3. QED
    BY <2>1, <2>2, SignoffRows DEF Ordered, Gated, Concluding, Budgeted, Tools, d
<1>15. i \in 1 .. 36 \ {17, 24}
  BY <1>11
<1>16. QED
  BY <1>7, <1>8, <1>9, <1>10, <1>12, <1>13, <1>14, <1>15

-----------------------------------------------------------------------------
(***************************************************************************)
(* The end of a step.                                                      *)
(***************************************************************************)
\* What an action must make of the checkpoint before the step completes with
\* the state file path.
Sound(s, path) ==
    /\ s \in AgentState /\ s.latest = state.latest /\ s.from["candidate"] \in Files
    /\ s.todo["decision"] \in DecisionActs
    /\ \A a \in Artifacts : s.made[a] \in Files
    /\ \A a \in Artifacts \ {"dashboard"} : s.made[a] \in {0, state.latest, path}
    /\ \/ s.status \in {"running", "planned", "waiting"}
       \/ /\ s.status = "completed"
          /\ ~Has("llm") =>
                /\ path = state.latest /\ state.latest # 0 /\ ~NeedsRepair
                /\ s.made["benchmark"] # 0
                /\ Has("objectives") => s.made["objectives"] # 0
                /\ Has("report") => s.made["report"] # 0
    /\ action.act \in Tools => state.done \subseteq s.done
    /\ ~Has("llm") => RecordedIn(s)

\* The files the step leaves.
Left(path) ==
    \/ path \in Files /\ evidence' = evidence
    \/ path = Len(evidence) + 1 /\ \E e \in Report : evidence' = Append(evidence, e)

LEMMA FilesRemain ==
  ASSUME TypeOK, NEW path, Left(path)
  PROVE  /\ evidence' \in Seq(Report) /\ Files \subseteq Files' /\ path \in Files' /\ 0 \in Files'
         /\ path \in Files => evidence' = evidence
         /\ evidence # << >> => evidence' # << >>
<1>1. evidence \in Seq(Report) /\ Len(evidence) \in Nat
  BY DEF TypeOK
<1>2. CASE path \in Files /\ evidence' = evidence
  BY <1>1, <1>2 DEF Files
<1>3. ASSUME path = Len(evidence) + 1, NEW e \in Report, evidence' = Append(evidence, e)
      PROVE  /\ evidence' \in Seq(Report) /\ Len(evidence') = Len(evidence) + 1
             /\ evidence' # << >>
  BY <1>1, <1>3
<1>4. QED
  BY <1>1, <1>2, <1>3 DEF Left, Files

LEMMA CompleteKeeps ==
  ASSUME AgentInv, pc = "execute", NEW s, NEW path, Sound(s, path), Left(path), Complete(s, path)
  PROVE  AgentInv'
<1> DEFINE u == invalidate_state_dependent_signoff(s, path)
           t == [u EXCEPT !.step = "completed", !.done = @ \cup ToolFlags(action)]
<1> USE DEF AgentInv
<1>1. /\ evidence' \in Seq(Report) /\ Files \subseteq Files' /\ path \in Files' /\ 0 \in Files'
      /\ path \in Files => evidence' = evidence
      /\ evidence # << >> => evidence' # << >>
  BY FilesRemain
<1>2. path \in Nat /\ Files' \subseteq Nat
  BY <1>1 DEF Files
<1>3. /\ u \in AgentState
      /\ u.status = s.status /\ u.done = s.done /\ u.from = s.from /\ u.runs = s.runs /\ u.raised = s.raised /\ u.todo = s.todo
      /\ u.latest = IF path = 0 THEN state.latest ELSE path
      /\ path \in {0, state.latest} => u.made = s.made
      /\ path \notin {0, state.latest} => u.made = Unmade
  <2>1. s \in AgentState /\ s.latest = state.latest
    BY DEF Sound
  <2>2. Unmade \in [Artifacts -> Nat]
    BY DEF Unmade
  <2>3. QED
    BY <1>2, <2>1, <2>2 DEF invalidate_state_dependent_signoff, AgentState
<1> HIDE DEF u
<1>4. ToolFlags(action) \subseteq {"initial_tool", "sentaurus_run"}
  BY DEF ToolFlags
<1>5. /\ t \in AgentState /\ t.done = s.done \cup ToolFlags(action)
      /\ t.status = s.status /\ t.latest = u.latest /\ t.made = u.made
      /\ t.from = s.from /\ t.runs = s.runs /\ t.raised = s.raised /\ t.todo = s.todo
  <2>1. u.done \cup ToolFlags(action) \in SUBSET Flags
    BY <1>3, <1>4 DEF Flags, AgentState
  <2>2. QED
    BY <1>3, <2>1 DEF AgentState
<1> HIDE DEF t
<1>6. /\ state' \in AgentState
      /\ state'.latest = u.latest /\ state'.made = u.made /\ state'.done = t.done
      /\ state'.from = s.from /\ state'.runs = s.runs /\ state'.raised = s.raised /\ state'.todo = s.todo
      /\ state'.status \in {s.status, "cancelled"}
      /\ pc' = "check" => state'.status = s.status /\ s.status \notin {"completed", "waiting"}
      /\ pc' \in {"off", "check"}
      /\ asks' = asks /\ action' = action /\ token' = token /\ launches' = launches
  <2> DEFINE c == [t EXCEPT !.status = "cancelled"]
  <2>1. /\ c \in AgentState /\ c.latest = t.latest /\ c.made = t.made /\ c.done = t.done
        /\ c.from = t.from /\ c.runs = t.runs /\ c.raised = t.raised /\ c.todo = t.todo /\ c.status = "cancelled"
    BY <1>5 DEF AgentState, Statuses
  <2>2. /\ state' = IF ~(t.status \in {"completed", "waiting"}) /\ token THEN c ELSE t
        /\ pc' = IF t.status \in {"completed", "waiting"} \/ token THEN "off" ELSE "check"
        /\ asks' = asks /\ action' = action /\ token' = token /\ launches' = launches
    BY DEF Complete, t, u
  <2> HIDE DEF c
  <2>3. QED
    BY <1>5, <2>1, <2>2
<1>7. TypeOK'
  <2>1. state.latest \in Files /\ action.src \in Files
    BY DEF TypeOK
  <2>2. \A a \in Artifacts : s.made[a] \in Files' /\ Unmade[a] \in Files'
    BY <1>1 DEF Sound, Unmade
  <2>3. state'.latest \in Files' /\ \A a \in Artifacts : state'.made[a] \in Files'
    BY <1>1, <1>3, <1>6, <2>1, <2>2
  <2>4. QED
    BY <1>1, <1>6, <2>1, <2>3 DEF TypeOK
<1>8. SignoffIsCurrent'
  <2>1. \A a \in Artifacts : Unmade[a] = 0
    BY DEF Unmade
  <2>2. QED
    BY <1>3, <1>6, <2>1 DEF SignoffIsCurrent, Sound
<1>9. SignedOff'
  <2> SUFFICES ASSUME state'.status = "completed", ~Has("llm")
               PROVE  /\ state'.latest # 0 /\ ~NeedsRepair'
                      /\ state'.made["benchmark"] = state'.latest
                      /\ Has("objectives") => state'.made["objectives"] = state'.latest
                      /\ Has("report") => state'.made["report"] = state'.latest
    BY <1>6 DEF SignedOff, Has
  <2>1. /\ path = state.latest /\ state.latest # 0 /\ ~NeedsRepair
        /\ s.made["benchmark"] # 0
        /\ Has("objectives") => s.made["objectives"] # 0
        /\ Has("report") => s.made["report"] # 0
    BY <1>6 DEF Sound
  <2>2. state'.latest = state.latest /\ state'.made = s.made /\ evidence' = evidence
    BY <1>1, <1>3, <1>6, <2>1 DEF TypeOK
  <2>3. ~NeedsRepair'
    BY <2>1, <2>2 DEF NeedsRepair, Observed
  <2>4. \A a \in {"benchmark", "objectives", "report"} : s.made[a] \in {0, state.latest}
    BY <2>1 DEF Sound, Artifacts
  <2>5. QED
    BY <2>1, <2>2, <2>3, <2>4
<1>10. PlacesInv'
  <2>1. pc' # "off" => Live'
    BY <1>6 DEF Live, Sound
  <2>2. QED
    BY <1>1, <1>6, <2>1 DEF PlacesInv, Sound, Has
<1>11. ASSUME ~Has("llm")
       PROVE  Determined'
  <2>1. RecordedIn(s) /\ RecordedIn(state) /\ Ordered(action)
    BY <1>11 DEF Sound, Determined
  <2>2. "sentaurus_run" \in ToolFlags(action) => "preflight_ready" \in s.done
    <3>1. "sentaurus_run" \in ToolFlags(action) => RunsSentaurus(action) /\ Has("project") /\ action.act \in Tools
      BY DEF ToolFlags, RunsSentaurus, Tools
    <3>2. QED
      BY <2>1, <3>1 DEF Ordered, Gated, Sound, Did
  <2>3. RecordedIn(state)'
    BY <1>4, <1>5, <1>6, <2>1, <2>2 DEF RecordedIn, BudgetIn, Has
  <2>4. QED
    BY <1>6, <2>3 DEF Determined
<1>12. QED
  BY <1>6, <1>7, <1>8, <1>9, <1>10, <1>11 DEF Has

LEMMA FailKeeps ==
  ASSUME AgentInv, NEW s, Sound(s, 0), FailWith(s)
  PROVE  AgentInv'
<1> USE DEF AgentInv
<1> DEFINE t == [s EXCEPT !.step = "failed", !.status = "failed"]
<1>1. /\ t \in AgentState /\ t.status = "failed" /\ t.latest = s.latest /\ t.made = s.made
      /\ t.done = s.done /\ t.from = s.from /\ t.runs = s.runs /\ t.raised = s.raised /\ t.todo = s.todo
  BY DEF Sound, AgentState, Statuses
<1>2. /\ state' = t /\ pc' = "off"
      /\ UNCHANGED <<asks, action, evidence, token, launches>>
  BY DEF FailWith
<1> HIDE DEF t
<1>3. TypeOK'
  BY <1>1, <1>2 DEF TypeOK, Sound, Files
<1>4. SignoffIsCurrent' /\ SignedOff' /\ PlacesInv'
  BY <1>1, <1>2 DEF SignoffIsCurrent, SignedOff, PlacesInv, Sound, Files, Has
<1>5. ~Has("llm") => Determined'
  BY <1>1, <1>2 DEF Determined, RecordedIn, BudgetIn, Sound, Has
<1>6. QED
  BY <1>2, <1>3, <1>4, <1>5 DEF Has

-----------------------------------------------------------------------------
(***************************************************************************)
(* Executing the actions.                                                  *)
(***************************************************************************)
\* The checkpoint as it is may be completed with any file.
LEMMA StateIsSound ==
  ASSUME AgentInv, pc = "execute", NEW path
  PROVE  Sound(state, path)
<1>1. /\ state \in AgentState /\ state.from["candidate"] \in Files
      /\ state.todo["decision"] \in DecisionActs
  BY DEF AgentInv, TypeOK, PlacesInv
<1>2. \A a \in Artifacts : state.made[a] \in Files
  BY DEF AgentInv, TypeOK
<1>3. state.status \in {"running", "planned", "waiting"}
  BY DEF AgentInv, PlacesInv, Live
<1>4. QED
  BY <1>1, <1>2, <1>3 DEF Sound, AgentInv, SignoffIsCurrent, Determined

\* Changes that leave what is recorded as sound as it was.
LEMMA FlaggedIsSound ==
  ASSUME AgentInv, pc = "execute", NEW path, NEW flags \in SUBSET (Flags \ {"unverified", "sentaurus_run", "preflight_ready"})
  PROVE  Sound(Flagged(flags), path)
<1> DEFINE s == Flagged(flags)
<1>1. Sound(state, path)
  BY StateIsSound
<1>2. /\ s \in AgentState /\ s.done = state.done \cup flags /\ s.latest = state.latest /\ s.from = state.from
      /\ s.made = state.made /\ s.status = state.status /\ s.runs = state.runs /\ s.raised = state.raised /\ s.todo = state.todo
  BY <1>1 DEF Sound, Flagged, AgentState
<1> HIDE DEF s
<1>3. QED
  BY <1>1, <1>2 DEF Sound, RecordedIn, BudgetIn, s

LEMMA SettledIsSound ==
  ASSUME NEW s, NEW path, NEW k, Sound(s, path)
  PROVE  /\ Sound(Settle(s, k), path)
         /\ Settle(s, k).runs = s.runs /\ Settle(s, k).raised = s.raised /\ Settle(s, k).made = s.made /\ Settle(s, k).done = s.done
         /\ k \in Slots => Settle(s, k).todo[k] = "none"
<1> DEFINE t == Settle(s, k)
<1>1. CASE k \notin Slots
  BY <1>1 DEF Settle
<1>2. CASE k \in Slots
  <2>1. /\ t \in AgentState /\ t.done = s.done /\ t.latest = s.latest /\ t.from = s.from
        /\ t.made = s.made /\ t.status = s.status /\ t.runs = s.runs /\ t.raised = s.raised
        /\ t.todo = [s.todo EXCEPT ![k] = "none"]
    BY <1>2 DEF Sound, Settle, AgentState, Acts, Others
  <2>2. \A j \in Slots : t.todo[j] = IF j = k THEN "none" ELSE s.todo[j]
    BY <2>1 DEF Sound, AgentState
  <2> HIDE DEF t
  <2>3. ~Has("llm") => RecordedIn(t)
    BY <2>1, <2>2 DEF Sound, RecordedIn, BudgetIn, Slots, CandidateActs
  <2>4. t.todo["decision"] \in DecisionActs
    BY <2>2 DEF Sound, Slots, DecisionActs
  <2>5. QED
    BY <1>2, <2>1, <2>2, <2>3, <2>4 DEF Sound, t
<1>3. QED
  BY <1>1, <1>2

\* A follow-up patch is counted when it was queued within the limit.
LEMMA CountedIsSound ==
  ASSUME NEW s, NEW path, NEW ks \in SUBSET Counters, Sound(s, path),
         \A k \in ks \cap {"refinement", "guidance"} :
            ~Has("llm") /\ ~Has("auto_design") => s.runs[k] < MaxRefinements + s.raised[k] /\ s.todo[k] = "none"
  PROVE  Sound(Counted(s, ks), path) /\ Counted(s, ks).todo = s.todo /\ Counted(s, ks).done = s.done
<1> DEFINE t == Counted(s, ks)
           runs == [k \in Counters |-> IF k \in ks THEN s.runs[k] + 1 ELSE s.runs[k]]
<1>1. runs \in [Counters -> Nat]
  BY DEF Sound, AgentState
<1>2. s \in AgentState
  BY DEF Sound
<1>3. /\ t \in AgentState /\ t.done = s.done /\ t.latest = s.latest /\ t.from = s.from
      /\ t.made = s.made /\ t.status = s.status /\ t.todo = s.todo /\ t.runs = runs /\ t.raised = s.raised
  BY <1>1, <1>2 DEF Counted, AgentState
<1> HIDE DEF t
<1>4. MaxRefinements \in Nat /\ {"refinement", "guidance"} \subseteq Counters
  BY LimitAssumption DEF Counters
<1>5. ASSUME ~Has("llm")
      PROVE  RecordedIn(t)
  <2>1. RecordedIn(s) /\ \A k \in Counters : s.runs[k] \in Nat /\ s.raised[k] \in Nat
    BY <1>5, <1>2 DEF Sound, AgentState
  <2>2. ~Has("auto_design") => BudgetIn(t)
    BY <1>3, <1>4, <1>5, <2>1 DEF RecordedIn, BudgetIn
  <2>3. QED
    BY <1>3, <2>1, <2>2 DEF RecordedIn
<1>6. Sound(t, path)
  BY <1>3, <1>5 DEF Sound
<1>7. QED
  BY <1>3, <1>6 DEF t

LEMMA PlannedIsSound ==
  ASSUME NEW s, NEW path, NEW ks, TypeOK, Sound(s, path)
  PROVE  /\ Sound(Planned(s, ks), path)
         /\ Planned(s, ks).todo = s.todo /\ Planned(s, ks).runs = s.runs /\ Planned(s, ks).raised = s.raised /\ Planned(s, ks).done = s.done
<1> DEFINE t == Planned(s, ks)
           from == [k \in Plans |-> IF k \in ks THEN action.src ELSE s.from[k]]
<1>1. action.src \in Files /\ action.src \in Nat
  BY DEF TypeOK, Files
<1>2. s \in AgentState
  BY DEF Sound
<1>3. from \in [Plans -> Nat] /\ from["candidate"] \in Files
  BY <1>1, <1>2 DEF Sound, AgentState, Plans
<1>4. /\ t \in AgentState /\ t.done = s.done /\ t.latest = s.latest /\ t.from = from
      /\ t.made = s.made /\ t.status = s.status /\ t.todo = s.todo /\ t.runs = s.runs /\ t.raised = s.raised
  BY <1>2, <1>3 DEF Planned, AgentState
<1> HIDE DEF t, from
<1>5. Sound(t, path)
  BY <1>3, <1>4 DEF Sound, RecordedIn, BudgetIn
<1>6. QED
  BY <1>4, <1>5 DEF t

\* An agent of the policy queues no decision, no candidate the designs do not
\* propose and no follow-up patch beyond the limit.
LEMMA QueuedIsSound ==
  ASSUME NEW s, NEW path, NEW k \in Slots, NEW a \in Acts, NEW ask, Sound(s, path),
         k = "decision" => a \in DecisionActs,
         ~Has("llm") => /\ k # "decision"
                        /\ k = "experiment" => a \in CandidateActs
                        /\ k \in {"refinement", "guidance"} /\ ~Has("auto_design") => s.runs[k] < MaxRefinements + s.raised[k]
  PROVE  /\ Sound(QueuedIn(s, k, a, ask), path)
         /\ QueuedIn(s, k, a, ask).done = s.done /\ QueuedIn(s, k, a, ask).runs = s.runs /\ QueuedIn(s, k, a, ask).raised = s.raised
<1> DEFINE t == QueuedIn(s, k, a, ask)
           todo == [s.todo EXCEPT ![k] = a]
           risky == IF ask THEN s.risky \cup {k} ELSE s.risky \ {k}
<1>1. s \in AgentState
  BY DEF Sound
<1>2. todo \in [Slots -> Acts] /\ (\A j \in Slots : todo[j] = IF j = k THEN a ELSE s.todo[j])
  BY <1>1 DEF AgentState
<1>3. risky \in SUBSET Slots
  BY <1>1 DEF AgentState
<1>4. /\ t \in AgentState /\ t.done = s.done /\ t.latest = s.latest /\ t.from = s.from
      /\ t.made = s.made /\ t.status = s.status /\ t.todo = todo /\ t.runs = s.runs /\ t.raised = s.raised
  BY <1>1, <1>2, <1>3 DEF QueuedIn, AgentState
<1> HIDE DEF t, todo
<1>5. ~Has("llm") => RecordedIn(t)
  BY <1>2, <1>4 DEF Sound, RecordedIn, BudgetIn, Slots
<1>6. t.todo["decision"] \in DecisionActs
  BY <1>2, <1>4 DEF Sound, Slots
<1>7. Sound(t, path)
  BY <1>4, <1>5, <1>6 DEF Sound
<1>8. QED
  BY <1>4, <1>7 DEF t

LEMMA MadeIsSound ==
  ASSUME NEW s, NEW a \in Artifacts, NEW src \in Files, NEW path, Sound(s, path), a = "dashboard" \/ src = path
  PROVE  /\ Sound([s EXCEPT !.made[a] = src], path)
<1> DEFINE t == [s EXCEPT !.made[a] = src]
           made == [s.made EXCEPT ![a] = src]
<1>1. s \in AgentState /\ src \in Nat
  BY DEF Sound, Files
<1>2. made \in [Artifacts -> Nat] /\ (\A b \in Artifacts : made[b] = IF b = a THEN src ELSE s.made[b])
  BY <1>1 DEF AgentState
<1>3. /\ t \in AgentState /\ t.done = s.done /\ t.latest = s.latest /\ t.from = s.from
      /\ t.made = made /\ t.status = s.status /\ t.todo = s.todo /\ t.runs = s.runs /\ t.raised = s.raised
  BY <1>1, <1>2 DEF AgentState
<1> HIDE DEF t, made
<1>4. QED
  BY <1>2, <1>3 DEF Sound, RecordedIn, BudgetIn, t

\* Completing with a file that is there, a new one, or one of either kind.
LEMMA HereKeeps ==
  ASSUME AgentInv, pc = "execute", NEW s, NEW path \in Files, Sound(s, path), CompleteHere(s, path)
  PROVE  AgentInv'
<1>1. evidence' = evidence
  BY DEF CompleteHere
<1>2. QED
  BY <1>1, CompleteKeeps DEF CompleteHere, Left

LEMMA WithKeeps ==
  ASSUME AgentInv, pc = "execute", NEW s, NEW reports, reports \subseteq Report,
         Sound(s, Len(evidence) + 1), CompleteWith(s, reports)
  PROVE  AgentInv'
<1>1. \E e \in Report : evidence' = Append(evidence, e)
  BY DEF CompleteWith
<1>2. Left(Len(evidence) + 1) /\ Complete(s, Len(evidence) + 1)
  BY <1>1 DEF CompleteWith, Left
<1>3. QED
  BY <1>2, CompleteKeeps

LEMMA ToolKeeps ==
  ASSUME AgentInv, pc = "execute", NEW s, \A path : Sound(s, path), CompleteTool(s)
  PROVE  AgentInv'
<1>1. Reports \subseteq Report
  BY RequestAssumption DEF Reports
<1>2. CASE \E path \in Files : CompleteHere(s, path)
  BY <1>2, HereKeeps
<1>3. CASE CompleteWith(s, Reports)
  BY <1>1, <1>3, WithKeeps
<1>4. QED
  BY <1>2, <1>3 DEF CompleteTool

\* The two follow-up patches and their counters.
LEMMA FollowUps ==
  /\ DOMAIN FollowUp = {"run_refinement", "run_guidance"}
  /\ FollowUp["run_refinement"] = "refinement" /\ FollowUp["run_guidance"] = "guidance"
  BY DEF FollowUp

\* The tools, whose result queues nothing.
LEMMA ToolsKeep ==
  ASSUME AgentInv, RunSupervisor \/ RunTool \/ RunRepair \/ RunUserDeck
  PROVE  AgentInv'
<1>1. pc = "execute"
  BY DEF RunSupervisor, RunTool, RunRepair, RunUserDeck, Doing
<1>2. \A path : Sound(state, path)
  BY <1>1, StateIsSound
<1>3. CASE RunSupervisor
  BY <1>1, <1>2, <1>3, ToolKeeps DEF RunSupervisor
<1>4. CASE RunRepair
  <2>1. \A path : Sound(Settle(state, action.slot), path)
    BY <1>2, SettledIsSound
  <2>2. QED
    BY <1>1, <1>4, <2>1, ToolKeeps DEF RunRepair
<1>5. CASE RunUserDeck
  <2>1. \A path : Sound(Flagged({"user_deck"}), path)
    <3>1. {"user_deck"} \in SUBSET (Flags \ {"unverified", "sentaurus_run", "preflight_ready"})
      BY DEF Flags
    <3>2. QED
      BY <1>1, <3>1, FlaggedIsSound
  <2>2. QED
    BY <1>1, <1>5, <2>1, ToolKeeps DEF RunUserDeck
<1>6. CASE RunTool
  <2> DEFINE s == Settle(state, action.slot)
             ks == {FollowUp[act] : act \in {action.act} \cap DOMAIN FollowUp}
  <2>1. /\ ks \in SUBSET Counters
        /\ \A k \in ks : \/ action.act = "run_refinement" /\ k = "refinement"
                         \/ action.act = "run_guidance" /\ k = "guidance"
    BY FollowUps DEF Counters
  <2>2. \A path : Sound(s, path) /\ s.runs = state.runs /\ s.raised = state.raised /\ (action.slot \in Slots => s.todo[action.slot] = "none")
    BY <1>2, SettledIsSound
  <2>3. \A k \in ks \cap {"refinement", "guidance"} :
            ~Has("llm") /\ ~Has("auto_design") => s.runs[k] < MaxRefinements + s.raised[k] /\ s.todo[k] = "none"
    <3> SUFFICES ASSUME NEW k \in ks, ~Has("llm"), ~Has("auto_design")
                 PROVE  s.runs[k] < MaxRefinements + s.raised[k] /\ s.todo[k] = "none"
      OBVIOUS
    <3>1. Budgeted(action) /\ BudgetIn(state)
      BY <1>1 DEF AgentInv, Determined, RecordedIn, Ordered
    <3>2. k \in {"refinement", "guidance"} /\ action.slot = k /\ state.todo[k] # "none"
      BY <2>1, <3>1 DEF Budgeted
    <3> HIDE DEF s
    <3>3. QED
      BY <2>2, <3>1, <3>2 DEF BudgetIn, Slots
  <2>4. CompleteTool(Counted(s, ks))
    BY <1>6 DEF RunTool
  <2> HIDE DEF s, ks
  <2>5. \A path : Sound(Counted(s, ks), path)
    BY <2>1, <2>2, <2>3, CountedIsSound
  <2>6. QED
    BY <1>1, <2>4, <2>5, ToolKeeps
<1>7. QED
  BY <1>3, <1>4, <1>5, <1>6

\* What a step that changes only the flags must see to.
LEMMA FlagsAreSound ==
  ASSUME AgentInv, pc = "execute", NEW path, NEW done \in SUBSET Flags,
         action.act \in Tools => state.done \subseteq done,
         ~Has("llm") =>
            /\ "unverified" \in done => "patched" \in done
            /\ "sentaurus_run" \in done => "preflight_ready" \in done
            /\ "preflight_ready" \in done => "preflight" \in done
  PROVE  Sound([state EXCEPT !.done = done], path)
<1> DEFINE s == [state EXCEPT !.done = done]
<1>1. Sound(state, path)
  BY StateIsSound
<1>2. /\ s \in AgentState /\ s.done = done /\ s.latest = state.latest /\ s.from = state.from
      /\ s.made = state.made /\ s.status = state.status /\ s.runs = state.runs /\ s.raised = state.raised /\ s.todo = state.todo
  BY <1>1 DEF Sound, AgentState
<1> HIDE DEF s
<1>3. ~Has("llm") => RecordedIn(s)
  BY <1>1, <1>2 DEF Sound, RecordedIn, BudgetIn
<1>4. Sound(s, path)
  BY <1>1, <1>2, <1>3 DEF Sound
<1>5. QED
  BY <1>4 DEF s

\* Audits, decks, and what is checked on the remote machine.
LEMMA SetupKeeps ==
  ASSUME AgentInv, AuditCapability \/ RunOnboarding \/ RunPreflight \/ IngestDeck \/ ApplyDeckPatch
  PROVE  AgentInv'
<1>1. pc = "execute"
  BY DEF AuditCapability, RunOnboarding, RunPreflight, IngestDeck, ApplyDeckPatch, Doing
<1>2. /\ 0 \in Files /\ state.done \in SUBSET Flags /\ state \in AgentState
      /\ ~Has("llm") => RecordedIn(state) /\ Ordered(action)
  <2>1. Len(evidence) \in Nat
    BY DEF AgentInv, TypeOK
  <2>2. QED
    BY <1>1, <2>1 DEF AgentInv, TypeOK, AgentState, Files, Determined
<1>3. CASE AuditCapability
  <2>1. {"audit"} \in SUBSET (Flags \ {"unverified", "sentaurus_run", "preflight_ready"})
    BY DEF Flags
  <2>2. Sound(Flagged({"audit"}), 0)
    BY <1>1, <2>1, FlaggedIsSound
  <2>3. QED
    BY <1>1, <1>2, <1>3, <2>2, HereKeeps DEF AuditCapability
<1>4. CASE RunOnboarding
  <2>1. PICK ready \in BOOLEAN :
          CompleteHere([state EXCEPT
            !.done = (@ \ {"onboarding_ready"}) \cup {"onboarding"}
                     \cup (IF ready THEN {"onboarding_ready"} ELSE {})], 0)
    BY <1>4 DEF RunOnboarding
  <2> DEFINE done == (state.done \ {"onboarding_ready"}) \cup {"onboarding"}
                     \cup (IF ready THEN {"onboarding_ready"} ELSE {})
  <2>2. done \in SUBSET Flags
    BY <1>2 DEF Flags
  <2>3. action.act \notin Tools
    BY <1>4 DEF RunOnboarding, Doing, Tools
  <2>4. Sound([state EXCEPT !.done = done], 0)
    <3>1. \A f \in {"unverified", "patched", "sentaurus_run", "preflight_ready", "preflight"} :
            f \in done <=> f \in state.done
      OBVIOUS
    <3> HIDE DEF done
    <3>2. QED
      BY <1>1, <1>2, <2>2, <2>3, <3>1, FlagsAreSound DEF RecordedIn
  <2>5. CompleteHere([state EXCEPT !.done = done], 0)
    BY <2>1
  <2> HIDE DEF done
  <2>6. QED
    BY <1>1, <1>2, <2>4, <2>5, HereKeeps
<1>5. CASE RunPreflight
  <2>1. PICK ready \in BOOLEAN :
          CompleteHere([state EXCEPT
            !.done = (@ \ {"preflight_ready"}) \cup {"preflight"}
                     \cup (IF ready THEN {"preflight_ready"} ELSE {})], 0)
    BY <1>5 DEF RunPreflight
  <2> DEFINE done == (state.done \ {"preflight_ready"}) \cup {"preflight"}
                     \cup (IF ready THEN {"preflight_ready"} ELSE {})
  <2>2. done \in SUBSET Flags
    BY <1>2 DEF Flags
  <2>3. action.act \notin Tools
    BY <1>5 DEF RunPreflight, Doing, Tools
  <2>4. ~Has("llm") => "sentaurus_run" \notin state.done
    BY <1>2, <1>5 DEF RunPreflight, Doing, Ordered, RecordedIn, Did
  <2>5. Sound([state EXCEPT !.done = done], 0)
    <3>1. /\ \A f \in {"unverified", "patched", "sentaurus_run"} : f \in done <=> f \in state.done
          /\ "preflight" \in done
      OBVIOUS
    <3> HIDE DEF done
    <3>2. QED
      BY <1>1, <1>2, <2>2, <2>3, <2>4, <3>1, FlagsAreSound DEF RecordedIn
  <2>6. CompleteHere([state EXCEPT !.done = done], 0)
    BY <2>1
  <2> HIDE DEF done
  <2>7. QED
    BY <1>1, <1>2, <2>5, <2>6, HereKeeps
<1>6. CASE IngestDeck
  <2>1. {"ingested"} \in SUBSET (Flags \ {"unverified", "sentaurus_run", "preflight_ready"})
    BY DEF Flags
  <2>2. Sound(Flagged({"ingested"}), Len(evidence) + 1)
    BY <1>1, <2>1, FlaggedIsSound
  <2> DEFINE sessions == [tool : {"devsim"}, bad : BOOLEAN, effect : {"none"}]
  <2>3. sessions \subseteq Report
    BY DEF Report, Effects
  <2>4. CompleteWith(Flagged({"ingested"}), sessions)
    BY <1>6 DEF IngestDeck
  <2> HIDE DEF sessions
  <2>5. QED
    BY <1>1, <2>2, <2>3, <2>4, WithKeeps
<1>7. CASE ApplyDeckPatch
  <2>1. PICK verified \in BOOLEAN :
          CompleteWith([state EXCEPT
                !.done = (@ \ {"unverified"}) \cup {"patched"}
                         \cup (IF verified THEN {} ELSE {"unverified"})],
            {[tool |-> "devsim", bad |-> ~verified, effect |-> "none"]})
    BY <1>7 DEF ApplyDeckPatch
  <2> DEFINE done == (state.done \ {"unverified"}) \cup {"patched"}
                     \cup (IF verified THEN {} ELSE {"unverified"})
             sessions == {[tool |-> "devsim", bad |-> ~verified, effect |-> "none"]}
  <2>2. done \in SUBSET Flags
    BY <1>2 DEF Flags
  <2>3. action.act \notin Tools
    BY <1>7 DEF ApplyDeckPatch, Doing, Tools
  <2>4. Sound([state EXCEPT !.done = done], Len(evidence) + 1)
    <3>1. /\ \A f \in {"sentaurus_run", "preflight_ready", "preflight"} : f \in done <=> f \in state.done
          /\ "patched" \in done
      OBVIOUS
    <3> HIDE DEF done
    <3>2. QED
      BY <1>1, <1>2, <2>2, <2>3, <3>1, FlagsAreSound DEF RecordedIn
  <2>5. sessions \subseteq Report
    BY DEF Report, Effects
  <2>6. CompleteWith([state EXCEPT !.done = done], sessions)
    BY <2>1
  <2> HIDE DEF done, sessions
  <2>7. QED
    BY <1>1, <2>4, <2>5, <2>6, WithKeeps
<1>8. QED
  BY <1>3, <1>4, <1>5, <1>6, <1>7

\* The curve guidance is not part of what is recorded.
LEMMA GuideIsSound ==
  ASSUME NEW s, NEW path, NEW n \in Nat, Sound(s, path)
  PROVE  /\ Sound([s EXCEPT !.guide = n], path) /\ Sound([s EXCEPT !.signed = n], path)
         /\ [s EXCEPT !.signed = n].runs = s.runs /\ [s EXCEPT !.signed = n].raised = s.raised
<1> DEFINE t == [s EXCEPT !.guide = n]
           u == [s EXCEPT !.signed = n]
<1>1. /\ t \in AgentState /\ t.done = s.done /\ t.latest = s.latest /\ t.from = s.from
      /\ t.made = s.made /\ t.status = s.status /\ t.todo = s.todo /\ t.runs = s.runs /\ t.raised = s.raised
  BY DEF Sound, AgentState
<1>2. /\ u \in AgentState /\ u.done = s.done /\ u.latest = s.latest /\ u.from = s.from
      /\ u.made = s.made /\ u.status = s.status /\ u.todo = s.todo /\ u.runs = s.runs /\ u.raised = s.raised
  BY DEF Sound, AgentState
<1> HIDE DEF t, u
<1>3. Sound(t, path) /\ Sound(u, path)
  BY <1>1, <1>2 DEF Sound, RecordedIn, BudgetIn
<1>4. QED
  BY <1>2, <1>3 DEF t, u

\* A follow-up patch that is counted and raises stays queued, and within the
\* allowance; so does whatever else a branch changed before it raised.
LEMMA HalfDoneIsSound ==
  ASSUME AgentInv, pc = "execute", NEW s \in HalfDone
  PROVE  Sound(s, 0)
<1>1. Sound(state, 0) /\ state \in AgentState
  BY StateIsSound DEF Sound
<1>2. CASE action.act = "audit_capability"
  <2>1. {"audit"} \in SUBSET (Flags \ {"unverified", "sentaurus_run", "preflight_ready"})
    BY DEF Flags
  <2>2. s = Flagged({"audit"})
    BY <1>2, FollowUps DEF HalfDone
  <2>3. QED
    BY <2>1, <2>2, FlaggedIsSound
<1>3. CASE action.act \in DOMAIN FollowUp
  <2> DEFINE k == FollowUp[action.act]
             runs == [j \in Counters |-> IF j \in {k} THEN state.runs[j] + 1 ELSE state.runs[j]]
             raised == [state.raised EXCEPT ![k] = @ + 1]
  <2>1. k \in Counters /\ action.act # "audit_capability"
    BY <1>3, FollowUps DEF Counters
  <2>2. s = [Counted(state, {k}) EXCEPT !.raised[k] = @ + 1]
    BY <1>3, FollowUps DEF HalfDone
  <2> HIDE DEF k
  <2>3. runs \in [Counters -> Nat] /\ raised \in [Counters -> Nat]
    BY <1>1, <2>1 DEF AgentState
  <2>4. \A j \in Counters :
          /\ runs[j] = IF j = k THEN state.runs[j] + 1 ELSE state.runs[j]
          /\ raised[j] = IF j = k THEN state.raised[j] + 1 ELSE state.raised[j]
    BY <1>1, <2>1 DEF AgentState
  <2>5. /\ s \in AgentState /\ s.done = state.done /\ s.latest = state.latest /\ s.from = state.from
        /\ s.made = state.made /\ s.status = state.status /\ s.todo = state.todo
        /\ s.runs = runs /\ s.raised = raised
    BY <1>1, <2>2, <2>3 DEF Counted, AgentState
  <2> HIDE DEF runs, raised
  <2>6. \A j \in Counters : state.runs[j] \in Nat /\ state.raised[j] \in Nat
    BY <1>1 DEF AgentState
  <2>7. {"refinement", "guidance"} \subseteq Counters /\ MaxRefinements \in Nat
    BY LimitAssumption DEF Counters
  <2>8. ASSUME ~Has("llm")
        PROVE  RecordedIn(s)
    <3>1. RecordedIn(state)
      BY <1>1, <2>8 DEF Sound
    <3>2. ~Has("auto_design") => BudgetIn(s)
      BY <2>4, <2>5, <2>6, <2>7, <3>1 DEF RecordedIn, BudgetIn
    <3>3. QED
      BY <2>5, <3>1, <3>2 DEF RecordedIn
  <2>9. QED
    BY <1>1, <2>5, <2>8 DEF Sound
<1>4. CASE action.act = "run_sentaurus_patch"
  <2>1. s = Settle(state, action.slot)
    BY <1>4, FollowUps DEF HalfDone
  <2>2. QED
    BY <1>1, <2>1, SettledIsSound
<1>5. QED
  BY <1>2, <1>3, <1>4 DEF HalfDone

\* Benchmark, objectives, report and dashboard, and the end of the run.
LEMMA SignoffKeeps ==
  ASSUME AgentInv,
         RunBenchmark \/ EvaluateObjectives \/ GenerateReport \/ GenerateDashboard \/ StopSuccess \/ AskUser
         \/ Raise
  PROVE  AgentInv'
<1>1. pc = "execute"
  BY DEF RunBenchmark, EvaluateObjectives, GenerateReport, GenerateDashboard, StopSuccess, AskUser, Raise, Doing
<1>2. action.src \in Files /\ 0 \in Files /\ state.latest \in Files /\ state \in AgentState
  <2>1. Len(evidence) \in Nat
    BY DEF AgentInv, TypeOK
  <2>2. QED
    BY <2>1 DEF AgentInv, TypeOK, Files
<1>3. \A path : Sound(state, path)
  BY <1>1, StateIsSound
<1>4. Artifacts = {"benchmark", "objectives", "report", "dashboard"}
  BY DEF Artifacts
<1>5. CASE RunBenchmark
  <2>1. Sound([state EXCEPT !.made["benchmark"] = action.src], action.src)
    BY <1>2, <1>3, <1>4, MadeIsSound
  <2>2. QED
    BY <1>1, <1>2, <1>5, <2>1, HereKeeps DEF RunBenchmark
<1>6. CASE GenerateReport
  <2>1. Sound([state EXCEPT !.made["report"] = action.src], action.src)
    BY <1>2, <1>3, <1>4, MadeIsSound
  <2>2. QED
    BY <1>1, <1>2, <1>6, <2>1, HereKeeps DEF GenerateReport
<1>7. CASE GenerateDashboard
  <2>1. Sound([state EXCEPT !.made["dashboard"] = action.src], 0)
    BY <1>2, <1>3, <1>4, MadeIsSound
  <2>2. QED
    BY <1>1, <1>2, <1>7, <2>1, HereKeeps DEF GenerateDashboard
<1>8. CASE EvaluateObjectives
  <2> DEFINE s == Settle(state, action.slot)
             evaluated == [s EXCEPT !.made["objectives"] = action.src]
             t == IF action.slot = "tradeoff" THEN Planned(evaluated, {"tradeoff"}) ELSE evaluated
  <2>1. Sound(s, action.src)
    BY <1>3, SettledIsSound
  <2>2. CompleteHere(t, action.src)
    BY <1>8 DEF EvaluateObjectives
  <2> HIDE DEF s
  <2>3. Sound(evaluated, action.src)
    BY <1>2, <1>4, <2>1, MadeIsSound
  <2> HIDE DEF evaluated
  <2>4. Sound(t, action.src)
    BY <2>3, PlannedIsSound DEF AgentInv
  <2> HIDE DEF t
  <2>5. QED
    BY <1>1, <1>2, <2>2, <2>4, HereKeeps
<1>9. CASE StopSuccess
  <2> DEFINE s == [state EXCEPT !.status = "completed"]
  <2>1. /\ s \in AgentState /\ s.done = state.done /\ s.latest = state.latest /\ s.from = state.from
        /\ s.made = state.made /\ s.status = "completed" /\ s.runs = state.runs /\ s.raised = state.raised /\ s.todo = state.todo
    BY <1>2 DEF AgentState, Statuses
  <2>2. CompleteHere(s, action.src)
    BY <1>9 DEF StopSuccess
  <2> HIDE DEF s
  <2>3. ~Has("llm") => Concluding(action) /\ action.act = "stop_success"
    BY <1>1, <1>9 DEF StopSuccess, Doing, AgentInv, Determined, Ordered
  <2>4. Sound(s, action.src)
    <3>1. ~Has("llm") =>
            /\ action.src = state.latest /\ state.latest # 0 /\ ~NeedsRepair
            /\ s.made["benchmark"] # 0
            /\ Has("objectives") => s.made["objectives"] # 0
            /\ Has("report") => s.made["report"] # 0
      BY <2>1, <2>3 DEF Concluding
    <3>2. QED
      BY <1>3, <2>1, <3>1 DEF Sound, RecordedIn, BudgetIn
  <2>5. QED
    BY <1>1, <1>2, <2>2, <2>4, HereKeeps
<1>10. CASE AskUser
  <2> DEFINE s == [state EXCEPT !.status = "waiting"]
  <2>1. /\ s \in AgentState /\ s.done = state.done /\ s.latest = state.latest /\ s.from = state.from
        /\ s.made = state.made /\ s.status = "waiting" /\ s.runs = state.runs /\ s.raised = state.raised /\ s.todo = state.todo
    BY <1>2 DEF AgentState, Statuses
  <2>2. CompleteHere(s, state.latest)
    BY <1>10 DEF AskUser
  <2> HIDE DEF s
  <2>3. Sound(s, state.latest)
    BY <1>3, <2>1 DEF Sound, RecordedIn, BudgetIn
  <2>4. QED
    BY <1>1, <1>2, <2>2, <2>3, HereKeeps
<1>11. CASE Raise
  <2>1. \A s \in HalfDone : Sound(s, 0)
    BY <1>1, HalfDoneIsSound
  <2>2. PICK s \in {state} \cup HalfDone : FailWith(s)
    BY <1>11 DEF Raise
  <2>3. QED
    BY <1>3, <2>1, <2>2, FailKeeps
<1>12. QED
  BY <1>5, <1>6, <1>7, <1>8, <1>9, <1>10, <1>11

LEMMA PlanActs ==
  /\ {"none", "plan_guidance", "run_repair", "pareto_review", "run_refinement", "run_guidance",
      "run_sentaurus_patch", "ask_user"} \subseteq Acts
  /\ CandidateActs \subseteq Acts
  BY DEF Acts, Asks, Tools, StateBound, Others, CandidateActs

LEMMA CountersAreNat ==
  ASSUME AgentInv
  PROVE  \A k \in {"refinement", "guidance"} : state.runs[k] \in Nat /\ state.raised[k] \in Nat
  BY DEF AgentInv, TypeOK, AgentState, Counters

\* Plans that queue a curve decision or a follow-up patch of a devsim state.
LEMMA CurvePlansKeep ==
  ASSUME AgentInv, PlanCurveDecision \/ PlanRefinement \/ PlanGuidance
  PROVE  AgentInv'
<1>1. pc = "execute"
  BY DEF PlanCurveDecision, PlanRefinement, PlanGuidance, Doing
<1>2. action.src \in Files /\ state \in AgentState /\ TypeOK
  BY DEF AgentInv, TypeOK
<1>3. \A path : Sound(state, path)
  BY <1>1, StateIsSound
<1>4. CASE PlanCurveDecision
  <2> DEFINE counted == Planned(Counted(state, {"decision"}), {"decision"})
             decided == Planned(counted, {"decided"})
  <2>1. Has("llm")
    BY <1>1, <1>4 DEF PlanCurveDecision, Doing, AgentInv, Determined, Ordered
  <2>2. \A path : Sound(counted, path)
    <3>1. {"decision"} \in SUBSET Counters
      BY DEF Counters
    <3>2. \A path : Sound(Counted(state, {"decision"}), path)
      BY <1>3, <2>1, <3>1, CountedIsSound
    <3>3. QED
      BY <1>2, <3>2, PlannedIsSound
  <2>3. Sound(decided, action.src) /\ decided.runs["decision"] + 1 \in Nat
    <3>1. Sound(decided, action.src)
      BY <1>2, <2>2, PlannedIsSound
    <3>2. QED
      BY <3>1 DEF Sound, AgentState, Counters
  <2>4. \/ CompleteHere([QueuedIn(decided, "decision", "plan_guidance", FALSE)
                            EXCEPT !.guide = decided.runs["decision"] + 1], action.src)
        \/ \E next \in {"run_repair", "pareto_review"} :
             CompleteHere([QueuedIn(decided, "decision", next, FALSE)
                             EXCEPT !.guide = 0], action.src)
        \/ CompleteHere(counted, action.src)
        \/ FailWith(counted)
    BY <1>4 DEF PlanCurveDecision
  <2> HIDE DEF counted, decided
  <2>5. \A next \in {"plan_guidance", "run_repair", "pareto_review"} :
          Sound(QueuedIn(decided, "decision", next, FALSE), action.src)
    <3>1. "decision" \in Slots
      BY DEF Slots
    <3>2. QED
      BY <2>1, <2>3, <3>1, QueuedIsSound, PlanActs DEF DecisionActs
  <2>6. \A next \in {"plan_guidance", "run_repair", "pareto_review"}, n \in Nat :
          Sound([QueuedIn(decided, "decision", next, FALSE) EXCEPT !.guide = n], action.src)
    BY <2>5, GuideIsSound
  <2>7. CASE CompleteHere([QueuedIn(decided, "decision", "plan_guidance", FALSE)
                             EXCEPT !.guide = decided.runs["decision"] + 1], action.src)
    BY <1>1, <1>2, <2>3, <2>6, <2>7, HereKeeps
  <2>8. CASE \E next \in {"run_repair", "pareto_review"} :
              CompleteHere([QueuedIn(decided, "decision", next, FALSE) EXCEPT !.guide = 0], action.src)
    BY <1>1, <1>2, <2>6, <2>8, HereKeeps
  <2>9. CASE CompleteHere(counted, action.src) \/ FailWith(counted)
    BY <1>1, <1>2, <2>2, <2>9, HereKeeps, FailKeeps
  <2>10. QED
    BY <2>4, <2>7, <2>8, <2>9
<1>5. CASE PlanRefinement
  <2> DEFINE planned == Planned(state, {"refinement"})
  <2>1. Sound(planned, action.src) /\ planned.runs = state.runs /\ planned.raised = state.raised
    BY <1>2, <1>3, PlannedIsSound
  <2>2. \/ CompleteHere(planned, action.src)
        \/ \E ask \in BOOLEAN : CompleteHere(QueuedIn(planned, "refinement", "run_refinement", ask), action.src)
    BY <1>5 DEF PlanRefinement
  <2> HIDE DEF planned
  <2>3. ~Has("llm") /\ ~Has("auto_design") => planned.runs["refinement"] < MaxRefinements + planned.raised["refinement"]
    <3>1. ~Has("llm") /\ ~Has("auto_design") => state.runs["refinement"] < MaxRefinements
      BY <1>1, <1>5 DEF PlanRefinement, Doing, AgentInv, Determined, Ordered, Budgeted, BelowMax
    <3>2. MaxRefinements \in Nat /\ state.runs["refinement"] \in Nat /\ state.raised["refinement"] \in Nat
      BY LimitAssumption, CountersAreNat
    <3>3. QED
      BY <2>1, <3>1, <3>2
  <2>4. \A ask : Sound(QueuedIn(planned, "refinement", "run_refinement", ask), action.src)
    <3>1. "refinement" \in Slots
      BY DEF Slots
    <3>2. QED
      BY <2>1, <2>3, <3>1, QueuedIsSound, PlanActs
  <2>5. QED
    BY <1>1, <1>2, <2>1, <2>2, <2>4, HereKeeps
<1>6. CASE PlanGuidance
  <2> DEFINE sign == IF action.slot = "decision" THEN state.guide ELSE Guide
             settled == Settle(state, action.slot)
             planned == [settled EXCEPT !.signed = sign]
  <2>1. sign \in Nat
    BY <1>2 DEF AgentState, Guide
  <2>2. \/ CompleteHere(planned, action.src)
        \/ \E ask \in BOOLEAN : CompleteHere(QueuedIn(planned, "guidance", "run_guidance", ask), action.src)
    BY <1>6 DEF PlanGuidance
  <2>3. Sound(settled, action.src) /\ settled.runs = state.runs /\ settled.raised = state.raised
    BY <1>3, SettledIsSound
  <2> HIDE DEF sign, settled
  <2>4. Sound(planned, action.src) /\ planned.runs = state.runs /\ planned.raised = state.raised
    BY <2>1, <2>3, GuideIsSound
  <2> HIDE DEF planned
  <2>5. ~Has("llm") /\ ~Has("auto_design") => planned.runs["guidance"] < MaxRefinements + planned.raised["guidance"]
    <3>1. ~Has("llm") /\ ~Has("auto_design") => state.runs["guidance"] < MaxRefinements
      BY <1>1, <1>6 DEF PlanGuidance, Doing, AgentInv, Determined, Ordered, Budgeted, BelowMax
    <3>2. MaxRefinements \in Nat /\ state.runs["guidance"] \in Nat /\ state.raised["guidance"] \in Nat
      BY LimitAssumption, CountersAreNat
    <3>3. QED
      BY <2>4, <3>1, <3>2
  <2>6. \A ask : Sound(QueuedIn(planned, "guidance", "run_guidance", ask), action.src)
    <3>1. "guidance" \in Slots
      BY DEF Slots
    <3>2. QED
      BY <2>4, <2>5, <3>1, QueuedIsSound, PlanActs
  <2>7. QED
    BY <1>1, <1>2, <2>2, <2>4, <2>6, HereKeeps
<1>7. QED
  BY <1>4, <1>5, <1>6

\* The candidates are the actions the experiment slot may hold.
LEMMA CandidateNames == \A c \in Candidates : c[1] \in CandidateActs
<1> SUFFICES ASSUME NEW c \in Candidates
             PROVE  c[1] \in CandidateActs
  OBVIOUS
<1>1. \A a, b : <<a, b>>[1] = a
  OBVIOUS
<1>2. \/ c = <<"run_candidate", FALSE>> \/ c = <<"run_candidate", TRUE>> \/ c = <<"run_repair", FALSE>>
      \/ c = <<"plan_refinement", FALSE>> \/ c = <<"ask_user", TRUE>> \/ c = <<"plan_extension", FALSE>>
  BY Zenon DEF Candidates
<1>3. c[1] \in {"run_candidate", "run_repair", "plan_refinement", "ask_user", "plan_extension"}
  BY <1>1, <1>2, Zenon
<1>4. QED
  BY <1>3 DEF CandidateActs

\* Plans of Sentaurus patches, of extensions of the schema and of designs.
LEMMA DesignPlansKeep ==
  ASSUME AgentInv,
         PlanSentaurusPatch \/ PlanSentaurusRefinement \/ PlanSchemaExtension \/ PlanSchemaPromotion
         \/ PlanExperiment
  PROVE  AgentInv'
<1>1. pc = "execute"
  BY DEF PlanSentaurusPatch, PlanSentaurusRefinement, PlanSchemaExtension, PlanSchemaPromotion, PlanExperiment, Doing
<1>2. action.src \in Files /\ state \in AgentState /\ TypeOK
  BY DEF AgentInv, TypeOK
<1>3. Sound(state, action.src)
  BY <1>1, StateIsSound
<1>4. \A ks \in SUBSET {"spatch", "design", "extension"} : \A qs :
        Sound(Planned(Counted(state, ks), qs), action.src)
  <2>1. \A ks \in SUBSET {"spatch", "design", "extension"} :
          ks \in SUBSET Counters /\ ks \cap {"refinement", "guidance"} = {}
    BY DEF Counters
  <2>2. \A ks \in SUBSET {"spatch", "design", "extension"} : Sound(Counted(state, ks), action.src)
    BY <1>3, <2>1, CountedIsSound
  <2>3. QED
    BY <1>2, <2>2, PlannedIsSound
<1>5. ASSUME NEW s, Sound(s, action.src), SelectPatch(s)
      PROVE  AgentInv'
  <2>1. PICK ask \in BOOLEAN : CompleteHere(QueuedIn(s, "patch", "run_sentaurus_patch", ask), action.src)
    BY <1>5 DEF SelectPatch
  <2>2. Sound(QueuedIn(s, "patch", "run_sentaurus_patch", ask), action.src)
    <3>1. "patch" \in Slots
      BY DEF Slots
    <3>2. QED
      BY <1>5, <3>1, QueuedIsSound, PlanActs
  <2>3. QED
    BY <1>1, <1>2, <2>1, <2>2, HereKeeps
<1>6. CASE PlanSentaurusPatch
  <2> DEFINE planned == Planned(Counted(state, {"spatch", "design"}), {"spatch", "experiment"})
  <2>1. Sound(planned, action.src)
    BY <1>4
  <2>2. \/ SelectPatch(planned) \/ CompleteHere(planned, action.src)
        \/ CompleteHere(Planned(planned, {"exhausted"}), action.src)
    BY <1>6 DEF PlanSentaurusPatch
  <2> HIDE DEF planned
  <2>3. Sound(Planned(planned, {"exhausted"}), action.src)
    BY <1>2, <2>1, PlannedIsSound
  <2>4. QED
    BY <1>1, <1>2, <1>5, <2>1, <2>2, <2>3, HereKeeps
<1>7. CASE PlanSentaurusRefinement
  <2> DEFINE planned == Planned(Counted(state, {"design"}), {"srefinement", "experiment"})
  <2>1. Sound(planned, action.src)
    BY <1>4
  <2>2. SelectPatch(planned) \/ CompleteHere(planned, action.src)
    BY <1>7 DEF PlanSentaurusRefinement
  <2> HIDE DEF planned
  <2>3. QED
    BY <1>1, <1>2, <1>5, <2>1, <2>2, HereKeeps
<1>8. CASE PlanSchemaExtension
  <2> DEFINE planned == Planned(Counted(state, {"extension"}), {"extension"})
             s == [planned EXCEPT !.done = @ \cup {"extension_candidate"}]
  <2>1. Sound(planned, action.src)
    BY <1>4
  <2>2. CompleteHere(planned, action.src) \/ CompleteHere(s, action.src)
    BY <1>8 DEF PlanSchemaExtension
  <2> HIDE DEF planned
  <2>3. /\ s \in AgentState /\ s.done = planned.done \cup {"extension_candidate"} /\ s.latest = planned.latest
        /\ s.from = planned.from /\ s.made = planned.made /\ s.status = planned.status
        /\ s.runs = planned.runs /\ s.raised = planned.raised /\ s.todo = planned.todo
    BY <2>1 DEF Sound, AgentState, Flags
  <2> HIDE DEF s
  <2>4. Sound(s, action.src)
    BY <2>1, <2>3 DEF Sound, RecordedIn, BudgetIn
  <2>5. QED
    BY <1>1, <1>2, <2>1, <2>2, <2>4, HereKeeps
<1>9. CASE PlanSchemaPromotion
  <2>1. PICK next \in {"none", "ask_user"} :
          CompleteHere([state EXCEPT !.todo["promotion"] = next,
                                     !.from["promotion"] = state.runs["extension"]], action.src)
    BY <1>9 DEF PlanSchemaPromotion
  <2> DEFINE s == [state EXCEPT !.todo["promotion"] = next, !.from["promotion"] = state.runs["extension"]]
             todo == [state.todo EXCEPT !["promotion"] = next]
             from == [state.from EXCEPT !["promotion"] = state.runs["extension"]]
  <2>2. /\ todo \in [Slots -> Acts] /\ \A k \in Slots \ {"promotion"} : todo[k] = state.todo[k]
    BY <1>2, PlanActs DEF AgentState
  <2>3. /\ from \in [Plans -> Nat] /\ from["candidate"] = state.from["candidate"]
    BY <1>2 DEF AgentState, Plans, Counters
  <2>4. /\ s \in AgentState /\ s.done = state.done /\ s.latest = state.latest
        /\ s.from = from /\ s.made = state.made /\ s.status = state.status
        /\ s.runs = state.runs /\ s.raised = state.raised /\ s.todo = todo
    BY <1>2, <2>2, <2>3 DEF AgentState
  <2>5. CompleteHere(s, action.src)
    BY <2>1
  <2> HIDE DEF s, todo, from
  <2>6. Sound(s, action.src)
    BY <1>3, <2>2, <2>3, <2>4 DEF Sound, RecordedIn, BudgetIn, Slots
  <2>7. QED
    BY <1>1, <1>2, <2>5, <2>6, HereKeeps
<1>10. CASE PlanExperiment
  <2> DEFINE planned == Planned(Counted(state, {"design"}), {"experiment"})
  <2>1. Sound(planned, action.src)
    BY <1>4
  <2>2. \/ CompleteHere(planned, action.src)
        \/ \E c \in Candidates :
             CompleteHere(Planned(QueuedIn(planned, "experiment", c[1], c[2]), {"candidate"}), action.src)
    BY <1>10 DEF PlanExperiment
  <2> HIDE DEF planned
  <2>3. ASSUME NEW c \in Candidates
        PROVE  Sound(Planned(QueuedIn(planned, "experiment", c[1], c[2]), {"candidate"}), action.src)
    <3>1. c[1] \in CandidateActs
      BY CandidateNames
    <3>2. "experiment" \in Slots /\ c[1] \in Acts
      BY <3>1, PlanActs DEF Slots
    <3>3. Sound(QueuedIn(planned, "experiment", c[1], c[2]), action.src)
      BY <2>1, <3>1, <3>2, QueuedIsSound
    <3>4. QED
      BY <1>2, <3>3, PlannedIsSound
  <2>4. QED
    BY <1>1, <1>2, <2>1, <2>2, <2>3, HereKeeps
<1>11. QED
  BY <1>6, <1>7, <1>8, <1>9, <1>10

-----------------------------------------------------------------------------
(***************************************************************************)
(* Starting and ending, and the choice of the next action.                 *)
(***************************************************************************)
LEMMA IdleAct == Idle.act \in Acts /\ Idle.src = 0 /\ Idle.ask = FALSE
  BY DEF Idle, Acts, Others

LEMMA Zeros ==
  /\ [k \in Plans |-> 0] \in [Plans -> Nat] /\ [k \in Plans |-> 0]["candidate"] = 0
  /\ [k \in Counters |-> 0] \in [Counters -> Nat]
  /\ \A k \in {"refinement", "guidance"} : [j \in Counters |-> 0][k] = 0
  /\ [k \in Slots |-> "none"] \in [Slots -> Acts] /\ \A k \in Slots : [j \in Slots |-> "none"][k] = "none"
  /\ Unmade \in [Artifacts -> Nat] /\ \A a \in Artifacts : Unmade[a] = 0
  BY DEF Plans, Counters, Slots, Acts, Others, Unmade

\* A checkpoint that begins from nothing.
Fresh(s) ==
    /\ s \in AgentState /\ s.made = Unmade /\ s.from = [k \in Plans |-> 0]
    /\ s.runs = [k \in Counters |-> 0] /\ s.raised = [k \in Counters |-> 0] /\ s.todo = [k \in Slots |-> "none"]
    /\ s.done \subseteq {"evidence_gap"} /\ s.status # "completed"

LEMMA FreshIsRecorded == ASSUME NEW s, Fresh(s) PROVE RecordedIn(s)
<1>1. MaxRefinements \in Nat /\ {"refinement", "guidance"} \subseteq Slots /\ {"decision", "experiment"} \subseteq Slots
  BY LimitAssumption DEF Slots
<1>2. \A k \in Slots : s.todo[k] = "none"
  BY Zeros DEF Fresh
<1>3. \A k \in {"refinement", "guidance"} : s.runs[k] = 0 /\ s.raised[k] = 0
  BY Zeros DEF Fresh
<1>4. QED
  BY <1>1, <1>2, <1>3 DEF Fresh, RecordedIn, BudgetIn, CandidateActs

LEMMA Initially == Init => AgentInv
<1> SUFFICES ASSUME Init
             PROVE  AgentInv
  OBVIOUS
<1> USE DEF Init
<1>1. Fresh(Absent) /\ Absent.latest = 0 /\ Absent.status = "absent"
  BY Zeros DEF Absent, Fresh, AgentState, Statuses
<1>2. evidence \in Seq(Report) /\ (Has("source") => evidence # << >>) /\ Len(evidence) \in Nat
  <2>1. Evidence \subseteq Report
    BY RequestAssumption
  <2>2. CASE Has("source")
    <3>1. PICK e \in Evidence : evidence = <<e>>
      BY <2>2
    <3>2. QED
      BY <2>1, <3>1
  <2>3. CASE ~Has("source")
    BY <2>3
  <2>4. QED
    BY <2>2, <2>3
<1>3. 0 \in Files /\ state = Absent /\ action = Idle /\ token \in BOOLEAN
  <2>1. 0 \in Files
    BY <1>2 DEF Files
  <2>2. token \in BOOLEAN
    BY Zenon
  <2>3. QED
    BY <2>1, <2>2
<1>4. TypeOK
  <2>1. asks \in SUBSET Features /\ launches \in 0 .. MaxLaunches
    BY RequestAssumption, LimitAssumption
  <2>2. state.latest \in Files /\ \A a \in Artifacts : state.made[a] \in Files
    BY <1>1, <1>3, Zeros DEF Fresh
  <2>3. QED
    BY <1>1, <1>2, <1>3, <2>1, <2>2, IdleAct DEF TypeOK, Fresh
<1>5. SignoffIsCurrent /\ SignedOff /\ PlacesInv
  BY <1>1, <1>2, <1>3, Zeros DEF SignoffIsCurrent, SignedOff, PlacesInv, DecisionActs, Slots, Fresh
<1>6. Determined
  BY <1>1, <1>3, FreshIsRecorded DEF Determined
<1>7. QED
  BY <1>4, <1>5, <1>6 DEF AgentInv

LEMMA LaunchKeeps == ASSUME AgentInv, LaunchFresh \/ LaunchResumed PROVE AgentInv'
<1> USE DEF AgentInv
<1>1. /\ pc' = "check" /\ launches' \in 0 .. MaxLaunches /\ action' = Idle
      /\ asks' = asks /\ evidence' = evidence /\ token' = token
  BY LimitAssumption DEF LaunchFresh, LaunchResumed, Launch, TypeOK
<1>2. Len(evidence) \in Nat /\ 0 \in Files /\ Files' = Files
  BY <1>1 DEF TypeOK, Files
<1>3. CASE LaunchFresh
  <2>1. PICK passed \in BOOLEAN : state' = create_initial_state(passed)
    BY <1>3 DEF LaunchFresh
  <2>2. Fresh(state') /\ state'.latest = (IF Has("source") THEN 1 ELSE 0) /\ state'.status \in {"planned", "running"}
    BY <2>1, Zeros DEF create_initial_state, Fresh, AgentState, Statuses, Flags
  <2>3. state'.latest \in Files /\ \A a \in Artifacts : state'.made[a] = 0
    <3>1. Has("source") => 1 \in Files
      BY <1>2 DEF PlacesInv, TypeOK, Files
    <3>2. QED
      BY <1>2, <2>2, <3>1, Zeros DEF Fresh
  <2>4. TypeOK'
    BY <1>1, <1>2, <2>2, <2>3, IdleAct DEF TypeOK, Fresh
  <2>5. SignoffIsCurrent' /\ SignedOff' /\ PlacesInv'
    BY <1>1, <1>2, <2>2, <2>3, Zeros DEF SignoffIsCurrent, SignedOff, PlacesInv, Live, DecisionActs, Slots, Fresh, Has
  <2>6. Determined'
    <3>1. RecordedIn(state')
      BY <2>2, FreshIsRecorded
    <3>2. RecordedIn(state)'
      BY <1>1, <3>1 DEF RecordedIn, BudgetIn, Has
    <3>3. QED
      BY <1>1, <3>2 DEF Determined
  <2>7. QED
    BY <2>4, <2>5, <2>6
<1>4. CASE LaunchResumed
  <2> DEFINE s == [state EXCEPT !.status = IF Has("plan_only") THEN "planned" ELSE "running"]
  <2>1. /\ s \in AgentState /\ s.done = state.done /\ s.latest = state.latest /\ s.from = state.from
        /\ s.made = state.made /\ s.status \in {"planned", "running"} /\ s.runs = state.runs /\ s.raised = state.raised /\ s.todo = state.todo
    BY DEF TypeOK, AgentState, Statuses
  <2>2. state' = s
    BY <1>4 DEF LaunchResumed
  <2> HIDE DEF s
  <2>3. TypeOK'
    BY <1>1, <1>2, <2>1, <2>2, IdleAct DEF TypeOK
  <2>4. SignoffIsCurrent' /\ SignedOff' /\ PlacesInv'
    BY <1>1, <1>2, <2>1, <2>2 DEF SignoffIsCurrent, SignedOff, PlacesInv, Live, Has
  <2>5. ~Has("llm") => Determined'
    BY <1>1, <2>1, <2>2 DEF Determined, RecordedIn, BudgetIn, Has
  <2>6. QED
    BY <1>1, <2>3, <2>4, <2>5 DEF Has
<1>5. QED
  BY <1>3, <1>4

\* The process ends, with a status that is not a completion.
LEMMA LeaveKeeps ==
  ASSUME AgentInv, NEW status \in Statuses \ {"completed"}, Leave(status)
  PROVE  AgentInv'
<1> USE DEF AgentInv
<1> DEFINE s == [state EXCEPT !.status = status]
<1>1. /\ s \in AgentState /\ s.done = state.done /\ s.latest = state.latest /\ s.from = state.from
      /\ s.made = state.made /\ s.status = status /\ s.runs = state.runs /\ s.raised = state.raised /\ s.todo = state.todo
  BY DEF TypeOK, AgentState
<1>2. state' = s /\ pc' = "off" /\ UNCHANGED <<asks, action, evidence, token, launches>>
  BY DEF Leave
<1> HIDE DEF s
<1>3. TypeOK'
  BY <1>1, <1>2 DEF TypeOK, Files
<1>4. SignoffIsCurrent' /\ SignedOff' /\ PlacesInv'
  BY <1>1, <1>2 DEF SignoffIsCurrent, SignedOff, PlacesInv, Files, Has
<1>5. ~Has("llm") => Determined'
  BY <1>1, <1>2 DEF Determined, RecordedIn, BudgetIn, Has
<1>6. QED
  BY <1>2, <1>3, <1>4, <1>5 DEF Has

\* The user, the cancel file and a check that goes on leave the checkpoint.
LEMMA UserKeeps == ASSUME AgentInv, Approve \/ Cancel \/ Check PROVE AgentInv'
<1> USE DEF AgentInv
<1>1. /\ state' = state /\ action' = action /\ evidence' = evidence /\ launches' = launches
      /\ asks' \in {asks, asks \cup {"confirm", "allow_unverified"}} /\ token' \in BOOLEAN
  BY DEF Approve, Cancel, Check, TypeOK
<1>2. /\ pc' = pc \/ (pc = "check" /\ pc' = "decide")
      /\ asks' # asks => state.status = "waiting"
      /\ pc # "off" => asks' = asks
  BY DEF Approve, Cancel, Check
<1>3. \A f \in Features \ {"confirm", "allow_unverified"} : f \in asks' <=> f \in asks
  BY <1>1
<1>4. /\ \A f \in {"llm", "source", "auto_design", "objectives", "report"} : f \in asks' <=> f \in asks
      /\ asks' \in SUBSET Features
  BY <1>1, <1>3 DEF Features, TypeOK
<1>5. TypeOK' /\ SignoffIsCurrent'
  BY <1>1, <1>2, <1>4 DEF TypeOK, SignoffIsCurrent, Files
<1>6. SignedOff' /\ PlacesInv'
  BY <1>1, <1>2, <1>4 DEF SignedOff, PlacesInv, Files, Live, Has, NeedsRepair, Observed
<1>7. ~Has("llm") => Determined'
  <2>1. ~Has("llm") => RecordedIn(state)'
    BY <1>1, <1>4 DEF Determined, RecordedIn, BudgetIn, Has
  <2>2. pc' = "execute" => pc = "execute" /\ asks' = asks
    BY <1>2
  <2>3. ~Has("llm") /\ pc = "execute" /\ asks' = asks => Ordered(action)'
    BY <1>1 DEF Determined, Ordered, Gated, Concluding, Budgeted, BelowMax, RunsSentaurus, NeedsRepair, Observed,
                Has, Did
  <2>4. QED
    BY <2>1, <2>2, <2>3 DEF Determined
<1>8. QED
  BY <1>4, <1>5, <1>6, <1>7 DEF Has

\* Whatever is decided is an action, and the policy's is made sure of.
LEMMA Decides ==
  ASSUME AgentInv, NEW a \in decide_next_action
  PROVE  IsAction(a) /\ (~Has("llm") => Ordered(a))
<1>1. IsAction(deterministic_action)
  BY PolicyActs DEF AgentInv
<1>2. \A b \in Answers : IsAction(b)
  <2>1. state.latest \in Files
    BY DEF AgentInv, TypeOK
  <2>2. StateBound \subseteq Acts
    BY DEF Acts
  <2>3. {"audit_capability", "run_supervisor", "run_other", "run_initial", "run_sentaurus",
         "run_preflight", "run_onboarding", "run_user_deck", "ingest_deck", "apply_deck_patch",
         "plan_srefinement", "plan_sentaurus_patch", "generate_dashboard", "ask_user"} \subseteq Acts
    BY DEF Acts, Asks, Tools, Others
  <2>4. QED
    BY <2>1, <2>2, <2>3 DEF Answers, IsAction
<1>3. ~Has("llm") => a = deterministic_action /\ Ordered(deterministic_action)
  BY PolicyIsOrdered DEF decide_next_action, FreeChoice, AgentInv, Determined
<1>4. QED
  BY <1>1, <1>2, <1>3 DEF decide_next_action

LEMMA BeginKeeps == ASSUME AgentInv, BeginStep PROVE AgentInv'
<1> USE DEF AgentInv
<1>1. action' \in decide_next_action /\ pc = "decide" /\ UNCHANGED <<asks, evidence, token, launches>>
  BY DEF BeginStep
<1>2. IsAction(action') /\ (~Has("llm") => Ordered(action'))
  BY <1>1, Decides
<1>3. /\ state' \in AgentState /\ state'.done = state.done /\ state'.latest = state.latest
      /\ state'.from = state.from /\ state'.made = state.made /\ state'.status \in {state.status, "planned"}
      /\ state'.runs = state.runs /\ state'.raised = state.raised /\ state'.todo = state.todo
      /\ pc' \in {"off", "execute"}
  <2> DEFINE begun == [state EXCEPT !.steps = @ + 1]
             planned == [begun EXCEPT !.step = "planned", !.status = "planned"]
             running == [begun EXCEPT !.step = "running"]
  <2>1. /\ begun \in AgentState /\ begun.done = state.done /\ begun.latest = state.latest
        /\ begun.from = state.from /\ begun.made = state.made /\ begun.status = state.status
        /\ begun.runs = state.runs /\ begun.raised = state.raised /\ begun.todo = state.todo
    <3>1. state \in AgentState /\ state.steps + 1 \in Nat
      BY DEF TypeOK, AgentState
    <3>2. QED
      BY <3>1 DEF AgentState
  <2>2. \/ state' = planned /\ pc' = "off"
        \/ state' = running /\ pc' = "execute"
    BY DEF BeginStep
  <2> HIDE DEF begun
  <2>3. /\ planned \in AgentState /\ planned.done = begun.done /\ planned.latest = begun.latest
        /\ planned.from = begun.from /\ planned.made = begun.made /\ planned.status = "planned"
        /\ planned.runs = begun.runs /\ planned.raised = begun.raised /\ planned.todo = begun.todo
    BY <2>1 DEF AgentState, Statuses
  <2>4. /\ running \in AgentState /\ running.done = begun.done /\ running.latest = begun.latest
        /\ running.from = begun.from /\ running.made = begun.made /\ running.status = begun.status
        /\ running.runs = begun.runs /\ running.raised = begun.raised /\ running.todo = begun.todo
    BY <2>1 DEF AgentState
  <2> HIDE DEF planned, running
  <2>5. QED
    BY <2>1, <2>2, <2>3, <2>4
<1>4. TypeOK'
  BY <1>1, <1>2, <1>3 DEF TypeOK, IsAction, Files
<1>5. SignoffIsCurrent' /\ SignedOff' /\ PlacesInv'
  BY <1>1, <1>3 DEF SignoffIsCurrent, SignedOff, PlacesInv, Files, Live, Has
<1>6. ~Has("llm") => Determined'
  BY <1>1, <1>2, <1>3
  DEF Determined, RecordedIn, BudgetIn, Ordered, Gated, Concluding, Budgeted, BelowMax, RunsSentaurus, NeedsRepair,
      Observed, Has, Did
<1>7. QED
  BY <1>1, <1>4, <1>5, <1>6 DEF Has

-----------------------------------------------------------------------------
LEMMA Inductive == AgentInv /\ [Next]_vars => AgentInv'
<1> SUFFICES ASSUME AgentInv, [Next]_vars
             PROVE  AgentInv'
  OBVIOUS
<1>1. CASE LaunchFresh \/ LaunchResumed
  BY <1>1, LaunchKeeps
<1>2. CASE Approve \/ Cancel \/ Check
  BY <1>2, UserKeeps
<1>3. CASE Crash
  BY <1>3, LeaveKeeps DEF Crash, AgentInv, PlacesInv, Live, Statuses
<1>4. CASE Exhaust
  BY <1>4, LeaveKeeps DEF Exhaust, AgentInv, PlacesInv, Live, Statuses
<1>5. CASE ObeyCancel \/ DecisionFails \/ AskConfirmation
  BY <1>5, LeaveKeeps DEF ObeyCancel, DecisionFails, AskConfirmation, Statuses
<1>6. CASE BeginStep
  BY <1>6, BeginKeeps
<1>7. CASE execute_action
  BY <1>7, ToolsKeep, SetupKeeps, SignoffKeeps, CurvePlansKeep, DesignPlansKeep DEF execute_action
<1>8. CASE UNCHANGED vars
  BY <1>8
  DEF vars, AgentInv, TypeOK, SignoffIsCurrent, SignedOff, PlacesInv, Determined, RecordedIn, BudgetIn, Ordered,
      Gated, Concluding, Budgeted, BelowMax, RunsSentaurus, NeedsRepair, Observed, Files, Live, Has, Did
<1>9. QED
  BY <1>1, <1>2, <1>3, <1>4, <1>5, <1>6, <1>7, <1>8 DEF Next, Step

\* The gates and the budget of follow-up patches hold wherever a run of the
\* policy was interrupted, and every variable has its type.
THEOREM GatesAndBudgetHold == Spec => []LimitsHold
<1>1. AgentInv => LimitsHold
  BY AgentIsLimited
<1>2. QED
  BY Initially, Inductive, <1>1, PTL DEF Spec

\* What the checkpoint calls signed off is about the latest state, and a run
\* of the policy completes only when everything it was asked for was made of it.
THEOREM CompletionIsSignedOff == Spec => []SignoffHolds
<1>1. AgentInv => SignoffHolds
  BY AgentIsLimited
<1>2. QED
  BY Initially, Inductive, <1>1, PTL DEF Spec

-----------------------------------------------------------------------------
(***************************************************************************)
(* Nothing is ordered again.  A row that orders what was just done would   *)
(* have to apply still, and every step takes away what its row asks for.   *)
(***************************************************************************)
\* All rows but that of a candidate are about the latest state.
LEMMA RowSources == \A i \in 1 .. 36 : i # 18 => Policy[i].do.src = state.latest
<1>1. \A i \in 1 .. 14 : Setup[i].do.src = state.latest
  BY DEF Setup, Row
<1>2. \A i \in {1, 2, 3, 5, 6, 7} : Queued[i].do.src = state.latest
  BY DEF Queued, Queue, Row
<1>3. \A i \in 1 .. 8 : Planning[i].do.src = state.latest
  BY DEF Planning, Row
<1>4. \A i \in 1 .. 7 : Signoff[i].do.src = state.latest
  BY DEF Signoff, Row
<1>5. TAKE i \in 1 .. 36
<1>6. CASE i <= 14
  BY <1>1, <1>6, PolicyRows
<1>7. CASE i > 14 /\ i <= 21
  <2>1. Policy[i] = Queued[i - 14]
    BY <1>7, PolicyRows
  <2>2. i # 18 => i - 14 \in {1, 2, 3, 5, 6, 7}
    BY <1>7
  <2>3. QED
    BY <1>2, <2>1, <2>2
<1>8. CASE i > 21 /\ i <= 29
  <2>1. Policy[i] = Planning[i - 21] /\ i - 21 \in 1 .. 8
    BY <1>8, PolicyRows
  <2>2. QED
    BY <1>3, <2>1
<1>9. CASE i > 29
  <2>1. Policy[i] = Signoff[i - 29] /\ i - 29 \in 1 .. 7
    BY <1>9, PolicyRows
  <2>2. QED
    BY <1>4, <2>1
<1>10. QED
  BY <1>6, <1>7, <1>8, <1>9

\* What each row orders, and what it asks for that its action takes away.
LEMMA SetupTable ==
  /\ Policy[1].do.act = "audit_capability" /\ Policy[1].when = (Has("audit") /\ ~Did("audit"))
  /\ Policy[2].do.act = "ask_evidence"
  /\ Policy[3].do.act = "ingest_deck" /\ Policy[3].when = (Has("deck") /\ ~Did("ingested"))
  /\ Policy[4].do.act = "apply_deck_patch"
  /\ Policy[4].when = (Has("deck") /\ Has("deck_patches") /\ ~Did("patched"))
  /\ Policy[5].do.act = "ask_unverified"
  /\ Policy[6].do.act = "run_onboarding" /\ Policy[6].when = (Has("remote") /\ ~Did("onboarding"))
  /\ Policy[7].do.act = "ask_onboarding" /\ Policy[9].do.act = "ask_preflight"
  /\ Policy[10].do.act = "run_initial" /\ Policy[10].when = (InitialTool /\ ~Did("initial_tool"))
  /\ Policy[12].do.act = "ask_preflight"
  /\ Policy[13].do.act = "run_sentaurus" /\ Policy[13].when = BaselineDue
  /\ Policy[14].do.act = "run_user_deck"
  /\ Policy[14].when = (Has("deck") /\ ~InitialTool /\ ~Did("user_deck"))
<1>1. Policy[1] = Setup[1] /\ Policy[2] = Setup[2] /\ Policy[3] = Setup[3] /\ Policy[4] = Setup[4]
  BY PolicyRows
<1>2. Policy[5] = Setup[5] /\ Policy[6] = Setup[6] /\ Policy[7] = Setup[7] /\ Policy[9] = Setup[9]
  BY PolicyRows
<1>3. Policy[10] = Setup[10] /\ Policy[12] = Setup[12] /\ Policy[13] = Setup[13] /\ Policy[14] = Setup[14]
  BY PolicyRows
<1>4. /\ Policy[1].do.act = "audit_capability" /\ Policy[1].when = (Has("audit") /\ ~Did("audit"))
      /\ Policy[2].do.act = "ask_evidence"
      /\ Policy[3].do.act = "ingest_deck" /\ Policy[3].when = (Has("deck") /\ ~Did("ingested"))
      /\ Policy[4].do.act = "apply_deck_patch"
      /\ Policy[4].when = (Has("deck") /\ Has("deck_patches") /\ ~Did("patched"))
  BY <1>1 DEF Setup, Row
<1>5. /\ Policy[5].do.act = "ask_unverified"
      /\ Policy[6].do.act = "run_onboarding" /\ Policy[6].when = (Has("remote") /\ ~Did("onboarding"))
      /\ Policy[7].do.act = "ask_onboarding" /\ Policy[9].do.act = "ask_preflight"
  BY <1>2 DEF Setup, Row
<1>6. /\ Policy[10].do.act = "run_initial" /\ Policy[10].when = (InitialTool /\ ~Did("initial_tool"))
      /\ Policy[12].do.act = "ask_preflight"
      /\ Policy[13].do.act = "run_sentaurus" /\ Policy[13].when = BaselineDue
      /\ Policy[14].do.act = "run_user_deck"
      /\ Policy[14].when = (Has("deck") /\ ~InitialTool /\ ~Did("user_deck"))
  BY <1>3 DEF Setup, Row
<1>7. QED
  BY <1>4, <1>5, <1>6

LEMMA PlanTable ==
  /\ Policy[17].do.act = Reviewed(state.todo["decision"]) /\ Policy[17].do.slot = "decision"
  /\ Policy[18].do.slot = "experiment"
  /\ Policy[19].do.act = "ask_user"
  /\ Policy[20].do.act = "plan_promotion"
  /\ Policy[20].when = (Has("promotion") /\ Did("extension_candidate")
                        /\ state.from["promotion"] # state.runs["extension"])
  /\ Policy[21].do.slot = "patch"
  /\ Policy[21].when = (Has("auto_design") /\ Has("project") /\ state.todo["patch"] # "none")
  /\ Policy[23].do.slot = "none"
  /\ Policy[26].do.act = Reviewed("pareto_review") /\ Policy[26].do.slot = "tradeoff"
  /\ Policy[26].when = (IsSentaurus /\ Observed.effect = "tradeoff" /\ state.from["tradeoff"] # state.latest)
  /\ Policy[27].do.act = "plan_srefinement"
  /\ Policy[27].when = (Has("design") /\ Has("project") /\ IsSentaurus /\ Observed.effect = "refine"
                        /\ state.runs["design"] < MaxDesigns /\ state.from["srefinement"] # state.latest)
<1>1. Policy[17] = Queued[3] /\ Policy[18] = Queued[4] /\ Policy[19] = Queued[5]
  BY PolicyRows
<1>2. Policy[20] = Queued[6] /\ Policy[21] = Queued[7]
  BY PolicyRows
<1>3. Policy[23] = Planning[2] /\ Policy[26] = Planning[5] /\ Policy[27] = Planning[6]
  BY PolicyRows
<1>4. /\ Policy[17].do.act = Reviewed(state.todo["decision"]) /\ Policy[17].do.slot = "decision"
      /\ Policy[18].do.slot = "experiment"
      /\ Policy[19].do.act = "ask_user"
  BY <1>1 DEF Queued, Queue, Row
<1>5. /\ Policy[20].do.act = "plan_promotion"
      /\ Policy[20].when = (Has("promotion") /\ Did("extension_candidate")
                            /\ state.from["promotion"] # state.runs["extension"])
      /\ Policy[21].do.slot = "patch"
      /\ Policy[21].when = (Has("auto_design") /\ Has("project") /\ state.todo["patch"] # "none")
  BY <1>2 DEF Queued, Queue, Row
<1>6. /\ Policy[23].do.slot = "none"
      /\ Policy[26].do.act = Reviewed("pareto_review") /\ Policy[26].do.slot = "tradeoff"
      /\ Policy[26].when = (IsSentaurus /\ Observed.effect = "tradeoff" /\ state.from["tradeoff"] # state.latest)
      /\ Policy[27].do.act = "plan_srefinement"
      /\ Policy[27].when = (Has("design") /\ Has("project") /\ IsSentaurus /\ Observed.effect = "refine"
                            /\ state.runs["design"] < MaxDesigns /\ state.from["srefinement"] # state.latest)
  BY <1>3 DEF Planning, Row
<1>7. QED
  BY <1>4, <1>5, <1>6

LEMMA EndTable ==
  /\ Policy[24].do.act = "plan_decision"
  /\ Policy[28].do.act = "plan_sentaurus_patch"
  /\ Policy[28].when = (Has("design") /\ IsSentaurus /\ Observed.effect = "none"
                        /\ state.runs["spatch"] < MaxDesigns /\ state.from["spatch"] # state.latest)
  /\ Policy[29].do.act = "plan_extension"
  /\ Policy[29].when = (Has("design") /\ Has("extension") /\ IsSentaurus
                        /\ state.from["exhausted"] = state.latest
                        /\ state.runs["extension"] < MaxExtensions /\ state.from["extension"] # state.latest)
  /\ Policy[31].do.act = "run_benchmark" /\ Policy[31].when = (state.made["benchmark"] = 0)
  /\ Policy[32].do.act = "plan_experiment"
  /\ Policy[32].when = (Has("design") /\ state.runs["design"] < MaxDesigns
                        /\ state.from["experiment"] # state.latest)
  /\ Policy[33].do.act = "evaluate_objectives" /\ Policy[33].do.slot = "none"
  /\ Policy[33].when = (Has("objectives") /\ state.made["objectives"] = 0)
  /\ Policy[34].do.act = "generate_report" /\ Policy[34].when = (Has("report") /\ state.made["report"] = 0)
  /\ Policy[35].do.act = "generate_dashboard"
  /\ Policy[35].when = (Has("dashboard") /\ state.made["dashboard"] = 0)
  /\ Policy[36].do.act = "stop_success"
<1>1. Policy[24] = Planning[3] /\ Policy[28] = Planning[7] /\ Policy[29] = Planning[8]
  BY PolicyRows
<1>2. Policy[31] = Signoff[2] /\ Policy[32] = Signoff[3] /\ Policy[33] = Signoff[4]
  BY PolicyRows
<1>3. Policy[34] = Signoff[5] /\ Policy[35] = Signoff[6] /\ Policy[36] = Signoff[7]
  BY PolicyRows
<1>4. /\ Policy[24].do.act = "plan_decision"
      /\ Policy[28].do.act = "plan_sentaurus_patch"
      /\ Policy[28].when = (Has("design") /\ IsSentaurus /\ Observed.effect = "none"
                            /\ state.runs["spatch"] < MaxDesigns /\ state.from["spatch"] # state.latest)
      /\ Policy[29].do.act = "plan_extension"
      /\ Policy[29].when = (Has("design") /\ Has("extension") /\ IsSentaurus
                            /\ state.from["exhausted"] = state.latest
                            /\ state.runs["extension"] < MaxExtensions /\ state.from["extension"] # state.latest)
  BY <1>1 DEF Planning, Row
<1>5. /\ Policy[31].do.act = "run_benchmark" /\ Policy[31].when = (state.made["benchmark"] = 0)
      /\ Policy[32].do.act = "plan_experiment"
      /\ Policy[32].when = (Has("design") /\ state.runs["design"] < MaxDesigns
                            /\ state.from["experiment"] # state.latest)
      /\ Policy[33].do.act = "evaluate_objectives" /\ Policy[33].do.slot = "none"
      /\ Policy[33].when = (Has("objectives") /\ state.made["objectives"] = 0)
  BY <1>2 DEF Signoff, Row
<1>6. /\ Policy[34].do.act = "generate_report" /\ Policy[34].when = (Has("report") /\ state.made["report"] = 0)
      /\ Policy[35].do.act = "generate_dashboard"
      /\ Policy[35].when = (Has("dashboard") /\ state.made["dashboard"] = 0)
      /\ Policy[36].do.act = "stop_success"
  BY <1>3 DEF Signoff, Row
<1>7. QED
  BY <1>4, <1>5, <1>6

\* The same table after a step.
LEMMA FirstRowNext == FirstRow'
  BY FirstRow, PTL
LEMMA SourcesNext == RowSources'
  BY RowSources, PTL
LEMMA SetupNext == SetupTable'
  BY SetupTable, PTL
LEMMA PlanNext == PlanTable'
  BY PlanTable, PTL
LEMMA EndNext == EndTable'
  BY EndTable, PTL
LEMMA OrderNext == OrderRows'
  BY OrderRows, PTL

\* Each action carries out its own order.
LEMMA ActionIs ==
  /\ AuditCapability => action.act = "audit_capability"
  /\ RunSupervisor => action.act = "run_supervisor"
  /\ RunOnboarding => action.act = "run_onboarding"
  /\ RunPreflight => action.act = "run_preflight"
  /\ RunTool => action.act \in Tools \ {"run_supervisor", "run_user_deck", "run_repair"}
  /\ RunRepair => action.act = "run_repair"
  /\ RunUserDeck => action.act = "run_user_deck"
  /\ RunBenchmark => action.act = "run_benchmark"
  /\ EvaluateObjectives => action.act = "evaluate_objectives"
  /\ IngestDeck => action.act = "ingest_deck"
  /\ ApplyDeckPatch => action.act = "apply_deck_patch"
  /\ PlanCurveDecision => action.act = "plan_decision"
  /\ PlanRefinement => action.act = "plan_refinement"
  /\ PlanGuidance => action.act = "plan_guidance"
  /\ PlanSentaurusPatch => action.act = "plan_sentaurus_patch"
  /\ PlanSentaurusRefinement => action.act = "plan_srefinement"
  /\ PlanSchemaExtension => action.act = "plan_extension"
  /\ PlanSchemaPromotion => action.act = "plan_promotion"
  /\ PlanExperiment => action.act = "plan_experiment"
  /\ GenerateReport => action.act = "generate_report"
  /\ GenerateDashboard => action.act = "generate_dashboard"
  /\ StopSuccess => action.act = "stop_success"
  /\ AskUser => action.act \in Asks
  BY DEF AuditCapability, RunSupervisor, RunOnboarding, RunPreflight, RunTool, RunRepair, RunUserDeck, RunBenchmark,
         EvaluateObjectives, IngestDeck, ApplyDeckPatch, PlanCurveDecision, PlanRefinement, PlanGuidance,
         PlanSentaurusPatch, PlanSentaurusRefinement, PlanSchemaExtension, PlanSchemaPromotion, PlanExperiment,
         GenerateReport, GenerateDashboard, StopSuccess, AskUser, Doing

\* What a step that goes on leaves of the checkpoint s its action made.
LEMMA CompleteLeaves ==
  ASSUME NEW s \in AgentState, NEW path, Complete(s, path), pc' = "check"
  PROVE  /\ s.status \notin {"completed", "waiting"}
         /\ state'.from = s.from /\ state'.runs = s.runs /\ state'.todo = s.todo
         /\ state'.guide = s.guide /\ state'.signed = s.signed
         /\ state'.done = s.done \cup ToolFlags(action)
         /\ path \in {0, s.latest} => state'.latest = s.latest /\ state'.made = s.made
         /\ asks' = asks
<1> DEFINE u == invalidate_state_dependent_signoff(s, path)
           t == [u EXCEPT !.step = "completed", !.done = @ \cup ToolFlags(action)]
<1>1. /\ DOMAIN u = DOMAIN s
      /\ u.status = s.status /\ u.done = s.done /\ u.from = s.from /\ u.runs = s.runs /\ u.todo = s.todo
      /\ u.guide = s.guide /\ u.signed = s.signed
      /\ path \in {0, s.latest} => u = s
  BY DEF invalidate_state_dependent_signoff, AgentState
<1> HIDE DEF u
<1>2. {"status", "steps", "step", "latest", "done", "made", "from", "runs", "todo", "guide", "signed"} \subseteq DOMAIN u
  BY <1>1 DEF AgentState
<1>3. /\ t.status = u.status /\ t.from = u.from /\ t.runs = u.runs /\ t.todo = u.todo
      /\ t.guide = u.guide /\ t.signed = u.signed /\ t.done = u.done \cup ToolFlags(action)
      /\ t.latest = u.latest /\ t.made = u.made
  BY <1>2
<1>4. state' = t /\ t.status \notin {"completed", "waiting"} /\ asks' = asks
  BY DEF Complete, u, t
<1> HIDE DEF t
<1>5. QED
  BY <1>1, <1>3, <1>4

LEMMA SettleLeaves ==
  ASSUME NEW s \in AgentState, NEW k
  PROVE  /\ Settle(s, k) \in AgentState
         /\ k \in Slots => Settle(s, k).todo[k] = "none"
         /\ Settle(s, k).latest = s.latest /\ Settle(s, k).done = s.done /\ Settle(s, k).guide = s.guide
  BY DEF Settle, AgentState, Acts, Others

LEMMA CountedLeaves ==
  ASSUME NEW s \in AgentState, NEW ks
  PROVE  /\ Counted(s, ks) \in AgentState
         /\ Counted(s, ks).latest = s.latest /\ Counted(s, ks).done = s.done /\ Counted(s, ks).todo = s.todo
<1> DEFINE runs == [k \in Counters |-> IF k \in ks THEN s.runs[k] + 1 ELSE s.runs[k]]
<1>1. runs \in [Counters -> Nat]
  BY DEF AgentState
<1>2. Counted(s, ks) = [s EXCEPT !.runs = runs]
  BY DEF Counted, AgentState
<1> HIDE DEF runs
<1>3. QED
  BY <1>1, <1>2 DEF AgentState

LEMMA PlannedLeaves ==
  ASSUME TypeOK, NEW s \in AgentState, NEW ks
  PROVE  /\ Planned(s, ks) \in AgentState
         /\ \A k \in Plans : Planned(s, ks).from[k] = IF k \in ks THEN action.src ELSE s.from[k]
         /\ Planned(s, ks).latest = s.latest /\ Planned(s, ks).made = s.made
<1> DEFINE from == [k \in Plans |-> IF k \in ks THEN action.src ELSE s.from[k]]
<1>1. from \in [Plans -> Nat]
  BY DEF TypeOK, Files, AgentState
<1>2. Planned(s, ks) = [s EXCEPT !.from = from]
  BY DEF Planned, AgentState
<1>3. \A k \in Plans : from[k] = IF k \in ks THEN action.src ELSE s.from[k]
  OBVIOUS
<1> HIDE DEF from
<1>4. QED
  BY <1>1, <1>2, <1>3 DEF AgentState

LEMMA QueuedLeaves ==
  ASSUME NEW s \in AgentState, NEW k \in Slots, NEW a \in Acts, NEW ask
  PROVE  /\ QueuedIn(s, k, a, ask) \in AgentState
         /\ \A j \in Slots \ {k} : QueuedIn(s, k, a, ask).todo[j] = s.todo[j]
         /\ QueuedIn(s, k, a, ask).latest = s.latest /\ QueuedIn(s, k, a, ask).from = s.from
         /\ QueuedIn(s, k, a, ask).guide = s.guide /\ QueuedIn(s, k, a, ask).signed = s.signed
<1> DEFINE risky == IF ask THEN s.risky \cup {k} ELSE s.risky \ {k}
           todo == [s.todo EXCEPT ![k] = a]
           t == QueuedIn(s, k, a, ask)
<1>1. risky \in SUBSET Slots
  BY DEF AgentState
<1>2. todo \in [Slots -> Acts] /\ \A j \in Slots \ {k} : todo[j] = s.todo[j]
  BY DEF AgentState
<1>3. /\ t \in AgentState /\ t.todo = todo /\ t.latest = s.latest /\ t.from = s.from
      /\ t.guide = s.guide /\ t.signed = s.signed
  BY <1>1, <1>2 DEF QueuedIn, AgentState
<1> HIDE DEF todo, t
<1>4. QED
  BY <1>2, <1>3 DEF t

\* A step that goes on, on the latest state, after a decision of the policy.
Goes(a) ==
    /\ AgentInv /\ execute_action /\ pc = "execute" /\ pc' = "check"
    /\ a = action /\ a.src = state.latest

LEMMA GoesOn ==
  ASSUME NEW a, Goes(a)
  PROVE  /\ ~Raise /\ action.act \notin Asks /\ action.act # "stop_success" /\ asks' = asks
         /\ TypeOK /\ state \in AgentState
<1>1. TypeOK /\ state \in AgentState
  BY DEF Goes, AgentInv, TypeOK
<1>2. ~Raise
  BY DEF Goes, Raise, FailWith
<1>3. \A s, path : Complete(s, path) => asks' = asks
  BY DEF Complete
<1>4. \A s : FailWith(s) => pc' = "off"
  BY DEF FailWith
<1>5. asks' = asks
  BY <1>2, <1>4
  DEF Goes, execute_action, AuditCapability, RunSupervisor, RunOnboarding, RunPreflight, RunTool, RunRepair,
      RunUserDeck, RunBenchmark, EvaluateObjectives, IngestDeck, ApplyDeckPatch, PlanCurveDecision, PlanRefinement,
      PlanGuidance, PlanSentaurusPatch, PlanSentaurusRefinement, PlanSchemaExtension, PlanSchemaPromotion,
      PlanExperiment, GenerateReport, GenerateDashboard, StopSuccess, AskUser, CompleteTool, CompleteHere,
      CompleteWith, SelectPatch, Complete
<1>6. ASSUME AskUser \/ StopSuccess
      PROVE  FALSE
  <2>1. \A status : [state EXCEPT !.status = status].status = status
    BY <1>1 DEF AgentState
  <2>2. PICK status \in {"waiting", "completed"} : \E path : Complete([state EXCEPT !.status = status], path)
    BY <1>6 DEF AskUser, StopSuccess, CompleteHere
  <2>3. [state EXCEPT !.status = status] \in AgentState
    BY <1>1, <2>2 DEF AgentState, Statuses
  <2>4. QED
    BY <1>1, <2>1, <2>2, <2>3, CompleteLeaves DEF Goes
<1>7. action.act \notin Asks /\ action.act # "stop_success"
  BY <1>2, <1>6, ActionIs DEF Goes, execute_action, Asks, Tools
<1>8. QED
  BY <1>1, <1>2, <1>5, <1>7

\* The flags a step sets and the slots it settles.
LEMMA FlagsStay ==
  ASSUME NEW done \in SUBSET Flags, NEW path, state \in AgentState, pc' = "check",
         Complete([state EXCEPT !.done = done], path)
  PROVE  done \subseteq state'.done
<1> DEFINE s == [state EXCEPT !.done = done]
<1>1. s \in AgentState /\ s.done = done
  BY DEF AgentState
<1> HIDE DEF s
<1>2. Complete(s, path)
  BY DEF s
<1>3. QED
  BY <1>1, <1>2, CompleteLeaves

LEMMA ToolLeaves ==
  ASSUME Goes(action), RunTool
  PROVE  /\ ToolFlags(action) \subseteq state'.done
         /\ action.slot \in Slots => state'.todo[action.slot] = "none"
<1>1. state \in AgentState /\ pc' = "check"
  BY GoesOn DEF Goes
<1> DEFINE s == Settle(state, action.slot)
<1>2. PICK ks, path : Complete(Counted(s, ks), path)
  BY DEF RunTool, CompleteTool, CompleteHere, CompleteWith
<1>3. s \in AgentState /\ (action.slot \in Slots => s.todo[action.slot] = "none")
  BY <1>1, SettleLeaves
<1> HIDE DEF s
<1>4. Counted(s, ks) \in AgentState /\ Counted(s, ks).todo = s.todo
  BY <1>3, CountedLeaves
<1>5. QED
  BY <1>1, <1>2, <1>3, <1>4, CompleteLeaves

\* A row of the setup is done when its action has been.
LEMMA SetupIsDone ==
  ASSUME Goes(action), NEW i \in 1 .. 14, (Policy[i].when)', (Policy[i].do)' = action
  PROVE  FALSE
<1>1. /\ TypeOK /\ state \in AgentState /\ asks' = asks /\ ~Raise /\ execute_action
      /\ action.act \notin Asks /\ pc' = "check"
  BY GoesOn DEF Goes
<1>2. state.done \in SUBSET Flags
  BY <1>1 DEF AgentState
<1>3. i \notin {2, 5, 7, 9, 12}
  BY <1>1, SetupNext DEF Asks
<1>4. CASE i = 1
  <2>1. AuditCapability
    BY <1>1, <1>4, SetupNext, ActionIs DEF execute_action, Tools, Asks
  <2>2. Complete([state EXCEPT !.done = @ \cup {"audit"}], 0)
    BY <2>1 DEF AuditCapability, CompleteHere, Flagged
  <2>3. "audit" \in state'.done
    BY <1>1, <1>2, <2>2, FlagsStay DEF Flags
  <2>4. QED
    BY <1>4, <2>3, SetupNext DEF Did
<1>5. CASE i = 3
  <2>1. IngestDeck
    BY <1>1, <1>5, SetupNext, ActionIs DEF execute_action, Tools, Asks
  <2>2. Complete([state EXCEPT !.done = @ \cup {"ingested"}], Len(evidence) + 1)
    BY <2>1 DEF IngestDeck, CompleteWith, Flagged
  <2>3. "ingested" \in state'.done
    BY <1>1, <1>2, <2>2, FlagsStay DEF Flags
  <2>4. QED
    BY <1>5, <2>3, SetupNext DEF Did
<1>6. CASE i = 4
  <2>1. ApplyDeckPatch
    BY <1>1, <1>6, SetupNext, ActionIs DEF execute_action, Tools, Asks
  <2>2. PICK verified \in BOOLEAN :
          Complete([state EXCEPT !.done = (@ \ {"unverified"}) \cup {"patched"}
                                          \cup (IF verified THEN {} ELSE {"unverified"})], Len(evidence) + 1)
    BY <2>1 DEF ApplyDeckPatch, CompleteWith
  <2> DEFINE done == (state.done \ {"unverified"}) \cup {"patched"} \cup (IF verified THEN {} ELSE {"unverified"})
  <2>3. done \in SUBSET Flags /\ "patched" \in done
    BY <1>2 DEF Flags
  <2>4. Complete([state EXCEPT !.done = done], Len(evidence) + 1)
    BY <2>2
  <2> HIDE DEF done
  <2>5. "patched" \in state'.done
    BY <1>1, <2>3, <2>4, FlagsStay
  <2>6. QED
    BY <1>6, <2>5, SetupNext DEF Did
<1>7. CASE i = 6
  <2>1. RunOnboarding
    BY <1>1, <1>7, SetupNext, ActionIs DEF execute_action, Tools, Asks
  <2>2. PICK ready \in BOOLEAN :
          Complete([state EXCEPT !.done = (@ \ {"onboarding_ready"}) \cup {"onboarding"}
                                          \cup (IF ready THEN {"onboarding_ready"} ELSE {})], 0)
    BY <2>1 DEF RunOnboarding, CompleteHere
  <2> DEFINE done == (state.done \ {"onboarding_ready"}) \cup {"onboarding"}
                     \cup (IF ready THEN {"onboarding_ready"} ELSE {})
  <2>3. done \in SUBSET Flags /\ "onboarding" \in done
    BY <1>2 DEF Flags
  <2>4. Complete([state EXCEPT !.done = done], 0)
    BY <2>2
  <2> HIDE DEF done
  <2>5. "onboarding" \in state'.done
    BY <1>1, <2>3, <2>4, FlagsStay
  <2>6. QED
    BY <1>7, <2>5, SetupNext DEF Did
<1>8. CASE i \in {8, 11}
  <2>1. action.act = "run_preflight" /\ "preflight" \notin state'.done
    BY <1>8, OrderNext DEF Did
  <2>2. RunPreflight
    BY <1>1, <2>1, ActionIs DEF execute_action, Tools, Asks
  <2>3. PICK ready \in BOOLEAN :
          Complete([state EXCEPT !.done = (@ \ {"preflight_ready"}) \cup {"preflight"}
                                          \cup (IF ready THEN {"preflight_ready"} ELSE {})], 0)
    BY <2>2 DEF RunPreflight, CompleteHere
  <2> DEFINE done == (state.done \ {"preflight_ready"}) \cup {"preflight"}
                     \cup (IF ready THEN {"preflight_ready"} ELSE {})
  <2>4. done \in SUBSET Flags /\ "preflight" \in done
    BY <1>2 DEF Flags
  <2>5. Complete([state EXCEPT !.done = done], 0)
    BY <2>3
  <2> HIDE DEF done
  <2>6. QED
    BY <1>1, <2>1, <2>4, <2>5, FlagsStay
<1>9. CASE i = 10
  <2>1. action.act = "run_initial" /\ "initial_tool" \notin state'.done
    BY <1>9, SetupNext DEF Did
  <2>2. RunTool
    BY <1>1, <2>1, ActionIs DEF execute_action, Asks
  <2>3. "initial_tool" \in ToolFlags(action)
    BY <2>1 DEF ToolFlags
  <2>4. QED
    BY <2>1, <2>2, <2>3, ToolLeaves
<1>10. CASE i = 13
  <2>1. action.act = "run_sentaurus" /\ "sentaurus_run" \notin state'.done /\ Has("project")
    BY <1>1, <1>10, SetupNext DEF BaselineDue, Did, Has
  <2>2. RunTool
    BY <1>1, <2>1, ActionIs DEF execute_action, Asks
  <2>3. "sentaurus_run" \in ToolFlags(action)
    BY <2>1 DEF ToolFlags, RunsSentaurus
  <2>4. QED
    BY <2>1, <2>2, <2>3, ToolLeaves
<1>11. CASE i = 14
  <2>1. action.act = "run_user_deck" /\ "user_deck" \notin state'.done
    BY <1>11, SetupNext DEF Did
  <2>2. RunUserDeck
    BY <1>1, <2>1, ActionIs DEF execute_action, Asks
  <2>3. PICK path : Complete([state EXCEPT !.done = @ \cup {"user_deck"}], path)
    BY <2>2 DEF RunUserDeck, CompleteTool, CompleteHere, CompleteWith, Flagged
  <2>4. "user_deck" \in state'.done
    BY <1>1, <1>2, <2>3, FlagsStay DEF Flags
  <2>5. QED
    BY <2>1, <2>4
<1>12. QED
  BY <1>3, <1>4, <1>5, <1>6, <1>7, <1>8, <1>9, <1>10, <1>11

\* What the plans and the signoff record in the checkpoint they complete.
LEMMA RecordStays ==
  ASSUME Goes(action), NEW s \in AgentState, s.latest = state.latest, Complete(s, action.src)
  PROVE  /\ state'.latest = action.src /\ state'.from = s.from /\ state'.made = s.made /\ state'.todo = s.todo
         /\ state'.runs = s.runs /\ state'.guide = s.guide /\ state'.signed = s.signed
<1>1. pc' = "check" /\ action.src = state.latest
  BY DEF Goes
<1>2. QED
  BY <1>1, CompleteLeaves

\* The actions a plan may order from a slot take themselves out of it.
LEMMA SettlesDecision ==
  ASSUME Goes(action), action.slot = "decision", PlanGuidance \/ EvaluateObjectives
  PROVE  state'.todo["decision"] = "none"
<1>1. TypeOK /\ state \in AgentState
  BY GoesOn
<1> DEFINE settled == Settle(state, "decision")
<1>2. /\ settled \in AgentState /\ settled.latest = state.latest /\ settled.todo["decision"] = "none"
      /\ {"decision", "guidance"} \subseteq Slots /\ state.guide \in Nat
  BY <1>1, SettleLeaves DEF Slots, AgentState
<1>3. CASE PlanGuidance
  <2> DEFINE planned == [settled EXCEPT !.signed = state.guide]
  <2>1. \/ Complete(planned, action.src)
        \/ \E ask \in BOOLEAN : Complete(QueuedIn(planned, "guidance", "run_guidance", ask), action.src)
    BY <1>3 DEF PlanGuidance, CompleteHere
  <2> HIDE DEF settled
  <2>2. planned \in AgentState /\ planned.latest = state.latest /\ planned.todo = settled.todo
    BY <1>2 DEF AgentState
  <2> HIDE DEF planned
  <2>3. ASSUME NEW ask
        PROVE  /\ QueuedIn(planned, "guidance", "run_guidance", ask) \in AgentState
               /\ QueuedIn(planned, "guidance", "run_guidance", ask).latest = state.latest
               /\ QueuedIn(planned, "guidance", "run_guidance", ask).todo["decision"] = "none"
    BY <1>2, <2>2, QueuedLeaves, PlanActs
  <2>4. QED
    BY <1>2, <2>1, <2>2, <2>3, RecordStays
<1>4. CASE EvaluateObjectives
  <2> DEFINE evaluated == [settled EXCEPT !.made["objectives"] = action.src]
  <2>1. Complete(evaluated, action.src)
    BY <1>4 DEF EvaluateObjectives, CompleteHere
  <2> HIDE DEF settled
  <2> DEFINE made == [settled.made EXCEPT !["objectives"] = action.src]
  <2>2. action.src \in Nat
    BY <1>1 DEF TypeOK, Files
  <2>3. made \in [Artifacts -> Nat]
    BY <1>2, <2>2 DEF AgentState
  <2>4. evaluated = [settled EXCEPT !.made = made]
    BY <1>2 DEF AgentState
  <2> HIDE DEF made
  <2>5. evaluated \in AgentState /\ evaluated.latest = state.latest /\ evaluated.todo = settled.todo
    BY <1>2, <2>3, <2>4 DEF AgentState
  <2> HIDE DEF evaluated
  <2>6. QED
    BY <1>2, <2>1, <2>5, RecordStays
<1>5. QED
  BY <1>3, <1>4

LEMMA QueuedIsDone ==
  ASSUME Goes(action), NEW i \in {15, 16, 17, 19, 20, 21}, (Policy[i].when)', (Policy[i].do)' = action,
         action.act # "run_repair",
         action.slot = "decision" => action.act = Reviewed(state.todo["decision"])
  PROVE  FALSE
<1>1. /\ TypeOK /\ state \in AgentState /\ asks' = asks /\ ~Raise /\ execute_action
      /\ action.act \notin Asks /\ pc' = "check"
  BY GoesOn DEF Goes
<1>2. CASE i \in {15, 16, 21}
  <2> DEFINE Emptied(slot) == action.slot = slot /\ state'.todo[slot] # "none"
  <2>1. i = 15 => action.act = "run_refinement" /\ Emptied("refinement")
    BY OrderNext
  <2>2. i = 16 => action.act = "run_guidance" /\ Emptied("guidance")
    BY OrderNext
  <2>3. i = 21 => action.act = "run_sentaurus_patch" /\ Emptied("patch")
    BY OrderNext, PlanNext
  <2>4. action.act \in {"run_refinement", "run_guidance", "run_sentaurus_patch"}
    BY <1>2, <2>1, <2>2, <2>3
  <2>5. RunTool
    BY <1>1, <2>4, ActionIs DEF execute_action, Asks
  <2>6. \A slot \in Slots : ~Emptied(slot)
    BY <2>5, ToolLeaves
  <2>7. QED
    BY <1>2, <2>1, <2>2, <2>3, <2>6 DEF Slots
<1>3. CASE i = 17
  <2>1. action.slot = "decision" /\ state'.todo["decision"] # "none"
    BY <1>3, PlanNext, OrderNext
  <2>2. state.todo["decision"] \in DecisionActs
    BY DEF Goes, AgentInv, PlacesInv
  <2>3. action.act \in {"none", "plan_guidance", "evaluate_objectives"}
    BY <1>1, <2>1, <2>2 DEF DecisionActs, Reviewed, Asks
  <2>4. PlanGuidance \/ EvaluateObjectives
    BY <1>1, <2>3, ActionIs DEF execute_action, Asks, Tools
  <2>5. QED
    BY <2>1, <2>4, SettlesDecision
<1>4. CASE i = 19
  BY <1>1, <1>4, PlanNext DEF Asks
<1>5. CASE i = 20
  <2>1. action.act = "plan_promotion" /\ state'.from["promotion"] # state'.runs["extension"]
    BY <1>5, PlanNext
  <2>2. PlanSchemaPromotion
    BY <1>1, <2>1, ActionIs DEF execute_action, Asks, Tools
  <2>3. PICK next \in {"none", "ask_user"} :
          Complete([state EXCEPT !.todo["promotion"] = next,
                                 !.from["promotion"] = state.runs["extension"]], action.src)
    BY <2>2 DEF PlanSchemaPromotion, CompleteHere
  <2> DEFINE s == [state EXCEPT !.todo["promotion"] = next, !.from["promotion"] = state.runs["extension"]]
             todo == [state.todo EXCEPT !["promotion"] = next]
             from == [state.from EXCEPT !["promotion"] = state.runs["extension"]]
  <2>4. /\ todo \in [Slots -> Acts] /\ from \in [Plans -> Nat]
        /\ from["promotion"] = state.runs["extension"]
    BY <1>1, PlanActs DEF AgentState, Plans, Counters
  <2>5. /\ s \in AgentState /\ s.latest = state.latest /\ s.from = from /\ s.runs = state.runs
    BY <1>1, <2>4 DEF AgentState
  <2>6. Complete(s, action.src)
    BY <2>3
  <2> HIDE DEF s, todo, from
  <2>7. QED
    BY <2>1, <2>4, <2>5, <2>6, RecordStays
<1>6. QED
  BY <1>2, <1>3, <1>4, <1>5

\* A plan that completes, with or without an order of its own, was made from
\* what is the latest state then.
LEMMA PlanStays ==
  ASSUME Goes(action), NEW s \in AgentState, s.latest = state.latest, NEW ks, NEW k \in ks \cap Plans,
         \/ Complete(Planned(s, ks), action.src)
         \/ \E slot \in Slots, a \in Acts, ask \in BOOLEAN :
               Complete(QueuedIn(Planned(s, ks), slot, a, ask), action.src)
  PROVE  state'.from[k] = state'.latest
<1>1. TypeOK
  BY GoesOn
<1> DEFINE planned == Planned(s, ks)
<1>2. planned \in AgentState /\ planned.latest = state.latest /\ planned.from[k] = action.src
  BY <1>1, PlannedLeaves
<1>3. CASE Complete(planned, action.src)
  <2> HIDE DEF planned
  <2>1. QED
    BY <1>2, <1>3, RecordStays
<1>4. ASSUME NEW slot \in Slots, NEW a \in Acts, NEW ask \in BOOLEAN,
             Complete(QueuedIn(planned, slot, a, ask), action.src)
      PROVE  state'.from[k] = state'.latest
  <2> HIDE DEF planned
  <2>1. /\ QueuedIn(planned, slot, a, ask) \in AgentState
        /\ QueuedIn(planned, slot, a, ask).latest = state.latest
        /\ QueuedIn(planned, slot, a, ask).from = planned.from
    BY <1>2, QueuedLeaves
  <2>2. QED
    BY <1>2, <1>4, <2>1, RecordStays
<1>5. QED
  BY <1>3, <1>4

\* A curve decision that completes is recorded for the latest state.
LEMMA DecisionStays ==
  ASSUME Goes(action), PlanCurveDecision
  PROVE  state'.from["decision"] = state'.latest
<1>1. TypeOK /\ state \in AgentState /\ "decision" \in Plans /\ "decided" \in Plans /\ "decision" \in Slots
  BY GoesOn DEF Plans, Slots
<1>2. \A s : ~FailWith(s)
  BY DEF FailWith, Goes
<1> DEFINE once == Counted(state, {"decision"})
           counted == Planned(once, {"decision"})
           decided == Planned(counted, {"decided"})
           Told(a, guide) == [QueuedIn(decided, "decision", a, FALSE) EXCEPT !.guide = guide]
<1>3. \/ Complete(Told("plan_guidance", decided.runs["decision"] + 1), action.src)
      \/ \E next \in {"run_repair", "pareto_review"} : Complete(Told(next, 0), action.src)
      \/ Complete(counted, action.src)
  BY <1>2 DEF PlanCurveDecision, CompleteHere
<1>4. once \in AgentState /\ once.latest = state.latest
  BY <1>1, CountedLeaves
<1> HIDE DEF once
<1>5. counted \in AgentState /\ counted.latest = state.latest /\ counted.from["decision"] = action.src
  BY <1>1, <1>4, PlannedLeaves
<1> HIDE DEF counted
<1>6. decided \in AgentState /\ decided.latest = state.latest /\ decided.from["decision"] = action.src
  BY <1>1, <1>5, PlannedLeaves
<1> HIDE DEF decided
<1>7. decided.runs["decision"] + 1 \in Nat
  BY <1>6 DEF AgentState, Counters
<1>8. ASSUME NEW a \in Acts, NEW guide \in Nat, Complete(Told(a, guide), action.src)
      PROVE  state'.from["decision"] = state'.latest
  <2> DEFINE queued == QueuedIn(decided, "decision", a, FALSE)
  <2>1. ASSUME NEW ask
        PROVE  /\ QueuedIn(decided, "decision", a, ask) \in AgentState
               /\ QueuedIn(decided, "decision", a, ask).latest = state.latest
               /\ QueuedIn(decided, "decision", a, ask).from = decided.from
    BY <1>1, <1>6, QueuedLeaves
  <2>2. queued \in AgentState /\ queued.latest = state.latest /\ queued.from = decided.from
    BY <2>1, Zenon
  <2> HIDE DEF queued
  <2>3. /\ [queued EXCEPT !.guide = guide] \in AgentState
        /\ [queued EXCEPT !.guide = guide].latest = state.latest
        /\ [queued EXCEPT !.guide = guide].from = decided.from
    BY <2>2 DEF AgentState
  <2>4. Complete([queued EXCEPT !.guide = guide], action.src)
    BY <1>8 DEF queued
  <2>5. QED
    BY <1>6, <2>3, <2>4, RecordStays
<1>9. {"plan_guidance", "run_repair", "pareto_review"} \subseteq Acts /\ 0 \in Nat
  BY DEF Acts, StateBound, Tools, Others
<1> HIDE DEF Told
<1>10. QED
  BY <1>3, <1>5, <1>7, <1>8, <1>9, RecordStays

\* A row that plans is done when its plan has been made.
LEMMA PlansAreDone ==
  ASSUME Goes(action), NEW i \in 23 .. 29, (Policy[i].when)', (Policy[i].do)' = action
  PROVE  FALSE
<1>1. /\ TypeOK /\ state \in AgentState /\ asks' = asks /\ ~Raise /\ execute_action
      /\ action.act \notin Asks /\ pc' = "check" /\ state.latest = state.latest
  BY GoesOn DEF Goes
<1>2. CASE i = 23
  <2>1. action.act = "plan_guidance" /\ action.slot = "none" /\ Guide' # state'.signed
    BY <1>2, OrderNext, PlanNext
  <2>2. PlanGuidance
    BY <1>1, <2>1, ActionIs DEF execute_action, Asks, Tools
  <2>3. Settle(state, action.slot) = state
    BY <2>1 DEF Settle, Slots
  <2> DEFINE planned == [state EXCEPT !.signed = Guide]
  <2>4. \/ Complete(planned, action.src)
        \/ \E ask \in BOOLEAN : Complete(QueuedIn(planned, "guidance", "run_guidance", ask), action.src)
    BY <2>1, <2>2, <2>3 DEF PlanGuidance, CompleteHere
  <2>5. planned \in AgentState /\ planned.latest = state.latest /\ planned.signed = Guide /\ planned.guide = state.guide
    BY <1>1 DEF AgentState, Guide
  <2> HIDE DEF planned
  <2>6. ASSUME NEW ask
        PROVE  /\ QueuedIn(planned, "guidance", "run_guidance", ask) \in AgentState
               /\ QueuedIn(planned, "guidance", "run_guidance", ask).latest = state.latest
               /\ QueuedIn(planned, "guidance", "run_guidance", ask).signed = Guide
               /\ QueuedIn(planned, "guidance", "run_guidance", ask).guide = state.guide
    BY <2>5, QueuedLeaves, PlanActs DEF Slots
  <2>7. state'.signed = Guide /\ state'.guide = state.guide
    BY <2>4, <2>5, <2>6, RecordStays
  <2>8. Guide' = Guide
    BY <1>1, <2>7 DEF Guide, Has
  <2>9. QED
    BY <2>1, <2>7, <2>8
<1>3. CASE i = 24
  <2>1. action.act = "plan_decision" /\ state'.from["decision"] # state'.latest
    BY <1>3, OrderNext, EndNext
  <2>2. PlanCurveDecision
    BY <1>1, <2>1, ActionIs DEF execute_action, Asks, Tools
  <2>3. QED
    BY <2>1, <2>2, DecisionStays
<1>4. CASE i = 25
  <2>1. action.act = "plan_refinement" /\ state'.from["refinement"] # state'.latest
    BY <1>4, OrderNext
  <2>2. PlanRefinement
    BY <1>1, <2>1, ActionIs DEF execute_action, Asks, Tools
  <2>3. \/ Complete(Planned(state, {"refinement"}), action.src)
        \/ \E ask \in BOOLEAN :
              Complete(QueuedIn(Planned(state, {"refinement"}), "refinement", "run_refinement", ask), action.src)
    BY <2>2 DEF PlanRefinement, CompleteHere
  <2>4. "refinement" \in {"refinement"} \cap Plans /\ "refinement" \in Slots /\ "run_refinement" \in Acts
    BY PlanActs DEF Plans, Slots
  <2>5. QED
    BY <1>1, <2>1, <2>3, <2>4, PlanStays
<1>5. CASE i = 26
  <2>1. /\ action.act = Reviewed("pareto_review")' /\ action.slot = "tradeoff"
        /\ state'.from["tradeoff"] # state'.latest
    BY <1>5, PlanNext
  <2>2. action.act = "evaluate_objectives"
    BY <1>1, <2>1 DEF Reviewed, Asks
  <2>3. EvaluateObjectives
    BY <1>1, <2>2, ActionIs DEF execute_action, Asks, Tools
  <2>4. Settle(state, action.slot) = state
    BY <2>1 DEF Settle, Slots
  <2> DEFINE evaluated == [state EXCEPT !.made["objectives"] = action.src]
             made == [state.made EXCEPT !["objectives"] = action.src]
  <2>5. Complete(Planned(evaluated, {"tradeoff"}), action.src)
    BY <2>1, <2>3, <2>4 DEF EvaluateObjectives, CompleteHere
  <2>6. action.src \in Nat
    BY <1>1 DEF TypeOK, Files
  <2>7. made \in [Artifacts -> Nat]
    BY <1>1, <2>6 DEF AgentState
  <2>8. evaluated = [state EXCEPT !.made = made]
    BY <1>1 DEF AgentState
  <2> HIDE DEF made
  <2>9. evaluated \in AgentState /\ evaluated.latest = state.latest
    BY <1>1, <2>7, <2>8 DEF AgentState
  <2> HIDE DEF evaluated
  <2>10. "tradeoff" \in {"tradeoff"} \cap Plans
    BY DEF Plans
  <2>11. QED
    BY <2>1, <2>5, <2>9, <2>10, PlanStays
<1>6. CASE i = 27
  <2>1. action.act = "plan_srefinement" /\ state'.from["srefinement"] # state'.latest
    BY <1>6, PlanNext
  <2>2. PlanSentaurusRefinement
    BY <1>1, <2>1, ActionIs DEF execute_action, Asks, Tools
  <2> DEFINE counted == Counted(state, {"design"})
             ks == {"srefinement", "experiment"}
  <2>3. \/ Complete(Planned(counted, ks), action.src)
        \/ \E ask \in BOOLEAN :
              Complete(QueuedIn(Planned(counted, ks), "patch", "run_sentaurus_patch", ask), action.src)
    BY <2>2 DEF PlanSentaurusRefinement, SelectPatch, CompleteHere
  <2>4. counted \in AgentState /\ counted.latest = state.latest
    BY <1>1, CountedLeaves
  <2>5. "srefinement" \in ks \cap Plans /\ "patch" \in Slots /\ "run_sentaurus_patch" \in Acts
    BY PlanActs DEF Plans, Slots
  <2> HIDE DEF counted, ks
  <2>6. QED
    BY <2>1, <2>3, <2>4, <2>5, PlanStays
<1>7. CASE i = 28
  <2>1. action.act = "plan_sentaurus_patch" /\ state'.from["spatch"] # state'.latest
    BY <1>7, EndNext
  <2>2. PlanSentaurusPatch
    BY <1>1, <2>1, ActionIs DEF execute_action, Asks, Tools
  <2> DEFINE counted == Counted(state, {"spatch", "design"})
             ks == {"spatch", "experiment"}
             planned == Planned(counted, ks)
             exhausted == Planned(planned, {"exhausted"})
  <2>3. \/ Complete(planned, action.src)
        \/ \E ask \in BOOLEAN :
              Complete(QueuedIn(planned, "patch", "run_sentaurus_patch", ask), action.src)
        \/ Complete(exhausted, action.src)
    BY <2>2 DEF PlanSentaurusPatch, SelectPatch, CompleteHere
  <2>4. counted \in AgentState /\ counted.latest = state.latest
    BY <1>1, CountedLeaves
  <2>5. /\ "spatch" \in ks \cap Plans /\ "patch" \in Slots /\ "run_sentaurus_patch" \in Acts
        /\ "spatch" \notin {"exhausted"}
    BY PlanActs DEF Plans, Slots
  <2> HIDE DEF counted, ks
  <2>6. planned \in AgentState /\ planned.latest = state.latest /\ planned.from["spatch"] = action.src
    BY <1>1, <2>4, <2>5, PlannedLeaves
  <2>7. exhausted \in AgentState /\ exhausted.latest = state.latest /\ exhausted.from["spatch"] = action.src
    <3> HIDE DEF planned
    <3>1. QED
      BY <1>1, <2>5, <2>6, PlannedLeaves
  <2> HIDE DEF exhausted
  <2>8. CASE Complete(exhausted, action.src)
    BY <2>1, <2>7, <2>8, RecordStays
  <2>9. QED
    BY <2>1, <2>3, <2>4, <2>5, <2>8, PlanStays
<1>8. CASE i = 29
  <2>1. action.act = "plan_extension" /\ state'.from["extension"] # state'.latest
    BY <1>8, EndNext
  <2>2. PlanSchemaExtension
    BY <1>1, <2>1, ActionIs DEF execute_action, Asks, Tools
  <2> DEFINE counted == Counted(state, {"extension"})
             planned == Planned(counted, {"extension"})
             extended == [planned EXCEPT !.done = @ \cup {"extension_candidate"}]
  <2>3. Complete(planned, action.src) \/ Complete(extended, action.src)
    BY <2>2 DEF PlanSchemaExtension, CompleteHere
  <2>4. counted \in AgentState /\ counted.latest = state.latest
    BY <1>1, CountedLeaves
  <2> HIDE DEF counted
  <2>5. planned \in AgentState /\ planned.latest = state.latest /\ planned.from["extension"] = action.src
    BY <1>1, <2>4, PlannedLeaves DEF Plans
  <2> HIDE DEF planned
  <2>6. extended \in AgentState /\ extended.latest = state.latest /\ extended.from["extension"] = action.src
    BY <2>5 DEF AgentState, Flags
  <2> HIDE DEF extended
  <2>7. QED
    BY <2>1, <2>3, <2>5, <2>6, RecordStays
<1>9. QED
  BY <1>2, <1>3, <1>4, <1>5, <1>6, <1>7, <1>8

\* An artifact made of the latest state stays made.
LEMMA MadeStays ==
  ASSUME Goes(action), NEW a \in Artifacts, NEW path \in {0, state.latest},
         Complete([state EXCEPT !.made[a] = action.src], path)
  PROVE  state'.made[a] = action.src
<1> DEFINE made == [state.made EXCEPT ![a] = action.src]
           s == [state EXCEPT !.made = made]
<1>1. TypeOK /\ state \in AgentState /\ pc' = "check"
  BY GoesOn DEF Goes
<1>2. action.src \in Nat
  BY <1>1 DEF TypeOK, Files
<1>3. made \in [Artifacts -> Nat] /\ made[a] = action.src
  BY <1>1, <1>2 DEF AgentState
<1>4. [state EXCEPT !.made[a] = action.src] = s
  BY <1>1 DEF AgentState
<1> HIDE DEF made
<1>5. s \in AgentState /\ s.latest = state.latest /\ s.made = made
  BY <1>1, <1>3 DEF AgentState
<1> HIDE DEF s
<1>6. QED
  BY <1>1, <1>3, <1>4, <1>5, CompleteLeaves

\* A row of the signoff is done when its artifact has been made.
LEMMA SignoffIsDone ==
  ASSUME Goes(action), NEW i \in 31 .. 36, (Policy[i].when)', (Policy[i].do)' = action
  PROVE  FALSE
<1>1. /\ TypeOK /\ state \in AgentState /\ ~Raise /\ execute_action
      /\ action.act \notin Asks /\ action.act # "stop_success" /\ action.src = state.latest
  BY GoesOn DEF Goes
<1>2. CASE i = 31
  <2>1. action.act = "run_benchmark" /\ state'.made["benchmark"] = 0
    BY <1>2, EndNext
  <2>2. RunBenchmark
    BY <1>1, <2>1, ActionIs DEF execute_action, Asks, Tools
  <2>3. action.src # 0 /\ Complete([state EXCEPT !.made["benchmark"] = action.src], action.src)
    BY <2>2 DEF RunBenchmark, CompleteHere
  <2>4. "benchmark" \in Artifacts
    BY DEF Artifacts
  <2>5. QED
    BY <1>1, <2>1, <2>3, <2>4, MadeStays
<1>3. CASE i = 32
  <2>1. action.act = "plan_experiment" /\ state'.from["experiment"] # state'.latest
    BY <1>3, EndNext
  <2>2. PlanExperiment
    BY <1>1, <2>1, ActionIs DEF execute_action, Asks, Tools
  <2> DEFINE counted == Counted(state, {"design"})
             planned == Planned(counted, {"experiment"})
             Chosen(c) == QueuedIn(planned, "experiment", c[1], c[2])
  <2>3. \/ Complete(planned, action.src)
        \/ \E c \in Candidates : Complete(Planned(Chosen(c), {"candidate"}), action.src)
    BY <2>2 DEF PlanExperiment, CompleteHere
  <2>4. counted \in AgentState /\ counted.latest = state.latest
    BY <1>1, CountedLeaves
  <2> HIDE DEF counted
  <2>5. planned \in AgentState /\ planned.latest = state.latest /\ planned.from["experiment"] = action.src
    BY <1>1, <2>4, PlannedLeaves DEF Plans
  <2> HIDE DEF planned
  <2>6. ASSUME NEW c \in Candidates, Complete(Planned(Chosen(c), {"candidate"}), action.src)
        PROVE  state'.from["experiment"] = state'.latest
    <3>1. "experiment" \in Slots /\ c[1] \in Acts
      BY CandidateNames, PlanActs DEF Slots
    <3>2. Chosen(c) \in AgentState /\ Chosen(c).latest = state.latest /\ Chosen(c).from = planned.from
      BY <2>5, <3>1, QueuedLeaves
    <3> DEFINE queued == Chosen(c)
               s == Planned(queued, {"candidate"})
    <3> HIDE DEF Chosen
    <3>3. queued \in AgentState /\ queued.latest = state.latest /\ queued.from["experiment"] = action.src
      BY <2>5, <3>2
    <3>4. Complete(s, action.src)
      BY <2>6
    <3> HIDE DEF queued
    <3>5. s \in AgentState /\ s.latest = state.latest /\ s.from["experiment"] = action.src
      BY <1>1, <3>3, PlannedLeaves DEF Plans
    <3> HIDE DEF s
    <3>6. QED
      BY <3>4, <3>5, RecordStays
  <2> HIDE DEF Chosen
  <2>7. QED
    BY <2>1, <2>3, <2>5, <2>6, RecordStays
<1>4. CASE i = 33
  <2>1. action.act = "evaluate_objectives" /\ action.slot = "none" /\ state'.made["objectives"] = 0
    BY <1>4, EndNext
  <2>2. EvaluateObjectives
    BY <1>1, <2>1, ActionIs DEF execute_action, Asks, Tools
  <2>3. Settle(state, action.slot) = state
    BY <2>1 DEF Settle, Slots
  <2>4. action.src # 0 /\ Complete([state EXCEPT !.made["objectives"] = action.src], action.src)
    BY <2>1, <2>2, <2>3 DEF EvaluateObjectives, CompleteHere
  <2>5. "objectives" \in Artifacts
    BY DEF Artifacts
  <2>6. QED
    BY <1>1, <2>1, <2>4, <2>5, MadeStays
<1>5. CASE i = 34
  <2>1. action.act = "generate_report" /\ state'.made["report"] = 0
    BY <1>5, EndNext
  <2>2. GenerateReport
    BY <1>1, <2>1, ActionIs DEF execute_action, Asks, Tools
  <2>3. action.src # 0 /\ Complete([state EXCEPT !.made["report"] = action.src], action.src)
    BY <2>2 DEF GenerateReport, CompleteHere
  <2>4. "report" \in Artifacts
    BY DEF Artifacts
  <2>5. QED
    BY <1>1, <2>1, <2>3, <2>4, MadeStays
<1>6. CASE i = 35
  <2>1. action.act = "generate_dashboard" /\ state'.made["dashboard"] = 0
    BY <1>6, EndNext
  <2>2. GenerateDashboard
    BY <1>1, <2>1, ActionIs DEF execute_action, Asks, Tools
  <2>3. action.src # 0 /\ Complete([state EXCEPT !.made["dashboard"] = action.src], 0)
    BY <2>2 DEF GenerateDashboard, CompleteHere
  <2>4. "dashboard" \in Artifacts
    BY DEF Artifacts
  <2>5. QED
    BY <1>1, <2>1, <2>3, <2>4, MadeStays
<1>7. i # 36
  BY <1>1, EndNext
<1>8. QED
  BY <1>2, <1>3, <1>4, <1>5, <1>6, <1>7

\* Only the decision row orders out of the decision slot.
LEMMA DecisionRow ==
  /\ \A i \in 1 .. 36 : Policy[i].do.slot = "decision" => i = 17
  /\ \A i \in 1 .. 36 : i = 18 => Policy[i].do.slot = "experiment"
<1>1. \A i \in 1 .. 14 : Setup[i].do.slot = "none"
  BY DEF Setup, Row
<1>2. Queued[1].do.slot = "refinement" /\ Queued[2].do.slot = "guidance" /\ Queued[4].do.slot = "experiment"
  BY DEF Queued, Queue
<1>3. Queued[5].do.slot = "none" /\ Queued[6].do.slot = "none" /\ Queued[7].do.slot = "patch"
  BY DEF Queued, Queue, Row
<1>4. \A i \in 1 .. 8 : Planning[i].do.slot \in {"none", "tradeoff"}
  BY DEF Planning, Row
<1>5. \A i \in 1 .. 7 : Signoff[i].do.slot = "none"
  BY DEF Signoff, Row
<1>6. \A i \in 1 .. 36 : Policy[i].do.slot = "decision" => i = 17
  <2> TAKE i \in 1 .. 36
  <2>1. CASE i <= 14
    BY <1>1, <2>1, PolicyRows
  <2>2. CASE i \in 15 .. 21
    <3>1. Policy[i] = Queued[i - 14] /\ i - 14 \in 1 .. 7
      BY <2>2, PolicyRows
    <3>2. i - 14 # 3 => Queued[i - 14].do.slot # "decision"
      BY <1>2, <1>3, <3>1
    <3>3. QED
      BY <3>1, <3>2
  <2>3. CASE i \in 22 .. 29
    <3>1. Policy[i] = Planning[i - 21] /\ i - 21 \in 1 .. 8
      BY <2>3, PolicyRows
    <3>2. QED
      BY <1>4, <3>1
  <2>4. CASE i >= 30
    <3>1. Policy[i] = Signoff[i - 29] /\ i - 29 \in 1 .. 7
      BY <2>4, PolicyRows
    <3>2. QED
      BY <1>5, <3>1
  <2>5. QED
    BY <2>1, <2>2, <2>3, <2>4
<1>7. QED
  BY <1>6, PlanTable

\* The deterministic policy never orders again, on the same state, what it
\* has just done: from a state with the invariant, the row it was about to
\* order again cannot apply.
LEMMA OrdersAnew ==
  ASSUME AgentInv, [Next]_vars, pc = "execute", pc' = "check", action = deterministic_action,
         action.act \notin {"run_repair", "run_supervisor"}, action.slot # "experiment"
  PROVE  deterministic_action' # action
<1> SUFFICES ASSUME deterministic_action' = action
             PROVE  FALSE
  OBVIOUS
<1>1. PICK k \in 1 .. 36 : deterministic_action = Policy[k].do
  BY FirstRow
<1>2. k # 18 /\ action.src = state.latest
  BY <1>1, RowSources, DecisionRow
<1>3. action.slot = "decision" => action.act = Reviewed(state.todo["decision"])
  BY <1>1, DecisionRow, PlanTable
<1>4. execute_action
  BY DEF Next, Step, vars, LaunchFresh, LaunchResumed, Launch, Approve, Cancel, Crash, Leave, Exhaust, ObeyCancel,
         Check, DecisionFails, AskConfirmation, BeginStep
<1>5. Goes(action)
  BY <1>2, <1>4 DEF Goes
<1>6. PICK i \in 1 .. 36 : (Policy[i].when)' /\ (Policy[i].do)' = action
  BY FirstRowNext
<1>7. i # 18 /\ i # 22 /\ i # 30
  BY <1>6, OrderNext, PlanNext
<1>8. i \in 1 .. 14 \/ i \in {15, 16, 17, 19, 20, 21} \/ i \in 23 .. 29 \/ i \in 31 .. 36
  BY <1>7
<1>9. QED
  BY <1>3, <1>5, <1>6, <1>8, SetupIsDone, QueuedIsDone, PlansAreDone, SignoffIsDone

\* The deterministic policy never orders again, on the same state, what it
\* has just done.
THEOREM PolicyNeverRepeats == Spec => NeverRepeats
<1>1. AgentInv /\ [Next]_vars =>
        (/\ pc = "execute" /\ pc' = "check" /\ action = deterministic_action
         /\ action.act \notin {"run_repair", "run_supervisor"} /\ action.slot # "experiment"
         => deterministic_action' # action)
  BY OrdersAnew
<1>2. QED
  BY Initially, Inductive, <1>1, PTL DEF Spec, NeverRepeats
=============================================================================
