-------------------------------- MODULE Agent --------------------------------
(***************************************************************************)
(* One investigation driven through agents (src/src/agent.rs,               *)
(* src/src/coordinator.rs, src/src/delegate.rs): GenericAgent::step with    *)
(* its lifecycle hooks, CoordinatorAgent::step, and delegation, where a     *)
(* skill calls a tool behind which another agent steps on a context of its  *)
(* own.                                                                     *)
(*                                                                          *)
(* `stack` holds the step calls in progress, the innermost last.  Skills    *)
(* and hooks are the host's: they may return anything.  A coordinator's     *)
(* call of its specialist is a tail call, so it takes over the frame.  Evidence *)
(* and the text of results are left out.                                    *)
(***************************************************************************)
EXTENDS Integers, Sequences

CONSTANTS
  Chain,          \* Chain[a]: the skills of generic agent a, in order
  Short,          \* Short[a]: short_circuit_on_conclude
  Rules,          \* Rules[a]: coordinator a's rules, [agent, signals]
  Specialists,    \* Specialists[a]: the agents registered with coordinator a
  Fallback,       \* Fallback[a]: its fallback, or NoAgent
  Needs,          \* Needs[s]: the signals skill s wants to see
  Signals,
  Deltas,         \* confidence deltas skills return
  MaxConfidence,  \* the confidence 1.0
  Given,          \* confidences a JSON context may carry
  Hooks,          \* the number of lifecycle hooks of every agent
  Allowed,        \* Allowed[a]: the delegate tools in generic agent a's whitelist
  Entry,          \* the agent the host steps
  Delegates,      \* the agents the host may wire as delegate tools
  NoAgent,
  MaxSteps,       \* bound: how often the host steps the investigation
  MaxDepth        \* bound: how deep delegation nests

Agents == DOMAIN Chain \cup DOMAIN Rules

ASSUME HooksAssumption == Hooks \in Nat \ {0}
ASSUME AgentsAssumption == Entry \in Agents /\ Delegates \subseteq Agents /\ NoAgent \notin Agents
ASSUME AllowedAssumption == \A a \in DOMAIN Chain : Allowed[a] \subseteq Delegates
ASSUME ChainAssumption ==
  \A a \in DOMAIN Chain : Chain[a] \in Seq(DOMAIN Needs) /\ Short[a] \in BOOLEAN
ASSUME RulesAssumption ==
  \A c \in DOMAIN Rules : DOMAIN Rules[c] = 1 .. Len(Rules[c]) /\ Specialists[c] \subseteq Agents
ASSUME ConfidenceAssumption == Deltas \subseteq Int /\ Given \subseteq Int /\ MaxConfidence \in Nat

VARIABLES
  stack,   \* the steps in progress
  wired,   \* the delegates registered as tools so far (the registry is shared and live)
  steps    \* history: how often the host has stepped

vars == <<stack, wired, steps>>

\* A context is [signals, confidence, pending]; pending is none, hint or conclude.

----------------------------------------------------------------------------
(* Frames.  `log` is what each hook has been told, `hook` the one to tell   *)
(* next, `then` where the step goes on afterwards; `refused` (history) is   *)
(* where in the chain skills said that they do not apply.                   *)

Top == stack[Len(stack)]

Rest == SubSeq(stack, 1, Len(stack) - 1)

SkillEvents == {"before_skill(true)", "before_skill(false)", "after_skill"}

\* Tell the hooks, which skill it is about where it is about one; their answers are
\* only logged.
Notify(frame, kind, then) ==
  LET skill == IF kind \in SkillEvents THEN Chain[frame.agent][frame.pos] ELSE "none"
  IN  [frame EXCEPT !.pc = "notify", !.event = [kind |-> kind, skill |-> skill],
                    !.hook = 1, !.then = then]

Frame(agent, ctx) ==
  LET frame == [agent |-> agent, ctx |-> ctx, pc |-> "route", then |-> "consider",
                event |-> [kind |-> "none", skill |-> "none"], hook |-> 1, log |-> [h \in 1 .. Hooks |-> <<>>],
                pos |-> 1, called |-> FALSE, run |-> <<>>, skipped |-> <<>>,
                refused |-> {}, concluded |-> FALSE]
  IN  IF agent \in DOMAIN Chain THEN Notify(frame, "before_step", "consider") ELSE frame

NewContext(signals, confidence) ==
  [signals |-> signals, confidence |-> confidence, pending |-> "none"]

Init ==
  /\ \E signals \in SUBSET Signals : stack = <<Frame(Entry, NewContext(signals, 0))>>
  /\ wired = {}
  /\ steps = 1

SetTop(frame) ==
  /\ stack' = Append(Rest, frame)
  /\ UNCHANGED <<wired, steps>>

At(pc) == stack # <<>> /\ Top.pc = pc

----------------------------------------------------------------------------
(* Lifecycle hooks: notify_before_step, ..., notify_step_error.             *)

Told(frame) == [frame EXCEPT !.log[frame.hook] = Append(@, frame.event)]

\* mutant: `?` on the hook's result, which ends the notification
NotifyHook_Stops ==
  /\ At("notify")
  /\ \E ok \in BOOLEAN :
       SetTop([Told(Top) EXCEPT !.hook = @ + 1,
                                !.pc = IF ok /\ Top.hook < Hooks THEN "notify" ELSE Top.then])

\* A hook is told; whether it fails makes no difference.
NotifyHook ==
  /\ At("notify")
  /\ SetTop([Told(Top) EXCEPT !.hook = @ + 1,
                              !.pc = IF Top.hook < Hooks THEN "notify" ELSE Top.then])

----------------------------------------------------------------------------
(* GenericAgent::step                                                       *)

Skill == Chain[Top.agent][Top.pos]

Considering == At("consider") /\ Top.pos <= Len(Chain[Top.agent])

Applies == Needs[Skill] \subseteq Top.ctx.signals

\* mutant: `continue` before the push
Decline_NotReported ==
  /\ Considering
  /\ Top.concluded /\ Short[Top.agent]
  /\ SetTop([Notify(Top, "before_skill(false)", "consider") EXCEPT !.pos = @ + 1])

Skip(frame) ==
  SetTop([Notify(frame, "before_skill(false)", "consider") EXCEPT
            !.pos = @ + 1, !.skipped = Append(@, Skill)])

\* The chain was concluded: the skill is declined without being asked.
Decline ==
  /\ Considering
  /\ Top.concluded /\ Short[Top.agent]
  /\ Skip(Top)

SkipInapplicable_Untold ==   \* mutant: the hooks hear only of skills that apply
  /\ Considering
  /\ ~ (Top.concluded /\ Short[Top.agent])
  /\ ~ Applies
  /\ SetTop([Top EXCEPT !.pos = @ + 1, !.skipped = Append(@, Skill),
                        !.refused = @ \cup {Top.pos}])

SkipInapplicable ==
  /\ Considering
  /\ ~ (Top.concluded /\ Short[Top.agent])
  /\ ~ Applies
  /\ Skip([Top EXCEPT !.refused = @ \cup {Top.pos}])

StartSkill_IgnoresConclusion ==   \* mutant: the short-circuit test is dropped
  /\ Considering
  /\ Applies
  /\ SetTop([Notify(Top, "before_skill(true)", "execute") EXCEPT !.called = FALSE])

StartSkill ==
  /\ Considering
  /\ ~ (Top.concluded /\ Short[Top.agent])
  /\ Applies
  /\ SetTop([Notify(Top, "before_skill(true)", "execute") EXCEPT !.called = FALSE])

Clamp(n) == IF n < 0 THEN 0 ELSE IF n > MaxConfidence THEN MaxConfidence ELSE n

\* The skill returns an outcome, having lifted signals into the context.
SkillOk(lifted, delta, action) ==
  /\ At("execute")
  /\ LET ctx == [signals |-> Top.ctx.signals \cup lifted,
                 confidence |-> Clamp(Top.ctx.confidence + delta),
                 pending |-> action]
     IN  SetTop([Notify(Top, "after_skill", "consider") EXCEPT
                   !.ctx = ctx, !.pos = @ + 1, !.run = Append(@, Skill),
                   !.concluded = @ \/ action = "conclude"])

\* The skill fails; what it changed in the context before stays changed.
SkillErr(lifted) ==
  /\ At("execute")
  /\ SetTop([Notify(Top, "step_error", "failed") EXCEPT !.ctx.signals = @ \cup lifted])

EndOfChain ==
  /\ At("consider")
  /\ Top.pos > Len(Chain[Top.agent])
  /\ SetTop(Notify(Top, "after_step", "done"))

----------------------------------------------------------------------------
(* CoordinatorAgent::step                                                   *)

Matches(rule, ctx) == rule.signals \cap ctx.signals # {}

\* The first matching rule whose specialist is registered, else the fallback.
Route(c, ctx) ==
  LET usable == {i \in DOMAIN Rules[c] :
                   Matches(Rules[c][i], ctx) /\ Rules[c][i].agent \in Specialists[c]}
  IN  IF usable # {}
        THEN Rules[c][CHOOSE i \in usable : \A j \in usable : i <= j].agent
        ELSE IF Fallback[c] \in Specialists[c] THEN Fallback[c] ELSE NoAgent

RouteStep ==
  /\ At("route")
  /\ LET to == Route(Top.agent, Top.ctx)
     IN  stack' = Append(Rest, IF to = NoAgent THEN [Top EXCEPT !.pc = "done"]
                                               ELSE Frame(to, Top.ctx))
  /\ UNCHANGED <<wired, steps>>

----------------------------------------------------------------------------
(* Delegation: DelegateTool::invoke, InProcessAgentDelegate::invoke.        *)

\* The host registers a delegate tool in the registry agents share.
Wire(a) ==
  /\ a \in Delegates \ wired
  /\ wired' = wired \cup {a}
  /\ UNCHANGED <<stack, steps>>

\* context_from_args: a context in the arguments is taken over as it is, else a
\* fresh one is made with the given signals and the given confidence clamped.
ContextsFromArgs(signals) ==
  {[signals |-> signals, confidence |-> n, pending |-> action] :
     n \in Given, action \in {"none", "hint", "conclude"}}
  \cup {NewContext(signals, Clamp(n)) : n \in Given}

\* The running skill calls a delegate its agent's whitelist lets through (once, in
\* this model) and waits.
CallDelegate(a, signals) ==
  /\ At("execute")
  /\ ~ Top.called
  /\ a \in wired \cap Allowed[Top.agent]
  /\ Len(stack) < MaxDepth
  /\ \E ctx \in ContextsFromArgs(signals) :
       stack' = Append(Append(Rest, [Top EXCEPT !.called = TRUE]), Frame(a, ctx))
  /\ UNCHANGED <<wired, steps>>

\* The context in the arguments does not parse: the skill is told so at once.
CallRefused(a) ==
  /\ At("execute")
  /\ ~ Top.called
  /\ a \in wired \cap Allowed[Top.agent]
  /\ SetTop([Top EXCEPT !.called = TRUE])

Ended == At("done") \/ At("failed")

DelegateReturns_Merges ==   \* mutant: the child's context is written back
  /\ Ended
  /\ Len(stack) > 1
  /\ stack' = [Rest EXCEPT ![Len(Rest)].ctx = Top.ctx]
  /\ UNCHANGED <<wired, steps>>

\* mutant: a delegate's error is not handed on to the caller
DelegateReturns_ResultsOnly ==
  /\ At("done")
  /\ Len(stack) > 1
  /\ stack' = Rest
  /\ UNCHANGED <<wired, steps>>

\* The delegate's result, or its error, goes to the skill that called, which is
\* free to make anything of it.
DelegateReturns ==
  /\ Ended
  /\ Len(stack) > 1
  /\ stack' = Rest
  /\ UNCHANGED <<wired, steps>>

\* The host steps the same context again, after a failure as well.
StepAgain ==
  /\ Ended
  /\ Len(stack) = 1
  /\ steps < MaxSteps
  /\ stack' = <<Frame(Entry, Top.ctx)>>
  /\ steps' = steps + 1
  /\ UNCHANGED wired

----------------------------------------------------------------------------

Execute ==
  \E lifted \in SUBSET Signals :
    \/ \E delta \in Deltas, action \in {"none", "hint", "conclude"} : SkillOk(lifted, delta, action)
    \/ SkillErr(lifted)

StepCode == NotifyHook \/ Decline \/ SkipInapplicable \/ StartSkill \/ EndOfChain
              \/ RouteStep \/ DelegateReturns \/ Execute

Next ==
  \/ StepCode
  \/ \E a \in Agents : Wire(a) \/ CallRefused(a)
  \/ \E a \in Agents, signals \in SUBSET Signals : CallDelegate(a, signals)
  \/ StepAgain

Spec == Init /\ [][Next]_vars

\* The executor polls the step, and hooks and skills return; nothing forces a
\* skill to delegate or the host to wire a tool or to step again.
FairSpec == Spec /\ WF_vars(StepCode)

----------------------------------------------------------------------------
(* Properties                                                              *)

Generic(frame) == frame.agent \in DOMAIN Chain

Increasing(at) == \A i, j \in DOMAIN at : i < j => at[i] < at[j]

\* The first n of list are what seq holds at the positions P, in order.
Lists(seq, P, list, n) ==
  \E at \in [1 .. n -> P] :
    /\ Increasing(at)
    /\ P = {at[i] : i \in 1 .. n}
    /\ \A i \in 1 .. n : list[i] = seq[at[i]]

\* skills_run and skills_skipped list, in order, what stands at some positions of
\* the first n of the chain, no position in both; a position in neither refused to
\* run, and none that ran did.
Reported(chain, n, ran, skipped, refused) ==
  \E R, S \in SUBSET (1 .. n) :
    /\ Lists(chain, R, ran, Len(ran)) /\ Lists(chain, S, skipped, Len(skipped))
    /\ R \cap S = {} /\ R \cap refused = {}
    /\ 1 .. n \subseteq R \cup S \cup refused

\* The report of a step that returns leaves out no skill that was willing to run
\* and names none twice, whatever conclusions, delegates and skills lift: skills_run
\* and skills_skipped are disjoint parts of the chain in its order, and what
\* is in neither said that it does not apply.  (Whether a skill that does not apply
\* belongs in skills_skipped is left open.)
ChainReported ==
  \A k \in DOMAIN stack :
    LET f == stack[k]
    IN  Generic(f) /\ f.pc = "done" =>
          Reported(Chain[f.agent], Len(Chain[f.agent]), f.run, f.skipped, f.refused)

\* With short_circuit_on_conclude the conclusion is the last word: the skill that
\* concluded is the last that ran, whatever later skills could have done, and
\* the caller finds its Conclude in the context.
ConclusionIsLast ==
  \A k \in DOMAIN stack :
    LET f == stack[k]
    IN  Generic(f) /\ f.concluded /\ Short[f.agent] =>
          f.ctx.pending = "conclude" /\ f.pc # "execute"

\* Every hook is told the same, whichever hooks fail: outside a notification the
\* logs are equal, and within one the hooks already told are one event ahead.
HooksAgree ==
  \A k \in DOMAIN stack :
    LET f == stack[k]
    IN  \A h \in 1 .. Hooks :
          f.log[h] = IF f.pc = "notify" /\ h < f.hook THEN Append(f.log[Hooks], f.event)
                                                      ELSE f.log[Hooks]

Where(log, kinds) == {p \in DOMAIN log : log[p].kind \in kinds}

Names(log) == [p \in DOMAIN log |-> log[p].skill]

Considerings == {"before_skill(true)", "before_skill(false)"}

\* Which event may stand where in the log of a step that is done or failed.
InPlace(log, p, place) ==
  /\ log[p].kind = "before_step" <=> p = 1
  /\ log[p].kind = "after_step" <=> p = Len(log) /\ place = "done"
  /\ log[p].kind = "step_error" <=> p = Len(log) /\ place = "failed"
  /\ log[p].kind = "before_skill(true)" <=>
       p < Len(log) /\ log[p + 1].kind \in {"after_skill", "step_error"}
  /\ log[p].kind = "after_skill" => log[p].skill = log[p - 1].skill

\* What a hook has been told of an ended step is a true account of it.  The
\* skills announced to it are the chain, in order and each once, up to the one that
\* failed if the step did; one is announced as applying just where it is then
\* said to have run, under its own name, or to have failed; those said to have run
\* are skills_run; and the step is begun first and ended last.
StepAccounted ==
  \A k \in DOMAIN stack :
    LET f == stack[k]
        log == f.log[1]
        considered == IF f.pc = "done" THEN Len(Chain[f.agent]) ELSE f.pos
    IN  Generic(f) /\ f.pc \in {"done", "failed"} =>
          /\ log # << >> /\ \A p \in DOMAIN log : InPlace(log, p, f.pc)
          /\ Lists(Names(log), Where(log, Considerings), Chain[f.agent], considered)
          /\ Lists(Names(log), Where(log, {"after_skill"}), f.run, Len(f.run))

\* A delegate works on a context of its own: neither a call nor a return, nor
\* anything the delegate does, changes the contexts of the steps that wait.
DelegatesIsolated ==
  [][\A k \in 1 .. Len(stack) - 1 :
       k \in DOMAIN stack' => stack'[k].ctx = stack[k].ctx]_vars

\* Every step of the host ends, the delegated ones included, when hooks and skills return and the
\* whitelists do not let an agent delegate to itself through others.
StepsEnd == []<>(Ended /\ Len(stack) = 1)
=============================================================================
