# rig-compose in TLA+

TLA+ models of the agent composition kernel `rig-compose`, TLC runs that check
them on small instances, and TLAPS proofs for every value of the constants.
Paths below are relative to the repository's parent (`src/src/budget.rs` is the
crate's `src/budget.rs`).

## The system

`rig-compose` is a library. A host builds registries, agents and hooks and calls
into them from any number of async tasks. Nothing is persisted and there is no
network protocol in the crate; what is hard is *shared mutable state under
concurrent tasks*, *callbacks into host code that may decide anything or fail*,
*futures dropped at an await*, and *accounting that must balance on every path*.

| Component | State | Operations | Interacts with | Hard behaviour | What makes it correct |
|---|---|---|---|---|---|
| `BudgetGuard`, `AtomicBudget` (`budget.rs`) | one `AtomicU64` | `try_reserve`, `release`, `refill` | called by budget hooks and hosts | lost updates between load and CAS, wrap below zero, refill under outstanding reservations | units are conserved; a denial is justified at one instant; loops spin only under contention |
| `TokenBudget`, `AtomicTokenBudget`, `TokenReservation` (`budget.rs`) | two atomics, a handle per call with a refund closure | `try_reserve_tokens`, `record_usage`, drop | model-call loops | reconciliation in several steps, drop versus record, overage, budget dropped first | never over-committed; each handle recorded or refunded once; books balance |
| Tool dispatch (`normalizer.rs` `dispatch_inner`) | locals of one dispatch | before-hooks, tool body, callbacks | hooks, `ToolRegistry`, trace | partial failure in a hook chain, skip and terminate in the middle, cancellation | callbacks pair up; the outcome traced is the one the host got; reservations released |
| `DispatchBudgetHook` (`budget.rs`) | a counter under a mutex | before, after, on error | the guard | counter and guard change at different instants; the hook does not know whose reservation it releases | what the guard granted is given back once; held while the body runs |
| `StuckLoopHook` (`reliability.rs`) | a count per fingerprint | before | dispatch | shared by concurrent dispatches | no fingerprint's body runs more than the limit |
| `DispatchTrace` (`trace.rs`) | an event list | push, events | dispatch | completeness on every path | one outcome per invocation, in order |
| `GenericAgent` (`agent.rs`) | skill chain, tool registry, lifecycle hooks | `step` | skills, context, hooks | an error in the middle of a step, hook errors swallowed, short circuit | the report and what hooks are told are a true account of the chain |
| `CoordinatorAgent` (`coordinator.rs`) | rules, specialists, fallback | `route`, `step` | agents | missing specialist of a matching rule | first applicable rule with a specialist, else fallback |
| Delegation (`delegate.rs`) | `DelegateRegistry` | `register`, `DelegateTool::invoke` | tools, agents | replacement, arguments to context, recursion | delegate called is the one registered |
| Registries (`registry.rs`) | tool and skill maps | `register`, `scoped`, `invoke`, `resolve_chain` | agents, dispatch | overwriting, whitelist scopes, snapshot versus live | a scope never widens |
| Manifests (`manifest.rs`) | none | `materialize` | registries | failure in the middle, name collisions | all or nothing registered as documented |
| History repair, retry classes (`reliability.rs`) | none | `repair_history`, classifier | hosts | out-of-order and duplicate completions | one entry per call; idempotent |
| Context packing (`context.rs`) | none | `ContextPack::pack` | hosts | budgets and omissions | within budget; every item kept or accounted for |
| Result envelopes (`tool.rs`) | none | `ToolResultEnvelope::bound` | dispatch wrappers | nested limits | bounded; every omission recorded |
| LFM normalizer (`normalizer.rs`) | the text still to be read, the calls so far | `LfmNormalizer::normalize` | models' answers, dispatch | quotes, escapes and brackets nesting in the syntax, text that stops anywhere | what is written is read back, in order; damaged text does not yield a call nobody wrote |
| Structured normalizer (`normalizer.rs`) | the calls so far | `StructuredToolCallNormalizer::normalize*` | providers' JSON, dispatch | two interfaces with several forms each, two passes over one value with different rules for what they refuse | what is sent is read in order, whatever the form |

Left out for good: the `Tool`, `Skill` and `Workflow` traits (interfaces the host
implements, modelled where they are called), `instructions.rs` (plain data) and
`lib.rs` (re-exports).

## Modules

| Module | Models |
|---|---|
| `BudgetGuard` | the contract of the `BudgetGuard` trait: calls that take effect at one instant |
| `AtomicBudget` | the CAS loops of `AtomicBudget`; `Guard == INSTANCE BudgetGuard` hides the loops |
| `AtomicBudget_proofs` | its theorems |
| `TokenBudget` | the contract of `TokenBudget` and `TokenReservation` |
| `AtomicTokenBudget` | the atomics, the handles, `Drop`; `Contract == INSTANCE TokenBudget` |
| `AtomicTokenBudget_proofs` | its theorems |
| `Dispatch` | concurrent `dispatch_inner` calls over `DispatchBudgetHook`, `StuckLoopHook`, host hooks, the guard and the traces |
| `Dispatch_proofs` | its theorems |
| `Agent` | one investigation through `GenericAgent::step`, its lifecycle hooks, `CoordinatorAgent::step` and delegates behind tools |
| `Agent_proofs` | its theorems |
| `ToolRegistry` | the operations of the sharded map, its scoped views and its catalogs, with their property |
| `Assembly` | `EXTENDS ToolRegistry`: clients that take catalogs or assemble an agent (manifest materialisation, `GenericAgentBuilder::build`) while the host fills the tool, skill and executor registries |
| `Assembly_proofs` | theorems about both |
| `RepairHistory` | the loop of `repair_history`, applied twice |
| `ContextPack` | the sort and the loop of `ContextPack::pack`, applied twice |
| `ContextPack_proofs` | its theorems |
| `ToolResultEnvelope` | `bound`, over JSON trees and textual pointers, and `bound` of what was bounded |
| `LfmSyntax` | the functions under `parse_lfm_block`, as operators on token sequences |
| `LfmNormalizer` | `EXTENDS LfmSyntax`: the block loop over one text, whole or damaged |
| `StructuredCalls` | the Responses and Chat Completions passes over one JSON value, and the forms in which providers send calls |
| `Exchange` | `EXTENDS` the two normalizers, `RepairHistory` and `ToolResultEnvelope`: a host that does any one of them while the others rest |
| `Exchange_proofs` | theorems about `StructuredCalls`, `ToolResultEnvelope` and `RepairHistory`: what passes between a model and its tools (it extends these and not `Exchange`, which reaches the recursive operators of `LfmSyntax`) |
| `Sums_proofs` | lemmas on sums over the values of a function, which the accounts of budgets, hooks and packs rest on |
| `MC*` | line-ups and inputs for TLC |

Definitions whose name ends in `_Something` and whose comment says *mutant* are
what a plausible slip in the code would be; each property is checked to fail
under one of them.

### Correspondence

*AtomicBudget.* One action is one access to `available` with the computation up
to the next: `ReserveLoad`, `ReserveCasFail` (a failed
`compare_exchange_weak` hands back the value it saw, so it is the load again),
`ReserveCasOk`, `ReleaseRead`, `ReleaseCasOk`, `Refill`. A spurious failure of the
weak CAS hands back the value already held and is the stuttering case of the
fail actions. `cur` is the local `current`; `held` and `refills` are
history. Clients release only units they hold, as the trait's doc asks.

*AtomicTokenBudget.* The same granularity. `record_usage` is a `fetch_add`
(`RecordUsage`), then the loop of `refund` or `debit` (`AdjustRead`, `AdjustCas`),
then the drop of the disarmed handle (`ScopeEnd`). `DropReservation` runs the
refund closure, which does nothing once the budget is gone (`Upgradable`). A caller that
was denied, or whose reservation is closed, may ask again, without a bound, as long as
nothing was recorded on its handle. A
`record_usage` future dropped before its first poll is a `DropReservation`; it has
no await inside, so it cannot be cut later.

*Dispatch.* `pc` is the place in `dispatch_inner`; `pos` the hook index; `upto` how
many hooks the callback loop covers. A budget hook's before callback is
`BudgetGrant` (or `BudgetDeny`) at the guard and `BudgetCount` under the mutex;
`release_one` is `ReleaseTake` (or `ReleaseNone`) under the mutex and `ReleaseGive`
at the guard. `PolicyDecide` and `CallbackFail` are the host's hooks; `BeforeFail` is a
`before_invocation` that fails, a host's or that of a budget hook whose guard answers
with a `BudgetError`; `CallbackFail` is the `?` of the callback loops. `value` is the local
`output` or `error`, and in the end what the dispatch returns, by its origin: the tool, a
hook that skipped or failed, a termination, a callback. `Cancel` drops the future at an
await of host code. The guard's calls are single steps because
`AtomicBudget_proofs!Implementation` proves that they may be.

*Agent.* `stack` holds the step futures in progress, the innermost last: a
delegate's step is awaited inside a skill of its caller. `CallDelegate` pushes a
frame with a context made from the arguments (`ContextsFromArgs`), `CallRefused` is a
context in them that does not parse, and
`DelegateReturns` pops the frame; a coordinator's call of its specialist hands the same
context on and returns what it returns, so `RouteStep` replaces the frame. Each
lifecycle hook is one `NotifyHook`, whose result the code discards; the log keeps what
hooks were told and about which skill. `refused` remembers where skills said that they do
not apply, for `ChainReported`. A skill is
anything a host may write: it lifts signals, returns a delta and an action
(`SkillOk`), or fails with the context half changed (`SkillErr`). `Wire` is the
host registering a delegate tool in the live registry; `Allowed` are the
whitelists. `Conclude` and `Discard`, which `step` treats alike, are one value;
evidence is left out.

*ToolRegistry.* A registered tool is a version number, so a replacement is
visible. `Register`, `Scoped` and a catalog's shard visits are separate actions;
the shards are those of the concurrent map the crate takes from `dashmap`, whose
iteration locks them one after another. Names are numbers in sorting order, and the
stable sort at the end of a catalog is the rearrangement that is in that order.

*Assembly.* The specification that puts `ToolRegistry` to work. Each call on a
registry is one action of the assembling client, and the host registers tools,
skills and executors and derives views between any two. `at` keeps
what the registries held when the assembly started, for the properties only. YAML
parsing and plain configuration records are left out.

*RepairHistory.* One turn of the loop is `Visit`, with `FirstSeen`,
`LaterCompletion` and `LaterFailure` as the three arms; `chosen`, `order` and
`hasCompleted` are the locals. A payload tells entries apart.

*ContextPack.* `Sort` is the stable sort, `Omit` and the selecting step the arms
of the loop. Additions are those of `usize`, with `MaxUsize` for its maximum:
`Fits` fails where `checked_add` does.

*ToolResultEnvelope.* A value is a tree whose leaves have a serialised size; a
character is the number of bytes it serialises to, so cutting by characters and
counting by bytes differ as they do in the code. `BoundValueOf` is `bound_value` with
`bound_string`, `bound_array` and `bound_object`; `Retained` is the loop the three
`..._total_bytes` functions share. Where the code's functions call themselves on a
child, the definitions call a constant (`BoundValue`, `SerializedLen`, `Within`):
`RecursionAssumption` says of these constants only that they are the functions, the
configuration gives each its own definition, and TLC evaluates both. So the module has
no `RECURSIVE` operator and can be proved about. Keys and pointers
are character sequences and the code's string operations are applied to them:
`EscapePointerSegment`, `ChildPointer`, and the prefix tests of `IsDescendant`. The
properties read the pointers the other way, by RFC 6901 (`Spell`), and compare with the
path by which each value was built (`origin`). A page token is left out: it is the hex
of a pointer, a reason and a limit.

*LfmNormalizer.* A text is a sequence of tokens; a mark of the syntax, a space and an
escape are tokens of their own, any other run of characters is a word. How Rust
reads a word as a number are the tables `Literals` and `NonFinite`. `LfmSyntax` has one
operator per function of the
parser; the byte scanner of `split_top_level` is the fold of `Scanned`. `ReadBlock` is
a turn of the block loop and `EndOfText` its end. A `?` ends in `progress = "failed"`, the calls
read before being dropped by the
caller. The `Arrive*` actions are the model's side: the text arrives whole, cut after
any token, with its block closed after any token, or with one call, object or block not closed.

*StructuredCalls.* One operator per function of the two passes, over JSON values whose
strings are members of a small set; what serde reads of a string is the table
`JsonTexts`. `ReadResponses` and `ReadChat` are the passes, of which
`StructuredToolCallNormalizer::normalize` makes one after the other. A choice's message
goes through the Chat pass again: `NormalizeMessage` is a constant of which
`MessagesAssumption` says only that it is that function, so the module has no `RECURSIVE`
operator. What providers send is declared, not computed: a call is a *payload*, its name and
its arguments, `Said` is what each payload means, and `AnswerSends` relates a value to the
payloads in it, item by item, in each form that the doc of the normalizer lists
(`normalizer.rs:449`) and with other items among them. `BareResponses` is the form that
`normalize` refuses.

*Exchange.* The four share no state, so a behaviour is one of theirs with the others at
rest, done with an empty input. One run so checks what they promise; the proofs are about
each by itself.

## Runs

| Run | Question | Bounds |
|---|---|---|
| `atomic_budget` | units conserved, bounded per epoch, the contract implemented; does a call spin without contention? | 3 clients, costs 1 and 2, 2 units, 1 refill, counter of 0..3: two clients can be between load and CAS while the third takes or returns the last unit, and `saturating_add` really saturates; no bound on the number of calls |
| `token_budget` | balance and contract of the token budget; does a loop spin without contention? | 3 callers, each asking again when denied or done, estimates 1 and 2, actual usage 0, 2 or 4 of 3 tokens: under, at and over the estimate |
| `dispatch_private` | hook protocol and accounting with an own budget hook per dispatch; does the trace tell what the host got; what do dropped futures and failing callbacks leave behind? | 2 dispatches of 2 calls, one reservation fits at a time, policy behind one budget hook and in front of the other |
| `dispatch_shared` | one budget hook and one stuck-loop hook shared; does all end and come back when nothing is cut short? | 3 dispatches, limit 2 for 4 identical calls |
| `dispatch_shared_admission` | *violated*: does a shared budget hook bound admission? | 3 dispatches, 1 unit |
| `dispatch_callback_leak` | *violated*: released on every failure path? | 1 dispatch |
| `agent` | what does a step leave behind, what are hooks told, do steps end? | 2 coordinators, 3 generic agents, delegation 3 steps deep, 3 skills, 2 hooks, 2 steps of the host, one delegate call per skill execution; the whitelists have no cycle, so the depth bound of 9 is never met |
| `assembly` | what may a catalog miss or show; does the agent have what its manifest declares, and does every assembly end, with an agent if all was provided? | one client beside the host; 3 names in 2 shards, one registered twice, views of names of one shard and of both; 2 manifests with colliding names and a repeated skill, a skill registered twice |
| `exchange` | are calls read back as written, can damage make one up, do the providers' forms agree? | strings of up to 2 of the 15 marks and `x`, and of 3 of `x , ) ] ' "`; nesting of depth 2, 2 calls and 2 blocks, both quotes, with and without spaces; 16 malformed calls, picked by hand, one for each error of the parser; 11 payloads, 4 of them garbled, alone and in pairs, in every JSON form, for one pass or both |
| | is a bounded result within its limits, redacted, accounted for, and stable? | trees up to an object of two arrays, characters of 1 and 2 bytes, keys `a`, `a/`, `a/0` and `a~1`, so that text prefixes and escapes could be mistaken for paths; limits around these sizes, with 5 redaction policies |
| | rules 2 to 4 of the doc of `repair_history` and idempotence | every history of up to 6 entries about 2 calls: failures, retries, late failures and second completions interleave |
| `exchange_bare_array` | *violated*: does `normalize` read every form? | as `exchange` |
| `exchange_allow_list` | *violated*: does the allow-list let only containers through above an allowed pointer? | as `exchange` |
| `context_pack` | does the window fit, is every item accounted for? | up to 3 items of 12 shapes, 17 configurations, `usize` of 0..9 so that additions overflow |

`CHECK_DEADLOCK FALSE` stands where the system really stops: dispatches, normalizers, packs and repairs return, registrations are bounded.

### What the violated runs show

1. On `Terminate` every hook is told, the denying budget hook included, and
   `release_one` gives back whatever the hook has counted. With one
   `DispatchBudgetHook` under concurrent dispatches a denied dispatch releases the
   reservation of one whose tool still runs, and a third is admitted.
2. The `?` on a callback leaves the loop: budget hooks behind a failing hook keep
   their reservation. (`dispatch_private` bounds what is left: `LeakBound`.)
3. `StructuredToolCallNormalizer::normalize` runs the Chat pass over the same value as the
   Responses pass, and that pass refuses items without `function`, so an `output` array by
   itself always fails (`normalizer.rs:515`, 661; docs at 463 and 508).
4. `pointer_matches` lets every ancestor of an allowed pointer through, whatever stands
   there: a string or number where the allow-list expects a container is retained
   (`tool.rs:421`; doc at 109). A result that is one string passes any allow-list.

### Where docs and code differ otherwise

Met while modelling; the models follow the code, and no run is spent on these.

- No `InvocationOutcome` is pushed for an invocation whose callback fails
  (`normalizer.rs:356`; doc at 223). `OutcomeTraced` is therefore checked where callbacks succeed.
- `debit` saturates at zero, so an overage larger than what is in the bucket is
  partly forgotten once other reservations are returned (`budget.rs:425`; docs at
  381 and 506). `BooksBalance` is stated for usage within the estimates.
- A context carried in a delegate call's arguments is not clamped, unlike the
  confidence of one built from loose arguments (`delegate.rs:168`, 186), so
  no property bounds a context's confidence before a skill has run.
- `skills_skipped` holds the skills that did not apply as well as those declined
  (`agent.rs:190`), while its doc speaks of skills "that were applicable but the agent
  declined to run" (`agent.rs:45`). `ChainReported` holds under either reading: it asks only
  that a skill in neither list said that it does not apply.
- A matching rule whose specialist is missing is passed over, down to the fallback
  (`coordinator.rs:75`; doc at 55).
- A catalog can list a tool and miss one registered before it, so it is a snapshot
  of no instant (`registry.rs:155`). `CatalogIsFaithful` says what it is.
- `scoped` on a scoped view replaces the whitelist, and may widen it
  (`registry.rs:107`; doc at 80).
- A scalar longer than the total budget is counted as omitted and returned all the
  same (`tool.rs:505`; docs at 43 and 236). `BudgetKept` excepts it.
- The arguments of a call need not be an object: the text `[]` is read as an array
  (`normalizer.rs:708`; doc at 42).
- An LFM string that holds the end marker ends its block (`normalizer.rs:566`), and a
  backslash is taken out only before a quote (824), so nothing can be written for a string
  that ends in one or has one before a quote. `ReadsWhatIsWritten` excepts these strings.
- A block closed inside a string with an escaped quote can yield a call nobody wrote:
  `f(a='\')]')`, closed after the inner `]`, is read as `f` with a lone backslash
  (`normalizer.rs:822`: a string is whole when it starts and ends with a quote, escaped or
  not). `NothingMadeUp` is stated for texts without an escape
  or an end marker in a string.
- A value without its opening quote or bracket is read as an unquoted string, and so is
  `'x' 'y'`, between the outer quotes (`normalizer.rs:822`, 884). A list that is not closed
  may take the next argument in: `g(b=[,a=[])` is read as `b` with the string `a=[`. So
  `ArriveLost` leaves calls, objects and blocks open, not lists or strings.
- Items of equal rank are packed in the order they came in
  (`context.rs:452`). `ReplayByDistinctRanks` says when a replay is exact.

## Fairness

`AtomicBudget` and `AtomicTokenBudget` assume weak fairness of each client's or
handle's next access: a method that has begun has no await and its thread runs on.
Nothing forces a client to call, or `refill` to run. Contention may starve one
client forever, which is why progress is stated as spinning only while
`available` changes, for both budgets. `Dispatch` assumes weak fairness of each dispatch's next step:
the executor polls it, and tools and hooks return. A tool that never returns is
outside that assumption. `Agent` assumes it of the code of a step, skills
and hooks included, and of nothing the host decides: wiring, delegating, stepping
again. `StepsEnd` needs whitelists that let no agent reach itself; with others a
skill may delegate for ever, which no bound in the code prevents. `Assembly` assumes
it of each assembler's next access. The other modules have safety properties only.

## Proofs

Checked by TLAPS, from the named assumptions on the constants only. Beside the types
of the constants these say that clients, handles, dispatches, hooks and names are
finitely many, that the counter is wide enough for the capacity, that a line-up names
hooks, and a manifest and a whitelist names, that exist, that a JSON value is a
finite tree whose children stand under their keys, and that an answer has one of the
providers' forms. `PROJECT.json` lists each
theorem with the property it states.

- `AtomicBudget_proofs`: `TypeCorrect`, `EpochBounded`, `UnitsConserved`,
  `Implementation`. `TypeOK` is not inductive: `current - cost` stays in range because
  the loop compared the two before the CAS, and a release returns only what its client
  holds. `IInv` adds these (`CallInv`) and the bound on units out; one lemma per action
  shows that it is kept. `Implementation` maps each step to an operation of
  `BudgetGuard` or a stutter.
- `AtomicTokenBudget_proofs`: `TypeCorrect`, `NeverOverCommitted`, `BooksBalanced`,
  `Implementation`. `HandleInv` ties a handle's phase to its locals: an armed handle is
  open, a loop under way has an amount. A refund puts back no more than it takes off the
  commitments and a debit only takes. The balance needs more: an amount on its way is what the
  handle reserved less what it used (`Account`), and while no usage exceeds its estimate
  no debit is ever due.
- `Sums_proofs`: the sum of a function's values when one value changes, when
  values grow, and against cardinalities. Its inductions are over a set of numbers
  (`SetInduction`), since a theorem cannot take an operator as a parameter here.
- `Dispatch_proofs`, for any dispatches, line-ups, invocations and host decisions:
  - `EachObserverCalledBack` and `EveryOutcomeTraced`. `ControlInv` has
    three parts: types, what a place says of the indices (`Control`), and what the trace
    holds of each invocation (`Traced`): those behind are `Over`, the one at hand is
    `InFront` of its tool or `InMiddle` of its callbacks. The second theorem compares the
    trace with `results` and `value`, whatever fails; the one error that goes untraced is a
    failing callback's, where code and doc part (*Where docs and code differ otherwise*).
  - `GuardAlwaysBalanced`: units left, counted by hooks, and between a hook and
    the guard add up to the capacity, for any sharing of hooks (`GuardInv`).
  - `AdmissionIsBounded` presumes `PrivateBudgets`, no budget hook in the
    line-ups of two dispatches; run `dispatch_shared_admission` shows why. `AdmittedHold` says that a dispatch
    past its budget hook holds the unit, so bodies that run are covered by units out.
  - `LeaksAreBounded` presumes `OneBudgetEach`, no line-up with two budget hooks; hooks
    may be shared. By `HoldersCover` a hook counts no more units than there are
    dispatches that may still hold one; of those that have ended, these are the ones
    cut short.
  - `IdenticalCallsAreBounded`: bodies run and dispatches let past the hook on the way to
    their body are together at most the count kept for the fingerprint (`StuckInv`).
- `Exchange_proofs`, about `StructuredCalls`: `FormsAgree`, for any payloads, any number of
  items, choices and calls. `Outcome` is what reading payloads comes to: failure if one is
  garbled, else their calls. `ParseCallSays` gives it for one call, `ItemsRead` for a list
  (`collect`), `OutcomeAfter` for one list after another, and `ReadSoFar`
  for the state between the passes: the outcome of the first items is what was read, and the
  value sends the others by the Chat interface. A `BareResponses` array under `normalize` is
  `BareRefused`: the Chat pass fails on its first item. That the flattening of mapped sequences is the
  mapped flattening (`FlattenMapped`) is an induction over sequences.
- `Exchange_proofs`, about `RepairHistory`: `AnswersKept`, `OrderKept`, `AnswersStand`,
  `RepairIsIdempotent`, for histories of any length. `KeepsTheAnswer` needs
  `hasCompleted` to be exactly the calls with a completion so far, and idempotence
  needs to know of the second pass that its input has no call twice, so that every
  entry is `FirstSeen` and `order` follows the input.
- `Exchange_proofs`, about `ToolResultEnvelope`: `BudgetIsKept`, `RedactionIsKept`,
  `LossIsAccounted`, `BoundingIsIdempotent`, for trees of any depth and width, any
  characters, limits and policies. The state is one step deep; what is hard is the
  functions, and `EnvelopeInv` only says that the envelope is what they return. Three
  inductions carry the rest:
  - Pointers. `EscapeIsSpelled`: the two `replace`s of the code, in this order, spell a
    key as RFC 6901 does. `SpelledKeyInjective`, `KeyEnds`: a key is spelled without a
    slash, so a pointer can be read back key by key. Hence `SpellInjective` and
    `DescendantIsBelow`: equality and prefixes of pointers, as text, are equality and
    prefixes of paths.
  - Trees (`TreeInduction`, over the assumed `Height`). `RedactionBounds`: `bound_value` lets
    nothing through below a denied path, or off the way to and from every allowed one; `BoundLosesNothing`: each
    part is kept, redacted or below a recorded segment; `BoundTwice`: its result
    is short everywhere, so without a policy a second call finds nothing.
  - Retained parts (`RetainedFacts`). The retained selection fits at every turn, or is
    empty; each part tried is in it or was left out, and if none was it is the whole.
    `CutFacts` and `Total...` put the two passes together.
  Induction over data is done over a *set* of the trees, sequences or numbers that have the
  property, as the theorems with operator parameters cannot be used: `SeqInduction` and
  `TreeInduction` follow from `SetInduction`.
- `ContextPack_proofs`: `TypeCorrect`, `BudgetKept`, `WindowFits`, `NothingLost`,
  `NoNeedlessOmission`, `ReplaysAgree`, for any items and configuration. The total only
  grows, so an item that did not fit then does not fit beside the final selection; and it
  bounds the length of the text as rendered, because each item is counted with its separator.
  `ReplaysAgree` compares two runs of the loop: a pass is determined by its sorted items
  (`Determined`), and two sorted arrangements of items with distinct ranks are the same
  (`IncreasingIsIdentity`, about the shuffle between them).
- `Agent_proofs`: `HooksToldAlike`, `ConclusionStands`, `StoryComplete`,
  `ChainsDealtWith`, `WaitingUntouched`, for any agents, chains, rules and hooks, and for
  whitelists that let agents delegate to each other in circles, which the run excludes.
  `FrameInv` is kept by every frame: `Control` ties a step's position to its chain;
  `Concluded` speaks of `Place`, where the step will be when its hooks have been told,
  because a concluded step must not have announced another skill. What a hook has been or is
  being told (`Story`) is shown to be in place event by event, and to name the chain up to the
  position in order; what is reported so far is shown to lie at disjoint positions of that part
  of the chain. One lemma per operation is about a
  single frame; `TopReplaced` carries it to the stack.
- `Assembly_proofs`: `CatalogsFaithful`, `AgentsAsDeclared`, for any names, shards, views
  and manifests. Neither property says anything before the end, so the invariants speak of
  what has been read so far: the shards behind the iteration (`FaithfulSoFar`), the
  manifest entries behind the loop (`ToolsSoFar`, `ChainSoFar`), and that versions only
  grow (`Grown`), so that what was found lies between the start and now.

`committed` is a history variable where `held` is a sum, because it keeps what a handle
took after the handle is gone.

Only model-checked: the two properties of `LfmNormalizer`, whose parser is written with
recursive operators, which the provers cannot expand, and all liveness
(`SpinsOnlyUnderContention`, `LoopsSpinOnlyUnderContention`,
`PermitsComeBack`, `StepsEnd`, `AssembliesEnd`), since fairness needs `ENABLED`.

## Not modelled

The retry classifier (a match from error to class without state), page tokens, the
dispatch wrappers that bound results afterwards (a map of `bound`), YAML parsing,
evidence and identifiers, a redaction rule's own replacement (`tool.rs:399`), and the plain data and interfaces listed above. How words
become numbers and strings JSON is a table in the normalizers: that is Rust's and
serde's. Which specialist `CoordinatorAgent::route` picks is one pure step, modelled and
needed by `StepsEnd`, and no property repeats it. A `NaN` confidence, which `clamp` keeps, has no
counterpart among the integers of `Agent`; the wrap of `consumed` after 2^64 tokens
is in the model but beyond the runs.

Of what the host may do, the models leave out: a `BudgetGuard` that answers with a
`BudgetError`, in the contract `BudgetGuard` (`AtomicBudget` never does; `Dispatch` has
it as `BeforeFail`); an `applies` that looks at anything but signals; a skill that calls more
than one delegate in an execution, and so the unbounded recursion of delegates that reach
themselves; and a host registry that is itself a scoped view, whose `NotAuthorised`
(`manifest.rs:246`) a materialisation would return.

## Plan

1. Done: budgets, token budgets, dispatch with hooks and trace; agents,
   coordinators and delegates; registries and assembly; history repair, context
   packing, result envelopes with their pointers, and both normalizers; every safety
   property of every model but `LfmNormalizer` proved.
2. Next: the LFM syntax as recursive functions over positions, the way
   `ToolResultEnvelope` was rewritten, so that `NothingMadeUp` can be proved; `Assembly` as an implementation of an abstract registry that changes at one
   instant per call; `DispatchBudgetHook` over `BudgetGuard` as one composed
   specification, so that `AdmissionBound` follows from the CAS loops themselves.
3. Deeper compositions: an agent whose skills dispatch through budget hooks, and a
   host that retries what it repaired.
