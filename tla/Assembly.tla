------------------------------- MODULE Assembly -------------------------------
(***************************************************************************)
(* Assembling agents from a manifest: the materialisation of its tools and  *)
(* delegates (src/src/manifest.rs) and GenericAgentBuilder::build           *)
(* (src/src/agent.rs), on registries that other threads of the host go on   *)
(* filling (ToolRegistry, and the skill and delegate registries, which are  *)
(* the same sort of map).                                                   *)
(*                                                                          *)
(* An assembly reads its registries one entry at a time, so what it sees is  *)
(* no snapshot.  A manifest names its tools, delegates and skills; parsing  *)
(* it is left out.                                                          *)
(***************************************************************************)
EXTENDS ToolRegistry

CONSTANTS
  Manifests,     \* what they may be given: [tools, delegates, chain, whitelist]
  Skills,        \* the skill ids there are
  Executors,     \* the keys of delegate executors
  Whitelists,    \* the name lists of the views derived
  MaxSkills,     \* bound: how often a skill is registered under an id
  MaxExecutors   \* bound: how often an executor is registered under a key

\* Manifests, whitelists and registries speak of names, skills and keys there are.
ASSUME ManifestsAssumption ==
  Manifests \subseteq
    [tools : Seq(Names), delegates : Seq([name : Names, key : Executors, kind : STRING]),
     chain : Seq(Skills), whitelist : SUBSET Names]

ASSUME WhitelistsAssumption == Whitelists \subseteq SUBSET Names

VARIABLES
  skills,        \* the SkillRegistry: the version under each id, or Vacant
  executors,     \* the DelegateRegistry: likewise
  assembly       \* assembly[a]: the locals of client a as it assembles an agent

allVars == <<vars, skills, executors, assembly>>

\* How a tool came into an agent's own registry.
Absent == [kind |-> "absent", version |-> Vacant]

Started(manifest) ==
  [pc |-> "tools", pos |-> 1, manifest |-> manifest, tools |-> [n \in Names |-> Absent],
   chain |-> <<>>, visible |-> {}, at |-> [tools |-> inner, skills |-> skills, executors |-> executors]]

AssemblyInit ==
  /\ Init
  /\ skills = [s \in Skills |-> Vacant]
  /\ executors = [e \in Executors |-> Vacant]
  /\ assembly = [a \in Clients |-> [Started(CHOOSE m \in Manifests : TRUE) EXCEPT !.pc = "idle"]]

Local(a) == assembly[a]

SetLocal(a, local) ==
  /\ assembly' = [assembly EXCEPT ![a] = local]
  /\ UNCHANGED <<vars, skills, executors>>

----------------------------------------------------------------------------
(* The host's registrations                                                 *)

RegisterTool(n) == Register(n) /\ UNCHANGED <<skills, executors, assembly>>

RegisterSkill(s) ==
  /\ skills[s] < MaxSkills
  /\ skills' = [skills EXCEPT ![s] = @ + 1]
  /\ UNCHANGED <<vars, executors, assembly>>

RegisterExecutor(e) ==
  /\ executors[e] < MaxExecutors
  /\ executors' = [executors EXCEPT ![e] = @ + 1]
  /\ UNCHANGED <<vars, skills, assembly>>

DeriveView(names) == Scoped(names) /\ UNCHANGED <<skills, executors, assembly>>

\* A client takes a catalog when it is not assembling an agent.
TakeCatalog(c) ==
  /\ \/ Local(c).pc = "idle" /\ \E v \in 1 .. Len(views) : StartListing(c, v)
     \/ ReadShard(c)
     \/ FinishListing(c)
  /\ UNCHANGED <<skills, executors, assembly>>

----------------------------------------------------------------------------
(* materialize_local_and_delegate_tools_with_delegates                      *)

Start(a, manifest) ==
  /\ Local(a).pc = "idle" /\ listing[a].pc = "idle"
  /\ SetLocal(a, Started(manifest))

\* The entry the loop at `pc` is at, when it is not past the last.
InLoop(a, pc, list) == Local(a).pc = pc /\ Local(a).pos <= Len(list)

EndLoop(a, pc, list, then) ==
  /\ Local(a).pc = pc
  /\ Local(a).pos > Len(list)
  /\ SetLocal(a, [Local(a) EXCEPT !.pc = then, !.pos = 1])

Fail_Waits(a) == SetLocal(a, Local(a))   \* mutant: what is missing is waited for

Fail(a) == SetLocal(a, [Local(a) EXCEPT !.pc = "failed"])

Own(a, n, kind, version) ==
  SetLocal(a, [Local(a) EXCEPT !.tools[n] = [kind |-> kind, version |-> version], !.pos = @ + 1])

CopyTool_Skips(a) ==   \* mutant: a missing tool is passed over
  LET list == Local(a).manifest.tools
      n == list[Local(a).pos]
  IN  /\ InLoop(a, "tools", list)
      /\ IF Gets(1, n) THEN Own(a, n, "host", inner[n])
                       ELSE SetLocal(a, [Local(a) EXCEPT !.pos = @ + 1])

\* The host passes its own registry, which whitelists nothing (view 1).
CopyTool(a) ==
  LET list == Local(a).manifest.tools
      n == list[Local(a).pos]
  IN  /\ InLoop(a, "tools", list)
      /\ IF Gets(1, n) THEN Own(a, n, "host", inner[n]) ELSE Fail(a)

WireDelegate(a) ==
  LET list == Local(a).manifest.delegates
      d == list[Local(a).pos]
  IN  /\ InLoop(a, "delegates", list)
      /\ \/ executors[d.key] # Vacant /\ Own(a, d.name, "delegate", executors[d.key])
         \/ executors[d.key] = Vacant /\ d.kind = "in_process" /\ Fail(a)
         \/ executors[d.key] = Vacant /\ d.kind # "in_process" /\ Own(a, d.name, "stub", Vacant)

----------------------------------------------------------------------------
(* GenericAgentBuilder::build on the materialised registry                  *)

ResolveSkill(a) ==
  LET list == Local(a).manifest.chain
      s == list[Local(a).pos]
  IN  /\ InLoop(a, "chain", list)
      /\ IF skills[s] = Vacant THEN Fail(a)
         ELSE SetLocal(a, [Local(a) EXCEPT !.pos = @ + 1,
                             !.chain = Append(@, [skill |-> s, version |-> skills[s]])])

\* The whitelist is applied to whatever registry was passed.
ScopeTools(a) ==
  /\ Local(a).pc = "scope"
  /\ SetLocal(a, [Local(a) EXCEPT !.pc = "built", !.visible = Local(a).manifest.whitelist])

AssemblyStep(a) ==
  \/ CopyTool(a)
  \/ EndLoop(a, "tools", Local(a).manifest.tools, "delegates")
  \/ WireDelegate(a)
  \/ EndLoop(a, "delegates", Local(a).manifest.delegates, "chain")
  \/ ResolveSkill(a)
  \/ EndLoop(a, "chain", Local(a).manifest.chain, "scope")
  \/ ScopeTools(a)

AssemblyNext ==
  \/ \E n \in Names : RegisterTool(n)
  \/ \E s \in Skills : RegisterSkill(s)
  \/ \E e \in Executors : RegisterExecutor(e)
  \/ \E names \in Whitelists : DeriveView(names)
  \/ \E c \in Clients : TakeCatalog(c)
  \/ \E a \in Clients, manifest \in Manifests : Start(a, manifest)
  \/ \E a \in Clients : AssemblyStep(a)

AssemblySpec == AssemblyInit /\ [][AssemblyNext]_allVars

\* An assembling thread is scheduled; the host need not register anything.
AssemblyFairSpec == AssemblySpec /\ \A a \in Clients : WF_allVars(AssemblyStep(a))

----------------------------------------------------------------------------
(* Properties                                                              *)

Built(a) == Local(a).pc = "built"

\* Between the start of the assembly and now.
Between(first, version, last) == version # Vacant /\ first <= version /\ version <= last

\* The last delegate declared under the name.
DelegateFor(manifest, n) ==
  LET list == manifest.delegates
  IN  list[CHOOSE k \in DOMAIN list :
             list[k].name = n /\ \A j \in DOMAIN list : list[j].name = n => j <= k]

\* An agent's tools are what its manifest declares, as one entry per name: the
\* last delegate of the name, else the host's tool; nothing else; each entry one
\* that was registered while the agent was assembled, and no in-process delegate
\* a stub.
ToolsDeclared ==
  \A a \in Clients : Built(a) =>
    LET m == Local(a).manifest
        delegates == {m.delegates[k].name : k \in DOMAIN m.delegates}
        copied == {m.tools[k] : k \in DOMAIN m.tools} \ delegates
    IN  \A n \in Names :
          LET tool == Local(a).tools[n]
          IN  /\ n \in copied => /\ tool.kind = "host"
                                 /\ Between(Local(a).at.tools[n], tool.version, inner[n])
              /\ n \in delegates =>
                   LET d == DelegateFor(m, n)
                   IN  \/ /\ tool.kind = "delegate"
                          /\ Between(Local(a).at.executors[d.key], tool.version, executors[d.key])
                       \/ /\ tool.kind = "stub" /\ d.kind # "in_process"
                          /\ Local(a).at.executors[d.key] = Vacant
              /\ n \notin copied \cup delegates => tool = Absent

\* The chain has every declared skill in the declared order, each as it was
\* registered while the agent was assembled.
ChainDeclared ==
  \A a \in Clients : Built(a) =>
    LET declared == Local(a).manifest.chain
        chain == Local(a).chain
    IN  /\ Len(chain) = Len(declared)
        /\ \A k \in DOMAIN chain :
             /\ chain[k].skill = declared[k]
             /\ Between(Local(a).at.skills[declared[k]], chain[k].version, skills[declared[k]])

\* A built agent is what its manifest declares, however the registries changed
\* while materialisation and build read them entry by entry.
AgentAsDeclared == ToolsDeclared /\ ChainDeclared

\* Everything the manifest needs was registered when the assembly started.
Provided(m, at) ==
  /\ \A k \in DOMAIN m.tools : at.tools[m.tools[k]] # Vacant
  /\ \A k \in DOMAIN m.delegates :
       m.delegates[k].kind = "in_process" => at.executors[m.delegates[k].key] # Vacant
  /\ \A k \in DOMAIN m.chain : at.skills[m.chain[k]] # Vacant

\* An assembly that is started ends, and with an agent if all was provided.
AssembliesEnd ==
  \A a \in Clients :
    /\ Local(a).pc = "tools" ~> Local(a).pc \in {"built", "failed"}
    /\ Local(a).pc = "tools" /\ Provided(Local(a).manifest, Local(a).at) ~> Built(a)
=============================================================================
