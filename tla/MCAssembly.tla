------------------------------ MODULE MCAssembly ------------------------------
(* A manifest whose delegate has the name of one of its tools,               *)
(* and one with two delegates of one name and a skill used twice.            *)
EXTENDS Assembly

\* The first shard holds the second name.
MCShard == <<2, 1, 2>>

MCMaxVersions == <<2, 1, 1>>

\* Names of one shard and of both, and none.
MCWhitelists == {{}, {1, 3}, {2, 3}}

Delegate(n, key, kind) == [name |-> n, key |-> key, kind |-> kind]

MCManifests ==
  { [tools |-> <<1, 2>>,
     delegates |-> <<Delegate(2, "child", "stub")>>,
     chain |-> <<"recon">>, whitelist |-> {2}],
    [tools |-> <<1>>,
     delegates |-> <<Delegate(2, "child", "stub"), Delegate(2, "peer", "in_process")>>,
     chain |-> <<"recon", "recon">>, whitelist |-> {1, 2}] }
=============================================================================
