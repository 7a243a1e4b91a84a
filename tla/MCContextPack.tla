---------------------------- MODULE MCContextPack ----------------------------
(* Items and configs for TLC: exact, too low and absurd estimates, ties in  *)
(* rank, budgets that one more separator or item exceeds, a reserve larger  *)
(* than the budget, a budget of the whole usize range, and limits of none,  *)
(* one and all items.                                                       *)
EXTENDS ContextPack

MCMaxUsize == 9

Shape(rank, estimated, text) == [rank |-> rank, estimated |-> estimated, text |-> text]

MCShapes ==
  {Shape(r, s[1], s[2]) : r \in 1 .. 3, s \in {<<1, 1>>, <<1, 3>>, <<2, 1>>, <<MCMaxUsize, 1>>}}

MCConfigs ==
  [maxChars : {5, MCMaxUsize}, maxItems : {1, 3}, reserve : {0, 7}, separator : {0, 1}]
    \cup [maxChars : {5}, maxItems : {0}, reserve : {0}, separator : {1}]
=============================================================================
