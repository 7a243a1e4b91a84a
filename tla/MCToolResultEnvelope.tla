------------------------ MODULE MCToolResultEnvelope ------------------------
(* Results up to an object of arrays, with narrow and wide characters, and   *)
(* keys that hold the characters of a JSON pointer.  The budgets are around  *)
(* the sizes these results have.                                             *)
EXTENDS ToolResultEnvelope

MCCharacters == {"~", "/", "0", "1", "2", "a"}

ShortTexts == {<<1>>, <<1, 2>>, <<2, 1, 1>>}

LeavesAt(at) == {String(at, chars) : chars \in ShortTexts} \cup {Scalar(at, 1), Scalar(at, 7)}

PairsAt(at, key, other, values(_), others(_)) ==
  {<<Child(key, a), Child(other, b)>> : a \in values(Append(at, key)), b \in others(Append(at, other))}

Key0 == <<"0">>
Key1 == <<"1">>
Key2 == <<"2">>

Arrays(at) == {Array(at, items) : items \in {<<>>} \cup PairsAt(at, Key0, Key1, LeavesAt, LeavesAt)}

Threes == {Array(<<>>, <<Child(Key0, a), Child(Key1, String(<<Key1>>, <<1>>)), Child(Key2, c)>>) :
             a \in LeavesAt(<<Key0>>), c \in LeavesAt(<<Key2>>)}

Trees(at) == LeavesAt(at) \cup Arrays(at)

\* Those whose arrays, if they have items, have two alike.
EvenTrees(at) ==
  {tree \in Trees(at) :
     tree.type = "array" /\ tree.parts # <<>> =>
       /\ tree.parts[1].value.parts = tree.parts[2].value.parts
       /\ tree.parts[1].value.size = tree.parts[2].value.size}

\* The second key looks like the path to what is under the first.
KeyA == <<"a">>
KeyA0 == <<"a", "/", "0">>

KeyASlash == <<"a", "/">>
KeyATilde == <<"a", "~", "1">>

MCPayloads ==
  Trees(<<>>) \cup Threes
    \cup {Object(<<>>, fields) : fields \in PairsAt(<<>>, KeyA, KeyA0, EvenTrees, Trees)
                                        \cup PairsAt(<<>>, KeyASlash, KeyATilde, LeavesAt, LeavesAt)}

\* Paths the host writes pointers to.
Redactions ==
  { [deny |-> {}, allow |-> {<<>>}],
    [deny |-> {<<KeyA>>, <<Key0>>, <<KeyASlash>>}, allow |-> {<<>>}],
    [deny |-> {<<KeyA, Key0>>}, allow |-> {<<>>}],
    [deny |-> {<<KeyA0, Key0>>}, allow |-> {<<KeyA>>, <<KeyA0>>}],
    [deny |-> {}, allow |-> {<<KeyA0, Key0>>, <<KeyASlash>>}] }

MCConfigs ==
  {[maxString |-> s, maxItems |-> i, maxTotal |-> t, deny |-> r.deny, allow |-> r.allow] :
     s \in {1, 2}, i \in {1, 2}, t \in {1, 5, 12, 30}, r \in Redactions}

MCReplacement == <<1, 1, 1>>

----------------------------------------------------------------------------
(* The functions call themselves.  (Behind a LET, where TLC's coverage does *)
(* not unfold one in the other.)                                           *)

MCSerializedLen(value) == LET len == SerializedLenOf(value) IN len

MCBoundValue(c, value, pointer) == LET bounded == BoundValueOf(c, value, pointer) IN bounded

MCWithin(value) == LET within == WithinOf(value) IN within

MCHeight(value) ==
  LET heights == {Height(child) : child \in Children(value)}
  IN  IF heights = {} THEN 0 ELSE 1 + Max(heights)

\* What may stand below a result, as the tool returned it or cut or replaced.
Shortened(at) ==
  LeavesAt(at) \cup {String(at, chars) : chars \in {<<2>>, <<2, 1>>}}
    \cup {Value("string", at, TRUE, chars, 2) : chars \in {<<1>>, <<1, 1>>, MCReplacement}}

ShortenedArrays(at) ==
  Arrays(at) \cup {Array(at, items) : items \in
    {<<Child(Key0, a)>> : a \in Shortened(Append(at, Key0))} \cup PairsAt(at, Key0, Key1, Shortened, Shortened)}

MCValues ==
  UNION {Shortened(<<key>>) : key \in {Key0, Key1, Key2, KeyA, KeyA0, KeyASlash, KeyATilde}}
    \cup UNION {ShortenedArrays(<<key>>)
                 \cup Shortened(<<key, Key0>>) \cup Shortened(<<key, Key1>>) : key \in {KeyA, KeyA0}}
=============================================================================
