----------------------------- MODULE MCNormalizers -----------------------------
(* The answers: calls written out in the LFM syntax, and malformed ones; up   *)
(* to two calls in each of the providers' JSON forms, with other items around *)
(* them.                                                                      *)
EXTENDS LfmNormalizer, StructuredCalls

MCLiterals == ("1" :> "1") @@ ("True" :> "true") @@ ("None" :> "null") @@ ("null" :> "null")

----------------------------------------------------------------------------
(* Writing values and calls.  What closes a call, an object or a block is    *)
(* written as a token of its own kind, so that it can be told from one in a  *)
(* string.  What closes a list is not: see the README.                       *)

Closer == ("!)" :> ")") @@ ("!]" :> "]") @@ ("!}" :> "}")

AsRead(text) ==
  [k \in DOMAIN text |-> IF text[k] \in DOMAIN Closer THEN Closer[text[k]] ELSE text[k]]

Styles == {[quote |-> quote, gap |-> gap] : quote \in Quotes, gap \in {<<>>, <<Space>>}}

Tight == {style \in Styles : style.gap = <<>>}

RECURSIVE Joined(_, _)
Joined(texts, between) ==
  IF texts = <<>> THEN <<>>
  ELSE IF Len(texts) = 1 THEN Head(texts)
  ELSE Head(texts) \o between \o Joined(Tail(texts), between)

Commas(texts, style) == style.gap \o Joined(texts, <<",">> \o style.gap) \o style.gap

Quoted(chars, style) ==
  LET char(c) == IF c = style.quote THEN <<Escape, c>> ELSE <<c>>
  IN  <<style.quote>> \o FlattenSeq(Each(chars, char)) \o <<style.quote>>

RECURSIVE Write(_, _)
Write(value, style) ==
  LET write(v) == Write(v, style)
      field(f) == Quoted(f.key, style) \o <<":">> \o style.gap \o Write(f.value, style)
  IN  CASE value.type = "string" -> Quoted(value.text, style)
        [] value.type = "literal" -> <<CHOOSE w \in DOMAIN MCLiterals : MCLiterals[w] = value.literal>>
        [] value.type = "array" -> <<"[">> \o Commas(Each(value.items, write), style) \o <<"]">>
        [] value.type = "object" -> <<"{">> \o Commas(Each(SetToSeq(value.fields), field), style) \o <<"!}">>

WriteCall(call, style) ==
  LET kwarg(f) == f.key \o style.gap \o <<"=">> \o style.gap \o Write(f.value, style)
  IN  call.name \o <<"(">> \o Commas(Each(SetToSeq(call.args.fields), kwarg), style) \o <<"!)">>

WriteBlock(block, style) ==
  LET write(call) == WriteCall(call, style)
  IN  <<"x", LfmStart, "[">> \o Commas(Each(block, write), style) \o <<"!]", LfmEnd>>

WriteBare(block, style) == <<LfmStart>> \o WriteCall(block[1], style) \o <<LfmEnd>>

----------------------------------------------------------------------------
(* What models write                                                        *)

Chars == {"x"} \cup Marks

Strings == {StringValue(text) : text \in UNION {[1 .. n -> Chars] : n \in 0 .. 2}}

LongStrings == {StringValue(text) : text \in [1 .. 3 -> {"x", ",", ")", "]"} \cup Quotes]}

Short == {StringValue(<<"x">>), StringValue(<<")">>), LiteralValue("1"), LiteralValue("null")}

Nested ==
  {ArrayValue(items) : items \in UNION {[1 .. n -> Short] : n \in 0 .. 2}}
    \cup {ObjectValue({Field(<<"x">>, v)}) : v \in Short \cup {ArrayValue(<<LiteralValue("1")>>)}}
    \cup {ObjectValue({Field(<<",">>, v), Field(<<"x", ":">>, ArrayValue(<<v>>))}) : v \in Short}
    \cup {ArrayValue(<<ArrayValue(<<v>>), ObjectValue({})>>) : v \in Short}

CallOf(fields) == Call(<<"f">>, ObjectValue(fields))

RECURSIVE StringsIn(_)
StringsIn(value) ==
  CASE value.type = "string" -> {value.text}
    [] value.type = "literal" -> {}
    [] value.type = "array" -> UNION {StringsIn(v) : v \in Range(value.items)}
    [] value.type = "object" -> UNION {{f.key} \cup StringsIn(f.value) : f \in value.fields}

Single == {CallOf({Field(<<"a">>, v)}) : v \in Strings \cup Nested}

Long == {CallOf({Field(<<"a">>, v)}) : v \in LongStrings}

Several ==
  {CallOf({})} \cup {CallOf({Field(<<"a">>, v)}) : v \in Short}
    \cup {CallOf({Field(<<"a">>, v), Field(<<"b">>, w)}) :
            v \in Short, w \in {ArrayValue(<<LiteralValue("1")>>), StringValue(<<",">>)}}

TwoLists == {CallOf({Field(<<"a">>, ArrayValue(<<v>>)), Field(<<"b">>, ArrayValue(<<>>))}) : v \in Short}

Another == Call(<<"g">>, ObjectValue({Field(<<"b">>, StringValue(<<"x">>))}))

Writings ==
  {<<<<call>>>> : call \in Single} \cup {<< <<call, Another>> >> : call \in Several}
    \cup {<< <<call>>, <<Another, call>> >> : call \in Several} \cup {<< <<call>> >> : call \in TwoLists}

TextOf(text, written, good) ==
  [text |-> AsRead(text), written |-> written,
   strings |-> UNION {StringsIn(call.args) : call \in Range(written)},
   closers |-> {k \in DOMAIN text : text[k] \in DOMAIN Closer}, good |-> good]

\* What no call may look like, behind one that is in order.
Malformed ==
  { <<"g">>, <<"g", "(">>, <<"(", ")">>, <<"g", "/", "(", ")">>, <<"g", "(", ")", "x">>,
    <<"g", "(", "a", ")">>, <<"g", "(", "=", "1", ")">>, <<"g", "(", "a", "/", "=", "1", ")">>,
    <<"g", "(", "a", "=", "1", ",", "a", "=", "1", ")">>, <<"g", "(", "a", "=", "inf", ")">>,
    <<"g", "(", "a", "=", "[", "x", ")">>, <<"g", "(", "a", "=", "{", "x", ")">>,
    <<"g", "(", "a", "=", "{", "x", "}", ")">>, <<"g", "(", "a", "=", "{", "1", ":", "x", "}", ")">>,
    <<"g", "(", "a", "=", "{", "x", ":", "1", ",", "x", ":", "1", "}", ")">>,
    <<"g", "(", "a", "=", "[", "'", "x", "]", ")">> }

MCTexts ==
  {LET write(block) == WriteBlock(block, style)
   IN  TextOf(FlattenSeq(Each(message, write)), FlattenSeq(message), TRUE) :
     message \in Writings, style \in Styles}
  \cup {TextOf(WriteBare(<<call>>, style), <<call>>, TRUE) : call \in Single, style \in Styles}
  \cup {TextOf(WriteBlock(<<call>>, style), <<call>>, TRUE) : call \in Long, style \in Tight}
  \cup {TextOf(WriteBare(<<call>>, style), <<call>>, TRUE) : call \in Long, style \in Tight}
  \cup {TextOf(WriteBlock(<<Another>>, style) \o <<LfmStart, "[">> \o bad \o <<"]", LfmEnd>>,
                   <<Another>>, FALSE) : bad \in Malformed, style \in Styles}

----------------------------------------------------------------------------
(* What providers' payloads say                                             *)

Empty == Record(<<>>)
SomeArgs == Record([a |-> JsonString("x")])

MCJsonTexts == ("{}" :> Empty) @@ ("{a}" :> SomeArgs) @@ ("[]" :> List(<<>>))

Named(name) == [name |-> JsonString(name)]
With(name, args) == [name |-> JsonString(name), arguments |-> args]

Read ==
  (Named("f") :> Invocation("f", Empty))
    @@ (With("f", Null) :> Invocation("f", Empty))
    @@ (With("g", JsonString(" ")) :> Invocation("g", Empty))
    @@ (With("g", JsonString("{}")) :> Invocation("g", Empty))
    @@ (With("f", JsonString("{a}")) :> Invocation("f", SomeArgs))
    @@ (With("f", JsonString("[]")) :> Invocation("f", List(<<>>)))
    @@ (With("g", SomeArgs) :> Invocation("g", SomeArgs))

Unread == {[arguments |-> SomeArgs], [name |-> Null], Named(" "), With("f", JsonString("{"))}

MCSaid == Read @@ [payload \in Unread |-> Failed]

MCNormalizeMessage(message) ==
  LET result == NormalizeOpenaiChatCompletions(message) IN result

----------------------------------------------------------------------------

Remark == Record([type |-> JsonString("message")])

ChatItem(payload) == Record([type |-> JsonString("function"), function |-> Record(payload)])
Message(items) == Record([message |-> Record([tool_calls |-> items])])

Apart(sent) == [k \in DOMAIN sent |-> <<sent[k]>>]

Form(value, sent) == [value |-> value, sent |-> sent]

\* The forms in which either interface sends these payloads.
BareForms(sent) ==
  {Form(List(Each(sent, ResponsesItem)), Apart(sent)),
   Form(List(<<Remark, Null>> \o Each(sent, ResponsesItem)), <<<<>>, <<>>>> \o Apart(sent))}

ResponsesForms(sent) ==
  {Form(Record([output |-> form.value]), form.sent) : form \in BareForms(sent)}
    \cup IF Len(sent) = 1 THEN {Form(ResponsesItem(sent[1]), Apart(sent)),
                                Form(Record([output |-> ResponsesItem(sent[1])]), Apart(sent))}
                          ELSE {}

Lists(sent) ==
  {List(Each(sent, ChatItem))} \cup IF Len(sent) = 1 THEN {ChatItem(sent[1])} ELSE {}

ChatForms(sent) ==
  {Form(list, <<sent>>) : list \in Lists(sent)}
    \cup {Form(Record([tool_calls |-> list]), <<sent>>) : list \in Lists(sent)}
    \cup {Form(Record([choices |-> List(<<Remark, Message(list)>>)]), <<<<>>, sent>>) : list \in Lists(sent)}
    \cup {Form(Record([choices |-> List([k \in DOMAIN sent |-> Message(List(<<ChatItem(sent[k])>>))])]),
               Apart(sent))}

\* Both in one value, and what is not of either interface.
BothForms(first, second) ==
  {Form(Record([output |-> List(Each(first, ResponsesItem)), tool_calls |-> List(Each(second, ChatItem))]),
        Apart(first) \o <<second>>)}

BrokenForms ==
  {Form(value, <<<<Named(" ")>>>>) :
     value \in {Record([choices |-> Null]), Record([function |-> Null]), List(<<Remark>>)}}

Sent == {<<p>> : p \in CallPayloads} \cup {<<p, q>> : p \in CallPayloads, q \in DOMAIN Read}

For(readers, forms) ==
  {[reader |-> reader, value |-> form.value, sent |-> form.sent] : reader \in readers, form \in forms}

Responses == UNION {ResponsesForms(sent) : sent \in Sent}
Chats == UNION {ChatForms(sent) : sent \in Sent}

\* What the other standard finds in a value.
Nothing(n) == [k \in 1 .. n |-> <<>>]
Items(value) == IF IsArray(value) THEN Len(value.items) ELSE 1

MCAnswers ==
  For({"responses", "structured"}, UNION {BareForms(sent) : sent \in Sent})
    \cup For({"responses"}, Responses)
    \cup For({"chat"}, Chats \cup BrokenForms)
    \cup For({"structured"}, {Form(form.value, form.sent \o Nothing(1)) : form \in Responses})
    \cup For({"structured"}, {Form(form.value, Nothing(Items(form.value)) \o form.sent) : form \in Chats})
    \cup For({"structured"}, UNION {BothForms(<<p>>, <<q>>) : p, q \in CallPayloads})
=============================================================================
