--------------------------- MODULE StructuredCalls ---------------------------
(***************************************************************************)
(* StructuredToolCallNormalizer (src/src/normalizer.rs): tool calls in the  *)
(* JSON of the Responses and Chat Completions interfaces.                   *)
(*                                                                          *)
(* A JSON value here is a string, an array, an object whose fields are a    *)
(* function from their keys, or any other value.  A call is sent as its     *)
(* payload, the fields with its name and its arguments.                     *)
(***************************************************************************)
EXTENDS Integers, Sequences, FiniteSets, SequencesExt

CONSTANTS
  Names,         \* the strings that pass for a tool name
  JsonTexts,     \* the strings that are JSON, and what each reads as
  Said,          \* the payloads providers send, and what each says
  Answers,       \* [reader, value, sent]: the standard an answer is read by, its
                 \* JSON, and the payloads in it, item by item
  NormalizeMessage(_)   \* normalize_openai_chat_completions of a choice's message

VARIABLES
  answer,        \* the answer given
  invocations,   \* those read so far
  reading        \* the standard being read, "done", or "failed" when an error was returned

structuredVars == <<answer, invocations, reading>>

JsonString(chars) == [type |-> "string", text |-> chars]
List(items) == [type |-> "array", items |-> items]
Record(fields) == [type |-> "object", fields |-> fields]
Null == [type |-> "null"]

BlankTexts == {"", " "}

Failed == [type |-> "failed"]
Calls(calls) == [type |-> "calls", calls |-> calls]
Invocation(name, args) == [type |-> "invocation", name |-> name, args |-> args]

One(invocation) == IF invocation = Failed THEN Failed ELSE Calls(<<invocation>>)

\* `collect` into a Result of a Vec, and flatten_invocations
Collect(results) ==
  IF \E k \in DOMAIN results : results[k] = Failed THEN Failed
  ELSE Calls(FlattenSeq([k \in DOMAIN results |-> results[k].calls]))

IsObject(value) == value.type = "object"
IsArray(value) == value.type = "array"
Has(value, field) == IsObject(value) /\ field \in DOMAIN value.fields

----------------------------------------------------------------------------
(* What both standards share                                                *)

ParseStandardArguments_Lenient(value) ==   \* mutant: arguments that are not JSON become none
  IF value.type # "string" THEN value
  ELSE IF value.text \in DOMAIN JsonTexts THEN JsonTexts[value.text] ELSE Record(<<>>)

ParseStandardArguments(value) ==
  IF value.type = "string"
    THEN IF value.text \in BlankTexts THEN Record(<<>>)
         ELSE IF value.text \in DOMAIN JsonTexts THEN JsonTexts[value.text]
         ELSE Failed
  ELSE IF value = Null THEN Record(<<>>)
  ELSE value

\* The name is a string that ToolInvocation::new accepts; arguments may be left out.
ParseCall(fields) ==
  LET args == IF "arguments" \in DOMAIN fields THEN ParseStandardArguments(fields.arguments)
                                               ELSE Record(<<>>)
  IN  IF /\ "name" \in DOMAIN fields /\ fields.name.type = "string"
         /\ fields.name.text \in Names /\ args # Failed
        THEN Invocation(fields.name.text, args) ELSE Failed

----------------------------------------------------------------------------
(* Responses: anything but a function call is passed over                   *)

IsResponsesFunctionCall(value) ==
  Has(value, "type") /\ value.fields.type = JsonString("function_call")

NormalizeResponsesOutputItem(item) ==
  IF IsResponsesFunctionCall(item) THEN One(ParseCall(item.fields)) ELSE Calls(<<>>)

NormalizeResponsesOutput(value) ==
  IF IsArray(value)
    THEN Collect([k \in DOMAIN value.items |-> NormalizeResponsesOutputItem(value.items[k])])
    ELSE NormalizeResponsesOutputItem(value)

NormalizeOpenaiResponses(value) ==
  IF Has(value, "output") THEN NormalizeResponsesOutput(value.fields.output)
                          ELSE NormalizeResponsesOutput(value)

----------------------------------------------------------------------------
(* Chat Completions: in an array of tool calls every item must be one       *)

IsChatToolCall(value) == Has(value, "function")

ParseChatToolCall(value) ==
  IF IsObject(value.fields.function) THEN ParseCall(value.fields.function.fields) ELSE Failed

NormalizeChatToolCall(item) ==
  IF IsChatToolCall(item) THEN One(ParseChatToolCall(item)) ELSE Failed

NormalizeChatToolCalls(value) ==
  IF IsArray(value)
    THEN Collect([k \in DOMAIN value.items |-> NormalizeChatToolCall(value.items[k])])
  ELSE IF IsChatToolCall(value) THEN NormalizeChatToolCall(value)
  ELSE Calls(<<>>)

\* A choice without a message is passed over.
NormalizeChatChoice(choice) ==
  IF Has(choice, "message") THEN NormalizeMessage(choice.fields.message) ELSE Calls(<<>>)

NormalizeChatChoices(choices) ==
  IF IsArray(choices)
    THEN Collect([k \in DOMAIN choices.items |-> NormalizeChatChoice(choices.items[k])])
    ELSE Failed

NormalizeOpenaiChatCompletions(value) ==
  IF Has(value, "choices") THEN NormalizeChatChoices(value.fields.choices)
  ELSE IF Has(value, "tool_calls") THEN NormalizeChatToolCalls(value.fields.tool_calls)
  ELSE NormalizeChatToolCalls(value)

----------------------------------------------------------------------------
(* Either standard, or one after the other                                  *)

StructuredInit ==
  /\ answer \in Answers
  /\ invocations = <<>>
  /\ reading = IF answer.reader = "chat" THEN "chat" ELSE "responses"

Take(result, then) ==
  /\ IF result = Failed
       THEN reading' = "failed" /\ UNCHANGED invocations
       ELSE reading' = then /\ invocations' = invocations \o result.calls
  /\ UNCHANGED answer

ReadResponses ==
  /\ reading = "responses"
  /\ Take(NormalizeOpenaiResponses(answer.value),
          IF answer.reader = "structured" THEN "chat" ELSE "done")

ReadChat ==
  /\ reading = "chat"
  /\ Take(NormalizeOpenaiChatCompletions(answer.value), "done")

StructuredNext == ReadResponses \/ ReadChat

StructuredSpec == StructuredInit /\ [][StructuredNext]_structuredVars

----------------------------------------------------------------------------
(* What providers send                                                      *)

\* What is said when arguments are sent as JSON, as its text, or not at all.
ArgumentsSay(payload, args) ==
  IF "arguments" \notin DOMAIN payload \/ payload.arguments = Null THEN args = Record(<<>>)
  ELSE IF payload.arguments.type # "string" THEN args = payload.arguments
  ELSE \/ payload.arguments.text \in BlankTexts /\ args = Record(<<>>)
       \/ payload.arguments.text \in DOMAIN JsonTexts /\ args = JsonTexts[payload.arguments.text]

\* A payload without a name, or whose arguments are not JSON, says nothing.
Garbled(payload) ==
  \/ "name" \notin DOMAIN payload \/ payload.name.type # "string" \/ payload.name.text \notin Names
  \/ /\ "arguments" \in DOMAIN payload /\ payload.arguments.type = "string"
     /\ payload.arguments.text \notin BlankTexts \cup DOMAIN JsonTexts

\* An item of the Responses interface: a call, or anything else.
ResponsesItem(payload) ==
  Record([field \in DOMAIN payload \cup {"type"} |->
           IF field = "type" THEN JsonString("function_call") ELSE payload[field]])

ItemSends(item, payloads) ==
  \/ payloads = <<>> /\ ~ IsResponsesFunctionCall(item)
  \/ Len(payloads) = 1 /\ item = ResponsesItem(payloads[1])

OutputSends(output, sent) ==
  \/ /\ IsArray(output) /\ DOMAIN output.items = DOMAIN sent
     /\ \A k \in DOMAIN sent : ItemSends(output.items[k], sent[k])
  \/ ~ IsArray(output) /\ Len(sent) = 1 /\ ItemSends(output, sent[1])

ResponsesSend(value, sent) ==
  \/ Has(value, "output") /\ OutputSends(value.fields.output, sent)
  \/ ~ Has(value, "output") /\ OutputSends(value, sent)

\* An item of the Chat Completions interface.  There anything that is not a call stands
\* for a garbled one.
ChatItemSends(item, payload) ==
  \/ Has(item, "function") /\ item.fields.function = Record(payload)
  \/ Garbled(payload) /\ ~ (Has(item, "function") /\ IsObject(item.fields.function))

ToolCallsSend(value, payloads) ==
  \/ /\ IsArray(value) /\ DOMAIN value.items = DOMAIN payloads
     /\ \A k \in DOMAIN payloads : ChatItemSends(value.items[k], payloads[k])
  \/ Len(payloads) = 1 /\ Has(value, "function") /\ ChatItemSends(value, payloads[1])
  \/ payloads = <<>> /\ ~ IsArray(value) /\ ~ Has(value, "function")

\* A message, or its tool calls alone.
MessageSends(message, payloads) ==
  /\ ~ Has(message, "choices")
  /\ \/ Has(message, "tool_calls") /\ ToolCallsSend(message.fields.tool_calls, payloads)
     \/ ~ Has(message, "tool_calls") /\ ToolCallsSend(message, payloads)

\* A choice that may lack a message.
ChoiceSends(choice, payloads) ==
  \/ Has(choice, "message") /\ MessageSends(choice.fields.message, payloads)
  \/ ~ Has(choice, "message") /\ payloads = <<>>

ChatSend(value, sent) ==
  \/ /\ Has(value, "choices") /\ IsArray(value.fields.choices)
     /\ DOMAIN value.fields.choices.items = DOMAIN sent
     /\ \A k \in DOMAIN sent : ChoiceSends(value.fields.choices.items[k], sent[k])
  \/ /\ Has(value, "choices") /\ ~ IsArray(value.fields.choices)
     /\ Len(sent) = 1 /\ Len(sent[1]) = 1 /\ Garbled(sent[1][1])
  \/ Len(sent) = 1 /\ MessageSends(value, sent[1])

\* An array of output items by itself: the Responses pass reads it, and the Chat
\* Completions pass takes its items for tool calls.
BareResponses(value) ==
  /\ IsArray(value) /\ DOMAIN value.items # {}
  /\ \A k \in DOMAIN value.items : ~ Has(value.items[k], "function")

AnswerSends(reader, value, sent) ==
  CASE reader = "responses" -> ResponsesSend(value, sent)
    [] reader = "chat" -> ChatSend(value, sent)
    [] reader = "structured" ->
         IF BareResponses(value) THEN ResponsesSend(value, sent)
         ELSE \E n \in 0 .. Len(sent) :
                ResponsesSend(value, SubSeq(sent, 1, n)) /\ ChatSend(value, SubSeq(sent, n + 1, Len(sent)))

CallPayloads == DOMAIN Said

ASSUME JsonTextsAssumption ==
  /\ DOMAIN JsonTexts \cap BlankTexts = {}
  /\ \A text \in DOMAIN JsonTexts : JsonTexts[text] # Failed

ASSUME SaidAssumption ==
  \A payload \in CallPayloads :
    /\ DOMAIN payload \subseteq {"name", "arguments"}
    /\ "arguments" \in DOMAIN payload => payload.arguments # Failed
    /\ IF Garbled(payload) THEN Said[payload] = Failed
       ELSE /\ Said[payload] = Invocation(payload.name.text, Said[payload].args)
            /\ ArgumentsSay(payload, Said[payload].args)

ASSUME AnswersAssumption ==
  \A a \in Answers :
    /\ a.reader \in {"responses", "chat", "structured"}
    /\ a.sent \in Seq(Seq(CallPayloads))
    /\ AnswerSends(a.reader, a.value, a.sent)

\* The function calls itself.
ASSUME MessagesAssumption ==
  \A a \in Answers :
    Has(a.value, "choices") /\ IsArray(a.value.fields.choices) =>
      \A k \in DOMAIN a.value.fields.choices.items :
        Has(a.value.fields.choices.items[k], "message") =>
          NormalizeMessage(a.value.fields.choices.items[k].fields.message)
            = NormalizeOpenaiChatCompletions(a.value.fields.choices.items[k].fields.message)

----------------------------------------------------------------------------
(* Properties                                                              *)

\* What is written in an answer.
Written(sent) == [k \in DOMAIN FlattenSeq(sent) |-> Said[FlattenSeq(sent)[k]]]

Refused == answer.reader = "structured" /\ BareResponses(answer.value)

\* The same calls come out of every form the providers send them in, whatever other
\* items are among them, and in the order sent; one that cannot be read fails the whole
\* answer.  The exception: `normalize`, which tries both standards, always fails on an
\* array of Responses items by itself.  Arguments sent as the text of an array are read
\* as that array, although ToolInvocation documents an object.
ProviderFormsAgree ==
  /\ reading = "done" =>
       ~ Refused /\ invocations = Written(answer.sent) /\ Failed \notin Range(invocations)
  /\ reading = "failed" => Refused \/ Failed \in Range(Written(answer.sent))

\* `normalize` parses all supported structured standards, and an array of output items is
\* one of their forms: an answer fails only when one of its calls cannot be read.
EveryFormRead == reading = "failed" => Failed \in Range(Written(answer.sent))
=============================================================================
