------------------------------ MODULE LfmSyntax ------------------------------
(***************************************************************************)
(* The syntax of the calls inside an LFM block, as the functions under      *)
(* parse_lfm_block read it (src/src/normalizer.rs).                         *)
(*                                                                          *)
(* A text is a sequence of tokens: a punctuation mark, a space, an escape   *)
(* or a word, a run of other characters that the code never looks into.     *)
(***************************************************************************)
EXTENDS Integers, Sequences, FiniteSets, SequencesExt

CONSTANTS
  Literals,      \* the words that are numbers, booleans or null, and what each reads as
  NonFinite,     \* the words that Rust reads as a float JSON has no number for
  BadWords       \* the words that no identifier may contain

Space == " "
Escape == "\\"
Quotes == {"'", "\""}
Opening == {"(", "[", "{"}
Closing == {")", "]", "}"}
LfmStart == "<|tool_call_start|>"
LfmEnd == "<|tool_call_end|>"
Marks == {LfmStart, LfmEnd, Space, Escape, ",", "=", ":"} \cup Quotes \cup Opening \cup Closing

\* JSON values; the fields of an object have no order.
StringValue(text) == [type |-> "string", text |-> text]
LiteralValue(literal) == [type |-> "literal", literal |-> literal]
ArrayValue(items) == [type |-> "array", items |-> items]
ObjectValue(fields) == [type |-> "object", fields |-> fields]
Field(key, value) == [key |-> key, value |-> value]

Error == [type |-> "error"]

Call(name, args) == [type |-> "call", name |-> name, args |-> args]

----------------------------------------------------------------------------
(* Slices                                                                   *)

Blank(text) == \A k \in DOMAIN text : text[k] = Space

Trim(text) ==
  IF Blank(text) THEN <<>>
  ELSE SubSeq(text, SelectInSeq(text, LAMBDA t : t # Space),
                    SelectLastInSeq(text, LAMBDA t : t # Space))

Enclosed_Start(text, open, close) == Len(text) >= 2 /\ Head(text) = open   \* mutant: the end is not looked at

\* strip_prefix and then strip_suffix
Enclosed(text, open, close) == Len(text) >= 2 /\ Head(text) = open /\ Last(text) = close

Inner(text) == SubSeq(text, 2, Len(text) - 1)

Before(text, k) == SubSeq(text, 1, k - 1)
After(text, k) == SubSeq(text, k + 1, Len(text))

\* split_once, and rsplit_once; 0 where there is no such token.
FirstOf(text, token) == SelectInSeq(text, LAMBDA t : t = token)
LastOf(text, token) == SelectLastInSeq(text, LAMBDA t : t = token)

----------------------------------------------------------------------------
(* split_top_level and split_once_top_level                                 *)

Outside == [depth |-> 0, quote |-> "none", escaped |-> FALSE]

Scanned_NoEscape(at, token) ==   \* mutant: an escaped quote ends the string
  CASE at.quote # "none" -> [at EXCEPT !.quote = IF token = @ THEN "none" ELSE @]
    [] at.quote = "none" /\ token \in Quotes -> [at EXCEPT !.quote = token]
    [] at.quote = "none" /\ token \in Opening -> [at EXCEPT !.depth = @ + 1]
    [] at.quote = "none" /\ token \in Closing /\ at.depth > 0 -> [at EXCEPT !.depth = @ - 1]
    [] OTHER -> at

\* Where the scan is after `token`.  A closing bracket too many is passed over.
Scanned(at, token) ==
  CASE at.escaped -> [at EXCEPT !.escaped = FALSE]
    [] ~ at.escaped /\ at.quote # "none" ->
         [at EXCEPT !.escaped = (token = Escape), !.quote = IF token = @ THEN "none" ELSE @]
    [] ~ at.escaped /\ at.quote = "none" /\ token \in Quotes -> [at EXCEPT !.quote = token]
    [] ~ at.escaped /\ at.quote = "none" /\ token \in Opening -> [at EXCEPT !.depth = @ + 1]
    [] ~ at.escaped /\ at.quote = "none" /\ token \in Closing /\ at.depth > 0 ->
         [at EXCEPT !.depth = @ - 1]
    [] OTHER -> at

\* The positions of `delim` outside every bracket and string, in order.
TopLevel(text, delim) ==
  LET step(done, token) ==
        [at |-> Scanned(done.at, token), pos |-> done.pos + 1,
         cuts |-> IF token = delim /\ done.at = Outside
                    THEN Append(done.cuts, done.pos) ELSE done.cuts]
  IN  FoldLeft(step, [at |-> Outside, pos |-> 1, cuts |-> <<>>], text).cuts

Slices(text, cuts) == [k \in 1 .. Len(cuts) - 1 |-> SubSeq(text, cuts[k] + 1, cuts[k + 1] - 1)]

SplitTopLevel(text, delim) == Slices(text, <<0>> \o TopLevel(text, delim) \o <<Len(text) + 1>>)

\* `map`, and `collect` of results into a Result of an array
Each(parts, read(_)) == [k \in DOMAIN parts |-> read(parts[k])]

Collected(values) == IF Error \in Range(values) THEN Error ELSE ArrayValue(values)

\* What the callers of split_top_level go on with.
Pieces(text, delim) ==
  SelectSeq(Each(SplitTopLevel(text, delim), Trim), LAMBDA piece : piece # <<>>)

----------------------------------------------------------------------------
(* Values                                                                   *)

\* `\'` and `\"` stand for the quote; no other escape is taken out.
Unescaped(text) ==
  LET dropped(k) == text[k] = Escape /\ k < Len(text) /\ text[k + 1] \in Quotes
  IN  FlattenSeq([k \in DOMAIN text |-> IF dropped(k) THEN <<>> ELSE <<text[k]>>])

\* A token that is neither a literal nor quoted is a string as it stands.
Unquoted(text) ==
  IF Len(text) = 1 /\ text[1] \in NonFinite THEN Error
  ELSE IF Len(text) = 1 /\ text[1] \in DOMAIN Literals THEN LiteralValue(Literals[text[1]])
  ELSE StringValue(text)

ValidIdentifier(text) == \A k \in DOMAIN text : text[k] \notin Marks \cup BadWords

MakeField(key, value) == IF Error \in {key, value} THEN Error ELSE Field(key.text, value)

\* A key that is there already is an error.
AsObject(fields) ==
  IF \/ Error \in Range(fields)
     \/ \E j, k \in DOMAIN fields : j < k /\ fields[j].key = fields[k].key
    THEN Error ELSE ObjectValue(Range(fields))

RECURSIVE ParseValue(_)

ParseArray(inner) == Collected(Each(Pieces(inner, ","), ParseValue))

StringOnly(key) == IF key.type = "string" THEN key ELSE Error

ParseObjectKey(raw) == StringOnly(ParseValue(raw))

ParseEntry(entry, colons) ==
  IF colons = <<>> THEN Error
  ELSE MakeField(ParseObjectKey(Before(entry, colons[1])), ParseValue(After(entry, colons[1])))

ParseObject(inner) ==
  AsObject(Each(Pieces(inner, ","), LAMBDA entry : ParseEntry(entry, TopLevel(entry, ":"))))

\* What starts like a string, a list or an object must also end like it.
ParseTrimmed(text) ==
  IF text = <<>> THEN StringValue(<<>>)
  ELSE IF Head(text) \in Quotes
    THEN IF Enclosed(text, Head(text), Head(text)) THEN StringValue(Unescaped(Inner(text))) ELSE Error
  ELSE IF Head(text) = "["
    THEN IF Enclosed(text, "[", "]") THEN ParseArray(Inner(text)) ELSE Error
  ELSE IF Head(text) = "{"
    THEN IF Enclosed(text, "{", "}") THEN ParseObject(Inner(text)) ELSE Error
  ELSE Unquoted(text)

ParseValue(raw) == ParseTrimmed(Trim(raw))

----------------------------------------------------------------------------
(* Calls                                                                    *)

Identifier(name) ==
  IF name = <<>> \/ ~ ValidIdentifier(name) THEN Error ELSE StringValue(name)

ParseKwarg(pair, equals) ==
  IF equals = 0 THEN Error
  ELSE MakeField(Identifier(Trim(Before(pair, equals))), ParseValue(After(pair, equals)))

ParseKwargs(text) ==
  AsObject(Each(Pieces(text, ","), LAMBDA pair : ParseKwarg(pair, FirstOf(pair, "="))))

MakeCall(name, args) == IF Error \in {name, args} THEN Error ELSE Call(name.text, args)

\* The last parenthesis closes the call, so that values may hold others.
ParseArguments(rest, close) ==
  IF close = 0 \/ ~ Blank(After(rest, close)) THEN Error ELSE ParseKwargs(Before(rest, close))

ParseCallAt(expr, open) ==
  IF open = 0 THEN Error
  ELSE MakeCall(Identifier(Trim(Before(expr, open))),
                ParseArguments(After(expr, open), LastOf(After(expr, open), ")")))

ParseLfmCall(expr) == ParseCallAt(expr, FirstOf(expr, "("))

Unbracketed(text) == IF Enclosed(text, "[", "]") THEN Inner(text) ELSE text

\* The calls of a block, or Error when one of them cannot be read.
ParseLfmBlock(block) == Collected(Each(Pieces(Unbracketed(Trim(block)), ","), ParseLfmCall))
=============================================================================
