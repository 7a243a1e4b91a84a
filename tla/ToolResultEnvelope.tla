-------------------------- MODULE ToolResultEnvelope --------------------------
(***************************************************************************)
(* ToolResultEnvelope::bound (src/src/tool.rs): redacting and bounding a    *)
(* tool's result before a model sees it.                                    *)
(*                                                                          *)
(* A JSON value is a tree.  A character of a string is the number of bytes  *)
(* it is serialised to, a scalar its length.  Keys, the names of positions  *)
(* and JSON pointers are spelled out, as the code compares them as text.    *)
(* `origin` is the path of keys by which a value stood in the result the    *)
(* tool returned; the code does not know it.                                *)
(*                                                                          *)
(* Where a function of the code calls itself on the children of a value,    *)
(* its definition here (BoundValueOf, SerializedLenOf) calls a constant     *)
(* (BoundValue, SerializedLen), which a configuration gives that definition.*)
(* The host may bound what it bounded (a tool that answers from a cache of  *)
(* envelopes): BoundAgain.                                                  *)
(***************************************************************************)
EXTENDS Integers, Sequences, FiniteSets, SequencesExt

CONSTANTS
  Characters,         \* those keys and pointers are made of
  Payloads,           \* results tools return
  Configs,            \* [maxString, maxItems, maxTotal, deny, allow]
  Replacement,        \* default_replacement, as its characters
  Values,             \* the values inside these results, bounded or not
  Height(_),          \* how deep a value is nested
  SerializedLen(_),   \* serialized_len of a child
  BoundValue(_, _, _), \* bound_value of a child: config, value, pointer
  Within(_)           \* a child and all that is in it

VARIABLES
  payload,       \* the result bounded
  config,        \* the config given
  envelope,      \* the envelope returned
  phase          \* "given", "bounded", or "again" when the result was bounded again

envelopeVars == <<payload, config, envelope, phase>>

Text == Seq(Characters)

\* `parts` are the characters of a string and the children of an array or an
\* object, [key, value], with an item's position as its key; `size` is what a value
\* weighs without them.
Value(type, at, redacted, parts, size) ==
  [type |-> type, origin |-> at, redacted |-> redacted, parts |-> parts, size |-> size]

String(at, chars) == Value("string", at, FALSE, chars, 2)
Scalar(at, size) == Value("scalar", at, FALSE, <<>>, size)
Array(at, items) == Value("array", at, FALSE, items, 2)
Object(at, fields) == Value("object", at, FALSE, fields, 2)

Child(key, value) == [key |-> key, value |-> value]

Rebuild(value, parts) == Value(value.type, value.origin, value.redacted, parts, value.size)

Container(value) == value.type \in {"array", "object"}

Children(value) ==
  IF Container(value) THEN {value.parts[k].value : k \in DOMAIN value.parts} ELSE {}

KeyLen(key) == Len(key) + 3      \* with its quotes and colon

SerializedLenOf(value) ==
  LET size(part) ==
        IF value.type = "string" THEN part
        ELSE SerializedLen(part.value) + IF value.type = "object" THEN KeyLen(part.key) ELSE 0
      commas == IF Container(value) /\ value.parts # <<>> THEN Len(value.parts) - 1 ELSE 0
  IN  value.size + commas + SumFunction([k \in DOMAIN value.parts |-> size(value.parts[k])])

\* What the functions return with a value: the sum of their counters of what
\* they left out, and the pointers they recorded.
Result(value, omitted, segments) == [value |-> value, omitted |-> omitted, segments |-> segments]

----------------------------------------------------------------------------
(* Redaction                                                                *)

Replace(segment, old, new) ==
  FlattenSeq([k \in DOMAIN segment |-> IF segment[k] = old THEN new ELSE <<segment[k]>>])

\* mutant: the escapes of the slash are escaped once more
EscapePointerSegment_Swapped(segment) ==
  Replace(Replace(segment, "/", <<"~", "1">>), "~", <<"~", "0">>)

EscapePointerSegment(segment) ==
  Replace(Replace(segment, "~", <<"~", "0">>), "/", <<"~", "1">>)

ChildPointer(parent, key) == parent \o <<"/">> \o EscapePointerSegment(key)

IsDescendant(pointer, ancestor) ==
  IF ancestor = <<>> THEN pointer # <<>> ELSE IsPrefix(Append(ancestor, "/"), pointer)

PointerMatches(pointer, allowed) ==
  pointer = allowed \/ IsDescendant(pointer, allowed) \/ IsDescendant(allowed, pointer)

\* The pointer of a path of keys, by RFC 6901: what a host writes in its rules.
Spelled(char) ==
  CASE char = "~" -> <<"~", "0">> [] char = "/" -> <<"~", "1">> [] OTHER -> <<char>>

SpelledKey(key) == FlattenSeq([k \in DOMAIN key |-> Spelled(key[k])])

Spell(path) == FlattenSeq([k \in DOMAIN path |-> <<"/">> \o SpelledKey(path[k])])

\* deny and allow hold the paths the host's pointers spell; allow is {<<>>} when
\* there is no allow-list.
Allowed(c, pointer) == \E path \in c.allow : PointerMatches(pointer, Spell(path))

\* mutant: the allow-list is asked first and decides
Replaced_AllowWins(c, pointer) == ~ Allowed(c, pointer)

Replaced(c, pointer) == pointer \in {Spell(path) : path \in c.deny} \/ ~ Allowed(c, pointer)

----------------------------------------------------------------------------
(* bound_value: redaction, long strings, long arrays                        *)

Limit(c, value) ==
  CASE value.type = "string" -> c.maxString
    [] value.type = "array"  -> c.maxItems
    [] OTHER                 -> Len(value.parts)

Excess(c, value) ==
  IF Len(value.parts) > Limit(c, value) THEN Len(value.parts) - Limit(c, value) ELSE 0

Taken_OneMore(c, value) ==   \* mutant: off by one
  IF Excess(c, value) = 0 THEN value.parts ELSE SubSeq(value.parts, 1, Limit(c, value) + 1)

Taken(c, value) ==
  IF Excess(c, value) = 0 THEN value.parts ELSE SubSeq(value.parts, 1, Limit(c, value))

Redaction(value) == Value("string", value.origin, TRUE, Replacement, 2)

BoundValueOf(c, value, pointer) ==
  LET parts == Taken(c, value)
      below == [k \in DOMAIN parts |->
                 BoundValue(c, parts[k].value, ChildPointer(pointer, parts[k].key))]
      excess == Excess(c, value)
      own == IF excess > 0 THEN {pointer} ELSE {}
  IN  IF Replaced(c, pointer) THEN Result(Redaction(value), 0, {})
      ELSE IF ~ Container(value) THEN Result(Rebuild(value, parts), excess, own)
      ELSE Result(Rebuild(value, [k \in DOMAIN parts |-> Child(parts[k].key, below[k].value)]),
                  excess + SumFunction([k \in DOMAIN parts |-> below[k].omitted]),
                  own \cup UNION {below[k].segments : k \in DOMAIN parts})

----------------------------------------------------------------------------
(* bound_total_bytes: what does not fit beside what was retained is omitted *)

Fits_Before(c, value) ==   \* mutant: measured without the last part
  SerializedLenOf(Rebuild(value, SubSeq(value.parts, 1, Len(value.parts) - 1))) <= c.maxTotal

Fits(c, value) == SerializedLenOf(value) <= c.maxTotal

\* What is retained of the first k parts.
Retained(c, value) ==
  LET retained[k \in 0 .. Len(value.parts)] ==
        IF k = 0 THEN <<>>
        ELSE LET candidate == Append(retained[k - 1], value.parts[k])
             IN  IF Fits(c, Rebuild(value, candidate)) THEN candidate ELSE retained[k - 1]
  IN  retained

BoundTotalBytes(c, bounded) ==
  LET value == bounded.value
      retained == Retained(c, value)
      left == {k \in DOMAIN value.parts : retained[k] = retained[k - 1]}
      pointer(k) == IF Container(value) THEN ChildPointer(<<>>, value.parts[k].key) ELSE <<>>
  IN  IF Fits(c, value) THEN bounded
      ELSE IF value.type = "scalar"
        THEN Result(value, bounded.omitted + 1, bounded.segments \cup {<<>>})
      ELSE Result(Rebuild(value, retained[Len(value.parts)]),
                  bounded.omitted + Cardinality(left),
                  bounded.segments \cup {pointer(k) : k \in left})

\* The envelope: the bounded payload, `truncated` and the recorded segments.
Bounded(c, value) ==
  LET bounded == BoundTotalBytes(c, BoundValueOf(c, value, <<>>))
  IN  [payload |-> bounded.value, truncated |-> bounded.omitted > 0, segments |-> bounded.segments]

----------------------------------------------------------------------------

EnvelopeInit ==
  /\ payload \in Payloads
  /\ config \in Configs
  /\ envelope = [payload |-> payload, truncated |-> FALSE, segments |-> {}]
  /\ phase = "given"

Bound ==
  /\ phase = "given"
  /\ envelope' = Bounded(config, payload)
  /\ phase' = "bounded"
  /\ UNCHANGED <<payload, config>>

\* redaction: None, as in the default config
NoPolicy(c) == c.deny = {} /\ c.allow = {<<>>}

BoundAgain ==
  /\ phase = "bounded"
  /\ NoPolicy(config)
  /\ envelope' = Bounded(config, envelope.payload)
  /\ payload' = envelope.payload
  /\ phase' = "again"
  /\ UNCHANGED config

EnvelopeNext == Bound \/ BoundAgain

EnvelopeSpec == EnvelopeInit /\ [][EnvelopeNext]_envelopeVars

----------------------------------------------------------------------------
(* What the constants stand for                                            *)

\* A value as serde_json parses it: its parts are those of its type, and its
\* children stand under their keys.
WellFormed(value) ==
  /\ value = Value(value.type, value.origin, value.redacted, value.parts, value.size)
  /\ value.type \in {"scalar", "string", "array", "object"}
  /\ value.origin \in Seq(Text)
  /\ value.redacted \in BOOLEAN
  /\ value.parts \in Seq(Range(value.parts))
  /\ value.type = "scalar" => value.parts = <<>>
  /\ value.type # "scalar" => value.size = 2
  /\ Container(value) =>
       \A k \in DOMAIN value.parts :
         /\ value.parts[k] = Child(value.parts[k].key, value.parts[k].value)
         /\ value.parts[k].key \in Text
         /\ value.parts[k].value.origin = Append(value.origin, value.parts[k].key)

ASSUME CharactersAssumption == {"~", "/", "0", "1"} \subseteq Characters

ASSUME ConfigsAssumption ==
  \A c \in Configs :
    /\ c.maxString \in Nat /\ c.maxItems \in Nat /\ c.maxTotal \in Nat
    /\ c.deny \subseteq Seq(Text) /\ c.allow \subseteq Seq(Text)

ASSUME ReplacementAssumption == Replacement \in Seq(Nat)

\* Trees are finite.
ASSUME ValuesAssumption ==
  /\ \A value \in Values : WellFormed(value) /\ Height(value) \in Nat
  /\ \A value \in Values : \A child \in Children(value) : Height(child) < Height(value)
  /\ UNION {Children(value) : value \in Values} \subseteq Values

WithinOf(value) == {value} \cup UNION {Within(child) : child \in Children(value)}

\* A tool redacts nothing.
ASSUME PayloadsAssumption ==
  /\ \A value \in Payloads : WellFormed(value) /\ value.origin = <<>>
  /\ \A value \in Payloads : \A part \in WithinOf(value) : ~ part.redacted
  /\ UNION {Children(value) : value \in Payloads} \subseteq Values

\* The functions call themselves.
ASSUME RecursionAssumption ==
  /\ \A value \in Values : Within(value) = WithinOf(value)
  /\ \A c \in Configs, value \in Values :
       BoundValue(c, value, Spell(value.origin)) = BoundValueOf(c, value, Spell(value.origin))
  /\ \A c \in Configs :
       {BoundValue(c, value, Spell(value.origin)).value : value \in Values} \subseteq Values

----------------------------------------------------------------------------
(* Properties                                                              *)

IsBounded == phase = "bounded"

\* The empty string, array or object can be serialised at all.
RoomForEmpty == config.maxTotal >= 2

\* The bounded payload fits the total budget, whatever was redacted and cut
\* before, unless it is one scalar.
BudgetKept ==
  IsBounded /\ RoomForEmpty /\ envelope.payload.type # "scalar" =>
    SerializedLenOf(envelope.payload) <= config.maxTotal

\* Whatever characters its keys are made of, what is left unredacted in the bounded
\* payload stood at or below no denied pointer, and stood at or below an allowed one or at
\* an ancestor of one.  A leaf found where the allow-list expects an ancestor is left as
\* well: see OnlyContainersAbove.
RedactionHolds ==
  IsBounded =>
    \A part \in WithinOf(envelope.payload) :
      ~ part.redacted =>
        /\ \E path \in config.allow : IsPrefix(path, part.origin) \/ IsPrefix(part.origin, path)
        /\ \A path \in config.deny : ~ IsPrefix(path, part.origin)

\* Values outside the allow-list are redacted while ancestor containers are retained: what
\* is left unredacted and is not at or below an allowed pointer is a container.
OnlyContainersAbove ==
  IsBounded =>
    \A part \in WithinOf(envelope.payload) :
      ~ part.redacted /\ (\A path \in config.allow : ~ IsPrefix(path, part.origin)) => Container(part)

\* Whatever is missing from the bounded payload, or cut, is accounted for: it was
\* replaced by redaction or lies at or below a recorded segment, and `truncated` is set
\* exactly when there is such a segment.
NothingLostSilently ==
  IsBounded =>
    /\ envelope.truncated = (envelope.segments # {})
    /\ \A part \in WithinOf(payload) :
         \/ \E kept \in WithinOf(envelope.payload) :
              \/ Container(part) /\ kept.origin = part.origin
              \/ kept = part
              \/ kept.redacted /\ IsPrefix(kept.origin, part.origin)
         \/ \E path \in Prefixes(part.origin) : Spell(path) \in envelope.segments

\* Bounding a bounded payload changes nothing and finds nothing to omit.
BoundingSettles ==
  phase = "again" /\ RoomForEmpty /\ payload.type # "scalar" =>
    envelope.payload = payload /\ ~ envelope.truncated
=============================================================================
