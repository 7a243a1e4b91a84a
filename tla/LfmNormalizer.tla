---------------------------- MODULE LfmNormalizer ----------------------------
(***************************************************************************)
(* The block loop of LfmNormalizer::normalize over a model's answer         *)
(* (src/src/normalizer.rs).                                                 *)
(*                                                                          *)
(* A writing is [text, written, strings, closers, good]: its text, the      *)
(* calls that are written in it, the strings and keys in them, where it     *)
(* closes a call, an object or a block, and whether it can be read at all.  *)
(* All but the text are for the properties.                                 *)
(***************************************************************************)
EXTENDS LfmSyntax

CONSTANT Texts   \* the answers models give

VARIABLES
  writing,     \* the answer given
  damage,      \* what happened to its text: "none", "cut", "closed" or "lost"
  remaining,   \* what is still to be read
  calls,       \* the invocations so far
  progress     \* "given", "reading", "done", or "failed" when an error was returned

lfmVars == <<writing, damage, remaining, calls, progress>>

LfmInit ==
  /\ writing \in Texts
  /\ damage = "none"
  /\ remaining = <<>>
  /\ calls = <<>>
  /\ progress = "given"

----------------------------------------------------------------------------
(* The model's text arrives, perhaps not as it was meant                    *)

Arrive(text, fate) ==
  /\ progress = "given"
  /\ remaining' = text
  /\ damage' = fate
  /\ progress' = "reading"
  /\ UNCHANGED <<writing, calls>>

ArriveWhole == Arrive(writing.text, "none")

\* Generation stopped in the middle.
ArriveCut == \E k \in 1 .. Len(writing.text) : Arrive(Before(writing.text, k), "cut")

\* The model closed a block too early.
ArriveClosed ==
  \E k \in 1 .. Len(writing.text) : Arrive(Append(Before(writing.text, k), LfmEnd), "closed")

\* The model forgot to close a call, an object or a block.
ArriveLost == \E k \in writing.closers : Arrive(RemoveAt(writing.text, k), "lost")

----------------------------------------------------------------------------
(* LfmNormalizer                                                            *)

Fail == progress' = "failed" /\ UNCHANGED <<writing, damage, remaining, calls>>

Extend(more, rest, then) ==
  /\ calls' = calls \o more
  /\ remaining' = rest
  /\ progress' = then
  /\ UNCHANGED <<writing, damage>>

AfterStart == After(remaining, FirstOf(remaining, LfmStart))

TakeBlock(block, rest) == IF block = Error THEN Fail ELSE Extend(block.items, rest, "reading")

ReadUpTo(end) ==
  IF end = 0 THEN Fail
             ELSE TakeBlock(ParseLfmBlock(Before(AfterStart, end)), After(AfterStart, end))

ReadBlock ==
  /\ progress = "reading"
  /\ FirstOf(remaining, LfmStart) # 0
  /\ ReadUpTo(FirstOf(AfterStart, LfmEnd))

EndOfText ==
  /\ progress = "reading"
  /\ FirstOf(remaining, LfmStart) = 0
  /\ Extend(<<>>, remaining, "done")

LfmNext ==
  \/ ArriveWhole \/ ArriveCut \/ ArriveClosed \/ ArriveLost
  \/ ReadBlock \/ EndOfText

LfmSpec == LfmInit /\ [][LfmNext]_lfmVars

----------------------------------------------------------------------------
(* Properties                                                              *)

EndsEarly(text) == LfmEnd \in Range(text)

\* No escape is taken for that of a quote, which is the only one the code knows.
EscapesNothing(text) ==
  \A k \in DOMAIN text : text[k] = Escape => k < Len(text) /\ text[k + 1] \notin Quotes

\* Calls written in the LFM syntax, with whatever quotes, spacing, nesting and blocks,
\* are read back as they were written and in that order, and a text in which one of them
\* is malformed fails as a whole.  Strings may hold every mark, those of the syntax and
\* their own quote included, but the end marker, which ends the block where it stands,
\* and a backslash before a quote or at their end, which nothing can be written for.
ReadsWhatIsWritten ==
  damage = "none" /\ (\A text \in writing.strings : ~ EndsEarly(text) /\ EscapesNothing(text)) =>
    /\ progress = "done" => writing.good /\ calls = writing.written
    /\ progress = "failed" => ~ writing.good

\* A text that was cut or closed anywhere, or in which a call, an object or a block is not
\* closed, never yields a call that was not written, or one with other arguments: at any
\* time the calls read are the first of those written.  This is so of texts without an
\* escape or an end marker in a string: the end of the text may split an escaped quote's
\* string into one that looks whole.
NothingMadeUp ==
  Escape \notin Range(writing.text) /\ (\A text \in writing.strings : ~ EndsEarly(text)) =>
    IsPrefix(calls, writing.written)
=============================================================================
