------------------------- MODULE JsFunctionExtractor -------------------------
(***************************************************************************)
(* JsFunctionExtractor: the source of a function is cut out of the player  *)
(* script, from its head to the brace that closes its body, by counting    *)
(* braces outside of strings. The cut decides what Decipher runs.          *)
(*                                                                         *)
(* A text is a sequence of tokens, from where the pattern of the head      *)
(* matched: "head" is all of "name=function(" or "function name(".         *)
(* Comments and literals of regular expressions, which the code does not   *)
(* know, are not among the tokens.                                         *)
(***************************************************************************)
EXTENDS Integers, Sequences, SequencesExt, Lists

CONSTANT MaxText    \* bound: tokens after the head

ASSUME TextAssumption == MaxText \in Nat

Quotes == {"quote", "tick"}
Tokens == Quotes \cup {"lbrace", "rbrace", "rparen", "backslash", "other"}
Texts == {<<"head">> \o t : t \in BoundedSeq(Tokens, MaxText)}

null == 0
Outside == [depth |-> 0, inString |-> FALSE, stringChar |-> "other", found |-> null]

-----------------------------------------------------------------------------

(* One round of the loop, at token i, if it has not returned.              *)
OutsideStrings(at, js, i) ==
    CASE js[i] \in Quotes -> [at EXCEPT !.inString = TRUE, !.stringChar = js[i]]
      [] js[i] = "lbrace" -> [at EXCEPT !.depth = @ + 1]
      [] js[i] = "rbrace" -> [at EXCEPT !.depth = @ - 1, !.found = IF at.depth = 1 THEN i ELSE null]
      [] OTHER -> at

\* A bug that the loop could have: a quote in a string always ends it.
WalkUnescaped(at, js, i) ==
    IF at.found # null THEN at
    ELSE IF at.inString THEN [at EXCEPT !.inString = js[i] # at.stringChar]
    ELSE OutsideStrings(at, js, i)

Walk(at, js, i) ==
    IF at.found # null THEN at
    ELSE IF at.inString
    THEN [at EXCEPT !.inString = js[i] # at.stringChar \/ js[i - 1] = "backslash"]
    ELSE OutsideStrings(at, js, i)

\* The state of the loop behind each token, from openPos on.
Walked(js, openPos) ==
    LET walked[i \in openPos - 1 .. Len(js)] ==
            IF i = openPos - 1 THEN Outside ELSE Walk(walked[i - 1], js, i)
    IN  walked

findMatchingBrace(js, openPos) == Walked(js, openPos)[Len(js)].found

(* startPattern: "[^)]*" takes anything up to the first parenthesis.       *)
ParamsEnd(js) == IndexOf(js, "rparen")
startPattern(js) ==
    /\ ParamsEnd(js) # 0 /\ ParamsEnd(js) < Len(js)
    /\ js[ParamsEnd(js) + 1] = "lbrace"

(* The length of the text that is returned; the body is taken to begin at  *)
(* the first brace there is.                                               *)
extractFunctionBody(js) ==
    IF startPattern(js) THEN findMatchingBrace(js, IndexOf(js, "lbrace")) ELSE null

-----------------------------------------------------------------------------
(* What a lexer of JavaScript says, which takes the token after a backslash*)
(* for a part of the string, whatever it is.                               *)

Read(at, c) ==
    CASE at.mode = "escape" -> [at EXCEPT !.mode = "string"]
      [] at.mode = "string" /\ c = "backslash" -> [at EXCEPT !.mode = "escape"]
      [] at.mode = "string" /\ c = at.quote -> [at EXCEPT !.mode = "code"]
      [] at.mode = "code" /\ c \in Quotes -> [at EXCEPT !.mode = "string", !.quote = c]
      [] at.mode = "code" /\ c = "lbrace" -> [at EXCEPT !.open = @ + 1]
      [] at.mode = "code" /\ c = "rbrace" -> [at EXCEPT !.open = @ - 1]
      [] OTHER -> at

Code == [mode |-> "code", quote |-> "other", open |-> 0]

\* What it knows behind each token of a body.
Lexed(body) ==
    LET lexed[n \in 0 .. Len(body)] ==
            IF n = 0 THEN Code ELSE Read(lexed[n - 1], body[n])
    IN  lexed

\* The least beginning of a body, which starts with its brace, that closes it.
Closed(body) ==
    LET lexed == Lexed(body)
    IN  {n \in 1 .. Len(body) : lexed[n].open = 0 /\ \A k \in 1 .. n - 1 : lexed[k].open > 0}

\* Two things mislead the code: an escaped backslash before a quote, and a brace
\* among the parameters.
EscapedBackslash(js) ==
    \E i \in 1 .. Len(js) - 2 : js[i] = "backslash" /\ js[i + 1] = "backslash" /\ js[i + 2] \in Quotes
BraceInParams(js) == \E i \in 1 .. ParamsEnd(js) : js[i] \in {"lbrace", "rbrace"}

\* For every text that holds neither, the code's cut is the lexer's.
CutsWholeBodies ==
    \A js \in Texts :
        startPattern(js) /\ ~EscapedBackslash(js) /\ ~BraceInParams(js) =>
            LET from == ParamsEnd(js)
                body == SubSeq(js, from + 1, Len(js))
            IN  extractFunctionBody(js) =
                    IF Closed(body) = {} THEN null ELSE from + CHOOSE n \in Closed(body) : TRUE
=============================================================================
