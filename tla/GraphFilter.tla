---------------------------- MODULE GraphFilter ----------------------------
(***************************************************************************)
(* The filter node of a serial graph (graph_filter.go): what passes.       *)
(*                                                                         *)
(* A text is a sequence of characters, an expression a sequence of tokens; *)
(* names of fields and keywords are written in lower case.  What a regular *)
(* expression finds is left to the library.                                *)
(***************************************************************************)
EXTENDS Integers, Sequences, FiniteSets, SequencesExt

\* The fields of a candidate that are texts, in the order of the haystack
TextFields ==
    <<"text", "hex", "message", "level", "source", "graphid", "nodeid", "nodetype", "direction",
      "payloadtext", "payloadhex", "details", "action", "category">>
LengthFields == {"len", "bytelength", "bytecount"}

NewLine == "\n"
Space == " "
Upper == [A |-> "a", B |-> "b"]
Lower(text) == [i \in DOMAIN text |-> IF text[i] \in DOMAIN Upper THEN Upper[text[i]] ELSE text[i]]
IsWord(c) == c \notin {NewLine, Space, "+"}

Found(text, part, i) == i + Len(part) <= Len(text) + 1 /\ SubSeq(text, i, i + Len(part) - 1) = part
HasPart(text, part) == \E i \in 1 .. Len(text) + 1 : Found(text, part, i)

-----------------------------------------------------------------------------
(* Candidates                                                              *)

\* The first of the three lengths that is not 0
Length(candidate) ==
    IF candidate.len # 0 THEN candidate.len
    ELSE IF candidate.bytelength # 0 THEN candidate.bytelength ELSE candidate.bytecount

\* text and hex stand for the payload when they are empty.
TextOf(candidate, field) ==
    LET payload == [text |-> "payloadtext", hex |-> "payloadhex"] IN
    IF field \in DOMAIN payload /\ candidate[field] = << >> THEN candidate[payload[field]] ELSE candidate[field]

\* Every length is a digit here.
Digits(n) == <<ToString(n)>>
Values(candidate) == [i \in DOMAIN TextFields |-> candidate[TextFields[i]]] \o <<Digits(Length(candidate))>>

\* mutant: the fields follow each other without a separator
HaystackJoined(candidate) == FlattenSeq(Values(candidate))

Haystack(candidate) ==
    LET values == Values(candidate) IN
    FlattenSeq([i \in DOMAIN values |-> IF i = 1 THEN values[i] ELSE <<NewLine>> \o values[i]])

-----------------------------------------------------------------------------
(* A keyword                                                               *)

\* A word boundary of the library is between a word character and none.
Boundary(text, i) ==
    (i > 1 /\ IsWord(text[i - 1])) # (i <= Len(text) /\ IsWord(text[i]))

HasWord(text, part) ==
    \E i \in 1 .. Len(text) : Found(text, part, i) /\ Boundary(text, i) /\ Boundary(text, i + Len(part))

Finds(text, keyword, options) ==
    LET fold(x) == IF options.caseSensitive THEN x ELSE Lower(x) IN
    IF options.wholeWord THEN HasWord(fold(text), fold(keyword)) ELSE HasPart(fold(text), fold(keyword))

Plain(candidate, keyword, options) == Finds(Haystack(candidate), keyword, options)

-----------------------------------------------------------------------------
(* An expression                                                           *)

Token(kind, value) == [kind |-> kind, value |-> value]
EOF == Token("eof", "")
Peek(tokens, pos) == IF pos > Len(tokens) THEN EOF ELSE tokens[pos]
IsKeyword(tokens, pos, word) == Peek(tokens, pos).kind = "ident" /\ Peek(tokens, pos).value = word
IsOperator(tokens, pos, operators) == Peek(tokens, pos).kind = "operator" /\ Peek(tokens, pos).value \in operators

CompareNumber(left, operator, right) ==
    CASE operator = "==" -> left = right
      [] operator = "!=" -> left # right
      [] operator = ">" -> left > right
      [] operator = ">=" -> left >= right
      [] operator = "<" -> left < right
      [] operator = "<=" -> left <= right
NumericOperators == {"==", "!=", ">", ">=", "<", "<="}

\* Hex is compared without spaces and case.
NormalizeHex(text) == SelectSeq(Lower(text), LAMBDA c : c \notin {Space, NewLine})

CompareText(field, left, operator, right, options) ==
    LET hex == field \in {"hex", "payloadhex"}
        fold(x) == IF hex THEN NormalizeHex(x) ELSE IF options.caseSensitive THEN x ELSE Lower(x)
    IN  CASE operator = "contains" -> HasPart(fold(left), fold(right))
          [] operator = "==" -> fold(left) = fold(right)
          [] operator = "!=" -> fold(left) # fold(right)

Error == [ok |-> FALSE, value |-> FALSE, pos |-> 0]
Result(value, pos) == [ok |-> TRUE, value |-> value, pos |-> pos]

\* A field, an operator and a literal
ParseComparison(tokens, pos, candidate, options) ==
    LET field == Peek(tokens, pos).value
        operator == Peek(tokens, pos + 1)
        literal == Peek(tokens, pos + 2)
    IN  IF Peek(tokens, pos).kind # "ident" THEN Error
        ELSE IF field \in LengthFields
        THEN IF IsOperator(tokens, pos + 1, NumericOperators) /\ literal.kind = "number"
             THEN Result(CompareNumber(Length(candidate), operator.value, literal.value), pos + 3)
             ELSE Error
        ELSE IF field \in Range(TextFields) /\ literal.kind = "string"
                /\ (IsKeyword(tokens, pos + 1, "contains") \/ IsOperator(tokens, pos + 1, {"==", "!="}))
        THEN Result(CompareText(field, TextOf(candidate, field), operator.value, literal.value, options), pos + 3)
        ELSE Error

RECURSIVE ParseOr(_, _, _, _), OrRest(_, _, _, _), ParseAnd(_, _, _, _), AndRest(_, _, _, _), ParseUnary(_, _, _, _)

ParsePrimary(tokens, pos, candidate, options) ==
    IF Peek(tokens, pos).kind # "(" THEN ParseComparison(tokens, pos, candidate, options)
    ELSE LET inner == ParseOr(tokens, pos + 1, candidate, options) IN
         IF inner.ok /\ Peek(tokens, inner.pos).kind = ")" THEN Result(inner.value, inner.pos + 1) ELSE Error

ParseUnary(tokens, pos, candidate, options) ==
    IF ~IsKeyword(tokens, pos, "not") THEN ParsePrimary(tokens, pos, candidate, options)
    ELSE LET operand == ParseUnary(tokens, pos + 1, candidate, options) IN
         IF operand.ok THEN Result(~operand.value, operand.pos) ELSE Error

AndRest(tokens, left, candidate, options) ==
    IF ~left.ok \/ ~IsKeyword(tokens, left.pos, "and") THEN left
    ELSE LET right == ParseUnary(tokens, left.pos + 1, candidate, options) IN
         IF right.ok THEN AndRest(tokens, Result(left.value /\ right.value, right.pos), candidate, options) ELSE Error
ParseAnd(tokens, pos, candidate, options) ==
    AndRest(tokens, ParseUnary(tokens, pos, candidate, options), candidate, options)

OrRest(tokens, left, candidate, options) ==
    IF ~left.ok \/ ~IsKeyword(tokens, left.pos, "or") THEN left
    ELSE LET right == ParseAnd(tokens, left.pos + 1, candidate, options) IN
         IF right.ok THEN OrRest(tokens, Result(left.value \/ right.value, right.pos), candidate, options) ELSE Error
ParseOr(tokens, pos, candidate, options) ==
    OrRest(tokens, ParseAnd(tokens, pos, candidate, options), candidate, options)

\* mutant: what follows the expression is not looked at
ParsePrefix(tokens, candidate, options) == ParseOr(tokens, 1, candidate, options)

Parse(tokens, candidate, options) ==
    LET all == ParseOr(tokens, 1, candidate, options) IN
    IF all.ok /\ Peek(tokens, all.pos).kind = "eof" THEN all ELSE Error

\* matchSerialGraphFilter: an empty expression lets everything pass, and
\* nothing passes an expression or a mode that is wrong.
Match(candidate, options) ==
    IF options.expression = << >> THEN TRUE
    ELSE CASE options.mode \in {"", "plain"} -> Plain(candidate, options.expression, options)
           [] options.mode = "expression" ->
                LET parsed == Parse(options.expression, candidate, options) IN parsed.ok /\ parsed.value
           [] OTHER -> FALSE

-----------------------------------------------------------------------------
(* Properties                                                              *)

\* A keyword is found in one of the fields or not at all: it never matches
\* the end of one field and the beginning of the next one.
KeywordInOneField(candidate, options) ==
    Match(candidate, options) <=> \E v \in Range(Values(candidate)) : Finds(v, options.expression, options)

\* The grammar: the values that the tokens from i to j have as an expression
\* of a level.
RECURSIVE Derives(_, _, _, _, _, _)
Derives(level, tokens, i, j, candidate, options) ==
    LET below(k, l, at) == Derives(at, tokens, k, l, candidate, options)
        split(word, at) ==
            UNION {below(i, k - 1, level) \X below(k + 1, j, at) : k \in {m \in i .. j : IsKeyword(tokens, m, word)}}
    IN  CASE i > j -> {}
          [] level = "or" -> below(i, j, "and") \cup {v[1] \/ v[2] : v \in split("or", "and")}
          [] level = "and" -> below(i, j, "unary") \cup {v[1] /\ v[2] : v \in split("and", "unary")}
          [] level = "unary" ->
                (IF IsKeyword(tokens, i, "not") THEN {~v : v \in below(i + 1, j, "unary")} ELSE {})
                \cup (IF tokens[i].kind = "(" /\ tokens[j].kind = ")" THEN below(i + 1, j - 1, "or") ELSE {})
                \cup (LET c == ParseComparison(tokens, i, candidate, options) IN
                      IF c.ok /\ c.pos = j + 1 THEN {c.value} ELSE {})

\* The parser accepts the expressions of the grammar and nothing else: "not"
\* binds closer than "and", "and" closer than "or", and operators of one kind
\* are evaluated from the left.
ParserIsExact(tokens, candidate, options) ==
    LET parsed == Parse(tokens, candidate, options) IN
    Derives("or", tokens, 1, Len(tokens), candidate, options) = IF parsed.ok THEN {parsed.value} ELSE {}

\* A filter for bytes finds the bytes; it may find them also where they
\* begin in the middle of a byte ("0b" in "a0 b1"), and nowhere else.
HexFindsBytes(payload, bytes) ==
    LET hex(s) == FlattenSeq([i \in DOMAIN s |-> IF i = 1 THEN s[i] ELSE <<Space>> \o s[i]])
        found == CompareText("hex", hex(payload), "contains", hex(bytes),
                             [caseSensitive |-> FALSE, wholeWord |-> FALSE])
        nibbles(s) == Lower(FlattenSeq(s))
    IN  /\ HasPart([i \in DOMAIN payload |-> Lower(payload[i])], [i \in DOMAIN bytes |-> Lower(bytes[i])]) => found
        /\ found => HasPart(nibbles(payload), nibbles(bytes))
=============================================================================
