------------------------------- MODULE Reader -------------------------------
(***************************************************************************)
(* evil_read (read.c): the characters of a string become a list of tokens, *)
(* the last one first; the list is reversed, the parentheses are counted,  *)
(* the marks ' ` , ,@ and # are expanded in place, and objects are made of *)
(* what is left.  The value is the list of the data in the string.         *)
(*                                                                         *)
(* tokenize, reverse and apply_expansions take a step for each token.  The *)
(* tokens are numbered in the order of their creation.  A failed assertion *)
(* ends in the phase "failed".  A write through the empty pair, which ends *)
(* every list of the program, ends in "overrun": the code goes on and      *)
(* returns the datum, but what the empty list is from then on is unknown.  *)
(***************************************************************************)
EXTENDS Integers, Sequences, FiniteSets, Datum

CONSTANTS Sources       \* what is read: sequences of data, each with characters before it

VARIABLES
    source,     \* what was written
    phase,      \* the function at work
    input,      \* the characters that are left
    tokens,     \* the tokens, linked by their numbers
    head,       \* the first token of the list: the handles end and head
    last,       \* the list that reverse has made
    cursor,     \* the token that reverse or apply_expansions has come to
    result      \* the object that is read

vars == <<source, phase, input, tokens, head, last, cursor, result>>

EmptyPair == 0      \* the end of a list of tokens

TOKEN_LPAREN == "("
TOKEN_RPAREN == ")"
TOKEN_SYMBOL == "symbol"
TOKEN_STRING == "string"
-----------------------------------------------------------------------------
(***************************************************************************)
(* find_current_token_end.                                                 *)
(***************************************************************************)
Blanks == {" "}                     \* of consume_whitespace
Delimiters == {"(", ")", " ", "\f"}   \* isspace knows more blanks

\* The length of the longest prefix without these characters.
Span(chars, delimiters) ==
    LET ends == {i \in DOMAIN chars : chars[i] \in delimiters}
    IN  IF ends = {} THEN Len(chars) ELSE (CHOOSE i \in ends : \A j \in ends : i <= j) - 1

\* A string, up to the next quotation mark.
UpToQuote(chars, type) ==
    LET size == Span(Tail(chars), {"\""})
    IN  [type |-> type, text |-> SubSeq(chars, 2, size + 1), size |-> size + 2]

\* A bug: the type of the token is not set.
StringUntyped(chars) == UpToQuote(chars, "invalid")

StringLexeme(chars) == UpToQuote(chars, TOKEN_STRING)

\* The type and the text of the token at the front, and the characters that it takes.
Lexeme(chars) ==
    IF chars[1] \in {"(", "[", "{"} THEN [type |-> TOKEN_LPAREN, text |-> <<chars[1]>>, size |-> 1]
    ELSE IF chars[1] \in {")", "]", "}"} THEN [type |-> TOKEN_RPAREN, text |-> <<chars[1]>>, size |-> 1]
    ELSE IF chars[1] = "\"" THEN StringLexeme(chars)
    ELSE LET size == Span(chars, Delimiters)
         IN  [type |-> TOKEN_SYMBOL, text |-> SubSeq(chars, 1, size), size |-> size]

\* The characters after the first n and the blanks that follow them.
Rest(chars, n) ==
    LET ends == {i \in n + 1..Len(chars) : chars[i] \notin Blanks}
    IN  IF ends = {} THEN <<>> ELSE SubSeq(chars, CHOOSE i \in ends : \A j \in ends : i <= j, Len(chars))
-----------------------------------------------------------------------------
(***************************************************************************)
(* The list of tokens.                                                     *)
(***************************************************************************)
Token(type, text, link) == [type |-> type, text |-> text, link |-> link]

\* The tokens from t to the end of the list, as numbers.
Chain(t) ==
    LET chain[n \in 0..Len(tokens), u \in 0..Len(tokens)] ==
            IF u = EmptyPair \/ n = 0 THEN <<>> ELSE <<u>> \o chain[n - 1, tokens[u].link]
    IN  chain[Len(tokens), t]

Count(type) == Cardinality({k \in DOMAIN Chain(head) : tokens[Chain(head)[k]].type = type})

\* split_symbol_token: the text after the first n characters goes to a token of its own.
SplitSymbol(ts, t, n) ==
    IF Len(ts[t].text) = n THEN ts
    ELSE Append([ts EXCEPT ![t].text = SubSeq(@, 1, n), ![t].link = Len(ts) + 1],
                Token(TOKEN_SYMBOL, SubSeq(ts[t].text, n + 1, Len(ts[t].text)), ts[t].link))

\* A bug: the level is not counted.
ClosingAtFirst(ts, t) ==
    LET find[u \in 0..Len(ts)] ==
            IF u = EmptyPair THEN EmptyPair
            ELSE IF ts[u].type = TOKEN_RPAREN THEN ts[u].link
            ELSE find[ts[u].link]
    IN  IF ts[t].type = TOKEN_LPAREN THEN find[t] ELSE t

\* Where expand_to puts the parenthesis that closes an expansion, if it begins at token t: after t,
\* or, when t opens a list, after the token that follows that list.
Closing(ts, t) ==
    LET find[u \in 0..Len(ts), level \in 0..Len(ts)] ==
            IF u = EmptyPair THEN EmptyPair
            ELSE IF ts[u].type = TOKEN_LPAREN THEN find[ts[u].link, level + 1]
            ELSE IF ts[u].type = TOKEN_RPAREN /\ level = 1 THEN ts[u].link
            ELSE IF ts[u].type = TOKEN_RPAREN THEN find[ts[u].link, level - 1]
            ELSE find[ts[u].link, level]
    IN  IF ts[t].type = TOKEN_LPAREN THEN find[t, 0] ELSE t

\* The token becomes a left parenthesis, followed by the symbol; after the expanded expression there
\* is a right one.  The links of the two new tokens are given.
Wrapped(ts, t, symbol, next, after) ==
    LET expansion == Len(ts) + 1
        rparen == Len(ts) + 2
    IN  [ts \o <<Token(TOKEN_SYMBOL, <<symbol>>, next), Token(TOKEN_RPAREN, <<")">>, after)>>
            EXCEPT ![t] = Token(TOKEN_LPAREN, <<"(">>, expansion),
                   ![Closing(ts, ts[t].link)].link = rparen]

\* A bug: the token is linked to the symbol before its link is copied.
ExpandRelinked(ts, t, symbol) == Wrapped(ts, t, symbol, Len(ts) + 1, ts[Closing(ts, ts[t].link)].link)

\* A bug: the link of the parenthesis is not set.
ExpandCutOff(ts, t, symbol) == Wrapped(ts, t, symbol, ts[t].link, EmptyPair)

\* expand_to.
Expand(ts, t, symbol) == Wrapped(ts, t, symbol, ts[t].link, ts[Closing(ts, ts[t].link)].link)
-----------------------------------------------------------------------------
(***************************************************************************)
(* recursive_create_object_from_token_stream: the object and the token     *)
(* that is left.                                                           *)
(***************************************************************************)
\* object_from_symbol: the text is looked at before the type.
AtomOf(token) ==
    IF token.text # <<>> /\ token.text[1] = "#" THEN Object("boolean", token.text)
    ELSE IF token.text # <<>> /\ token.text[1] = "1" THEN Object("number", token.text)
    ELSE Object(token.type, token.text)

Create(t) ==
    LET from[u \in 0..Len(tokens)] ==
            IF u = EmptyPair THEN [object |-> Empty, left |-> EmptyPair]
            ELSE IF tokens[u].type = TOKEN_RPAREN THEN [object |-> Empty, left |-> tokens[u].link]
            ELSE IF tokens[u].type = TOKEN_LPAREN THEN
                 LET car == from[tokens[u].link]
                     cdr == IF car.left = EmptyPair THEN [object |-> Empty, left |-> EmptyPair]
                                                    ELSE from[car.left]
                 IN  [object |-> Pair(car.object, cdr.object), left |-> cdr.left]
            ELSE LET cdr == from[tokens[u].link]
                 IN  [object |-> Pair(AtomOf(tokens[u]), cdr.object), left |-> cdr.left]
    IN  from[t]
-----------------------------------------------------------------------------
Init ==
    /\ source \in Sources
    /\ input = source.before \o WriteAll(source.data)
    /\ phase = "tokenize"
    /\ tokens = <<>> /\ head = EmptyPair /\ last = EmptyPair /\ cursor = EmptyPair
    /\ result = Empty

Goto(p) == phase' = p

Tokenize ==
    /\ phase = "tokenize" /\ input # <<>>
    /\ LET lexeme == Lexeme(input)
       IN  /\ tokens' = Append(tokens, Token(lexeme.type, lexeme.text, head))
           /\ head' = Len(tokens) + 1
           /\ input' = Rest(input, lexeme.size)
    /\ UNCHANGED <<source, phase, last, cursor, result>>

StartReverse ==
    /\ phase = "tokenize" /\ input = <<>>
    /\ cursor' = head /\ last' = EmptyPair
    /\ Goto("reverse")
    /\ UNCHANGED <<source, input, tokens, head, result>>

ReverseToken ==
    /\ phase = "reverse" /\ cursor # EmptyPair
    /\ tokens' = [tokens EXCEPT ![cursor].link = last]
    /\ last' = cursor /\ cursor' = tokens[cursor].link
    /\ UNCHANGED <<source, phase, input, head, result>>

EndReverse ==
    /\ phase = "reverse" /\ cursor = EmptyPair
    /\ head' = last
    /\ Goto("validate")
    /\ UNCHANGED <<source, input, tokens, last, cursor, result>>

\* apply_expansions does not expect the NULL of a list that is not balanced.
Validate ==
    /\ phase = "validate"
    /\ Goto(IF Count(TOKEN_LPAREN) = Count(TOKEN_RPAREN) THEN "expand" ELSE "failed")
    /\ cursor' = head
    /\ UNCHANGED <<source, input, tokens, head, last, result>>

\* A mark, alone or before a symbol; expand_to asserts that a token follows it, and links the closing
\* parenthesis behind the empty pair when it would follow the last token.
ExpandMark(n, symbol) ==
    LET split == SplitSymbol(tokens, cursor, n)
        next == split[cursor].link
        failed == \/ tokens[cursor].type = TOKEN_STRING /\ Len(tokens[cursor].text) > n
                  \/ next = EmptyPair
    IN  IF failed
        THEN Goto("failed") /\ UNCHANGED <<tokens, cursor>>
        ELSE IF Closing(split, next) = EmptyPair
        THEN Goto("overrun") /\ UNCHANGED <<tokens, cursor>>
        ELSE /\ tokens' = Expand(split, cursor, symbol)
             /\ cursor' = tokens'[cursor].link
             /\ UNCHANGED phase

\* #( becomes (vector.
ExpandVector ==
    LET next == tokens[cursor].link
    IN  IF next = EmptyPair \/ tokens[next].type # TOKEN_LPAREN
        THEN Goto("failed") /\ UNCHANGED <<tokens, cursor>>
        ELSE /\ tokens' = [tokens EXCEPT ![cursor] = Token(TOKEN_LPAREN, <<"(">>, next),
                                         ![next].type = TOKEN_SYMBOL, ![next].text = <<"vector">>]
             /\ cursor' = next
             /\ UNCHANGED phase

ApplyExpansions ==
    /\ phase = "expand" /\ cursor # EmptyPair
    /\ LET text == tokens[cursor].text
           Begins(mark) == IsPrefix(mark, text)
       IN  CASE Begins(<<"'">>)      -> ExpandMark(1, "quote")
             [] Begins(<<Grave>>)      -> ExpandMark(1, "quasiquote")
             [] text = <<"#">>       -> ExpandVector
             [] Begins(<<",", "@">>) -> ExpandMark(2, "unquote-splicing")
             [] Begins(<<",">>) /\ ~Begins(<<",", "@">>) -> ExpandMark(1, "unquote")
             [] OTHER                -> cursor' = tokens[cursor].link /\ UNCHANGED <<phase, tokens>>
    /\ UNCHANGED <<source, input, head, last, result>>

CreateObject ==
    /\ phase = "expand" /\ cursor = EmptyPair
    /\ result' = Create(head).object
    /\ Goto("done")
    /\ UNCHANGED <<source, input, tokens, head, last, cursor>>

Next ==
    \/ Tokenize \/ StartReverse
    \/ ReverseToken \/ EndReverse
    \/ Validate
    \/ ApplyExpansions \/ CreateObject

Spec == Init /\ [][Next]_vars

\* Nothing else runs meanwhile.
FairSpec == Spec /\ WF_vars(Next)
-----------------------------------------------------------------------------
TypeOK ==
    /\ phase \in {"tokenize", "reverse", "validate", "expand", "done", "failed", "overrun"}
    /\ \A t \in DOMAIN tokens : /\ tokens[t].type \in {TOKEN_LPAREN, TOKEN_RPAREN, TOKEN_SYMBOL, TOKEN_STRING}
                               /\ tokens[t].link \in 0..Len(tokens)
    /\ {head, last, cursor} \subseteq 0..Len(tokens)

\* The lists that the reader works on hold every token once, however they are relinked: the list in
\* the making and the rest of the old one while it is reversed, one list at all other times.  At no
\* step does an expansion close a list that it has not opened (read.c:318-548).
Links == IF phase = "reverse" THEN Chain(last) \o Chain(cursor) ELSE Chain(head)
Level(k) == Cardinality({i \in 1..k : tokens[Links[i]].type = TOKEN_LPAREN})
            - Cardinality({i \in 1..k : tokens[Links[i]].type = TOKEN_RPAREN})
TokensKept ==
    /\ Len(Links) = Len(tokens)
    /\ ToSet(Links) = DOMAIN tokens
    /\ phase \in {"expand", "done"} =>
           /\ \A k \in DOMAIN Links : Level(k) >= 0
           /\ Level(Len(Links)) = 0

\* What evil_read reads as it is written: no string that begins like another token or has a mark
\* before it; and no mark before a list, unless the mark is the only one and the list is the last
\* element of another.
RECURSIVE Readable(_, _)
Readable(d, isLast) ==
    LET part == d.parts[1]
    IN  CASE d.form = "string" -> d.text = <<>> \/ d.text[1] \notin {"'", Grave, ",", "#", "1"}
          [] d.form \in {"list", "vector"} -> \A i \in DOMAIN d.parts : Readable(d.parts[i], i = Len(d.parts))
          [] d.form \in Abbreviations ->
                 \/ part.form \in {"symbol", "number", "boolean"}
                 \/ part.form \in Abbreviations /\ Readable(part, FALSE)
                 \/ part.form = "list" /\ isLast /\ Readable(part, isLast)
          [] OTHER -> TRUE

\* The object that is read is the one that was written, and the empty pair is left alone, through all
\* the relinking that expand_to and split_symbol_token do in the list that their caller walks
\* (read.c:318-524): for readable data with nothing before them, and for no others.
ReadsWhatIsWritten ==
    phase \in {"done", "failed", "overrun"} =>
        (phase = "done" /\ result = MeaningOfAll(source.data)
             <=> /\ source.before = <<>>
                 /\ \A i \in DOMAIN source.data : Readable(source.data[i], FALSE))

\* evil_read returns or fails: the relinked list always ends ahead of the loop of apply_expansions.
ReadEnds == <>(phase \in {"done", "failed", "overrun"})

\* 'EXPR -> (quote EXPR), and so on (the comments of apply_expansions, read.c:474-515): whenever
\* evil_read returns, the object is the one written.
AbbreviationsAreExpanded == phase = "done" => result = MeaningOfAll(source.data)
=============================================================================
