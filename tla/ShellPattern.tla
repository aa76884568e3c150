---------------------------- MODULE ShellPattern ----------------------------
(***************************************************************************)
(* The shell patterns of src/config/shell_pattern.rs, used by ${V#pat},    *)
(* ${V%pat} and ${V^pat}: a pattern is cut into tokens, and one row of     *)
(* automaton states is moved over the value.  Bytes are numbers; a text is *)
(* a sequence of bytes.                                                    *)
(***************************************************************************)
EXTENDS Binding, Integers, Sequences, SequencesExt

CONSTANT MaxPatternSteps      \* MAX_PATTERN_STEPS

(***************************************************************************)
(* The bytes with a meaning in a pattern.                                  *)
(***************************************************************************)
Bang == 33
Star == 42
Dash == 45
Question == 63
Open == 91
Backslash == 92
Close == 93
Caret == 94

NoMatch == -1
TooComplex == <<-1>>          \* PatternError, never the text of a value

Literal(b) == [k |-> "literal", byte |-> b]
AnyByte == [k |-> "any"]
AnyBytes == [k |-> "star"]

\* ByteClass::matches
ClassMatches(token, b) ==
    (\E i \in DOMAIN token.ranges :
        token.ranges[i][1] <= b /\ b <= token.ranges[i][2]) # token.negated

(***************************************************************************)
(* parse_class: `at` is the position behind the bracket.  ClassBytes reads *)
(* the (byte, quoted) pairs up to the closing bracket, ClassRanges joins   *)
(* x-y when the dash is not quoted.                                        *)
(***************************************************************************)
RECURSIVE ClassBytes(_, _, _)
ClassBytes(p, at, bytes) ==
    IF at > Len(p) \/ p[at] = Close
    THEN [bytes |-> bytes, at |-> at]
    ELSE IF p[at] = Backslash /\ at < Len(p)
         THEN ClassBytes(p, at + 2, Append(bytes, <<p[at + 1], TRUE>>))
         ELSE ClassBytes(p, at + 1, Append(bytes, <<p[at], FALSE>>))

RECURSIVE ClassRanges(_, _)
ClassRanges(bytes, i) ==
    IF i > Len(bytes) THEN <<>>
    ELSE IF i + 2 <= Len(bytes) /\ bytes[i + 1] = <<Dash, FALSE>>
         THEN <<<<bytes[i][1], bytes[i + 2][1]>>>> \o ClassRanges(bytes, i + 3)
         ELSE <<<<bytes[i][1], bytes[i][1]>>>> \o ClassRanges(bytes, i + 1)

ParseClass(p, at) ==
    LET negated == at <= Len(p) /\ p[at] \in {Bang, Caret}
        first   == IF negated THEN at + 1 ELSE at
        leading == first <= Len(p) /\ p[first] = Close
    IN  With(ClassBytes(p, IF leading THEN first + 1 ELSE first,
                        IF leading THEN <<<<Close, FALSE>>>> ELSE <<>>), LAMBDA read :
        LET valid   == read.at <= Len(p) /\ read.bytes # <<>>
        IN  [valid  |-> valid,
             next   |-> read.at + 1,
             token  |-> [k |-> "class", negated |-> negated,
                         ranges |-> ClassRanges(read.bytes, 1)]])

\* tokenize: adjacent stars become one token
RECURSIVE TokenizeFrom(_, _, _)
TokenizeFrom(p, at, tokens) ==
    IF at > Len(p) THEN tokens
    ELSE CASE p[at] = Backslash /\ at < Len(p) ->
                TokenizeFrom(p, at + 2, Append(tokens, Literal(p[at + 1])))
           [] p[at] = Star ->
                TokenizeFrom(p, at + 1,
                    IF tokens # <<>> /\ Last(tokens) = AnyBytes
                    THEN tokens ELSE Append(tokens, AnyBytes))
           [] p[at] = Question ->
                TokenizeFrom(p, at + 1, Append(tokens, AnyByte))
           [] p[at] = Open ->
                With(ParseClass(p, at + 1), LAMBDA class :
                    IF class.valid
                    THEN TokenizeFrom(p, class.next, Append(tokens, class.token))
                    ELSE TokenizeFrom(p, at + 1, Append(tokens, Literal(Open))))
           [] OTHER -> TokenizeFrom(p, at + 1, Append(tokens, Literal(p[at])))

Tokenize(p) == TokenizeFrom(p, 1, <<>>)

(***************************************************************************)
(* The automaton.  State i says that the first i tokens have matched what  *)
(* was read so far.                                                        *)
(***************************************************************************)
TokenMatches(token, b) ==
    CASE token.k = "any" -> TRUE
      [] token.k = "literal" -> token.byte = b
      [] token.k = "class" -> ClassMatches(token, b)
      [] token.k = "star" -> FALSE

\* close_stars: in token order, so that a closure closes the next star too
CloseStars(states, tokens) ==
    FoldLeftDomain(LAMBDA s, i : IF i - 1 \in s /\ tokens[i] = AnyBytes
                                 THEN s \union {i} ELSE s, states, tokens)

\* One byte of matching_endpoint_unchecked
StepStates(states, tokens, b) ==
    CloseStars({i \in states : i < Len(tokens) /\ tokens[i + 1] = AnyBytes}
               \union {i + 1 : i \in {j \in states : j < Len(tokens) /\
                                          TokenMatches(tokens[j + 1], b)}},
               tokens)

RECURSIVE Endpoint(_, _, _, _, _, _)
Endpoint(input, tokens, longest, states, offset, matched) ==
    LET now == IF Len(tokens) \in states THEN offset ELSE matched
    IN  IF offset = Len(input) \/ (now = offset /\ ~longest)
        THEN now
        ELSE Endpoint(input, tokens, longest,
                      StepStates(states, tokens, input[offset + 1]),
                      offset + 1, now)

\* Mutant of MatchingEndpointUnchecked: the stars are not closed before the
\* first byte, so a leading star does not match the empty text
EndpointWithoutClosure(input, tokens, longest) ==
    Endpoint(input, tokens, longest, {0}, 0, NoMatch)

MatchingEndpointUnchecked(input, tokens, longest) ==
    Endpoint(input, tokens, longest, CloseStars({0}, tokens), 0, NoMatch)

\* check_steps
TransitionCost(tokens) ==
    FoldLeft(LAMBDA n, t : n + IF t.k = "class" THEN Len(t.ranges) ELSE 1,
             0, tokens)

WithinSteps(candidates, length, tokens) ==
    With(TransitionCost(tokens), LAMBDA cost :
        candidates * (length + 1) * (IF cost = 0 THEN 1 ELSE cost)
            <= MaxPatternSteps)

\* remove: a suffix is matched backwards, tokens and bytes reversed
RemoveMatch(value, pattern, edge, longest) ==
    LET turned(s) == IF edge = "suffix" THEN Reverse(s) ELSE s
    IN  With(turned(Tokenize(pattern)), LAMBDA tokens :
        LET input  == turned(value)
        IN  With(MatchingEndpointUnchecked(input, tokens, longest), LAMBDA n :
                CASE ~WithinSteps(1, Len(value), tokens) -> TooComplex
                  [] n = NoMatch -> value
                  [] edge = "prefix" -> SubSeq(value, n + 1, Len(value))
                  [] OTHER -> SubSeq(value, 1, Len(value) - n)))

ToUpper(b) == IF b \in 97..122 THEN b - 32 ELSE b
ToLower(b) == IF b \in 65..90 THEN b + 32 ELSE b

\* transform_matching_bytes with the transform of change_case
ChangeCase(value, pattern, upper, all) ==
    With(Tokenize(IF pattern = <<>> THEN <<Question>> ELSE pattern), LAMBDA tokens :
    LET candidates == IF all THEN Len(value) ELSE IF value = <<>> THEN 0 ELSE 1
        changes(i) == /\ i <= candidates
                      /\ MatchingEndpointUnchecked(<<value[i]>>, tokens, TRUE) = 1
    IN  IF ~WithinSteps(candidates, 1, tokens) THEN TooComplex
        ELSE [i \in DOMAIN value |->
                IF ~changes(i) THEN value[i]
                ELSE IF upper THEN ToUpper(value[i]) ELSE ToLower(value[i])])

(***************************************************************************)
(* What the shell manual says: a token list matches a text if the text can *)
(* be cut into pieces that the tokens match.                               *)
(***************************************************************************)
RECURSIVE Matches(_, _)
Matches(tokens, text) ==
    IF tokens = <<>> THEN text = <<>>
    ELSE IF Head(tokens) = AnyBytes
         THEN \E n \in 0..Len(text) :
                Matches(Tail(tokens), SubSeq(text, n + 1, Len(text)))
         ELSE /\ text # <<>>
              /\ TokenMatches(Head(tokens), Head(text))
              /\ Matches(Tail(tokens), Tail(text))

\* The lengths of the prefixes or suffixes of a value that a pattern matches
MatchLengths(value, pattern, edge) ==
    {n \in 0..Len(value) :
        Matches(Tokenize(pattern),
                IF edge = "prefix" THEN SubSeq(value, 1, n)
                ELSE SubSeq(value, Len(value) - n + 1, Len(value)))}

RemoveByDefinition(value, pattern, edge, longest) ==
    With(MatchLengths(value, pattern, edge), LAMBDA lengths :
    LET n == CHOOSE n \in lengths :
                \A m \in lengths : IF longest THEN m <= n ELSE n <= m
    IN  IF lengths = {} THEN value
        ELSE IF edge = "prefix" THEN SubSeq(value, n + 1, Len(value))
        ELSE SubSeq(value, 1, Len(value) - n))
=============================================================================
