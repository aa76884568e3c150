------------------------------ MODULE Formail ------------------------------
(***************************************************************************)
(* formail-rs (src/bin/formail-rs.rs): the options are applied to the      *)
(* header in a fixed order, whatever their order on the command line; then *)
(* fields are extracted or the message is written, and the body is copied  *)
(* buffer by buffer with its From lines quoted.                            *)
(*                                                                         *)
(* The options are a record: rename is a sequence of [pattern, to], the    *)
(* others are sequences of patterns or of raw fields.  A pattern is the set*)
(* of names it stands for.                                                 *)
(***************************************************************************)
EXTENDS HeaderEdit

CONSTANTS Prefixed,       \* the name with "Old-" in front, by name
          Postmark,       \* Postmark::generated, a line
          FromTarget,     \* the bytes of "From " in a body
          QuotePrefix,    \* -p, or ">"
          MaxQuotes,      \* 1024
          MessageIdNames, \* Message-ID and Resent-Message-ID
          GeneratedId     \* the text of a generated identifier

GreaterThan == 62

\* add_raw_field: a line end is added, the value is taken as it is
AddRawField(store, raw, ending) ==
    Insert(store, Len(store.fields), IF Last(raw) = LF THEN raw ELSE raw \o ending)

\* has_matching_pattern
HasMatching(store, pattern) ==
    \E i \in DOMAIN store.fields : MatchesPattern(FieldAt(store, i), pattern)

\* -a: a Message-ID with a blank value is generated
AddIfNot(raw) ==
    IF /\ raw[1] \in MessageIdNames
       /\ \A i \in 2..Len(raw) : raw[i] \in {Space, CR, LF}
    THEN <<raw[1]>> \o GeneratedId ELSE raw

\* A loop over the arguments of an option that stops at the first error
ForEach(acc, items, step(_, _)) ==
    FoldLeft(LAMBDA a, item : IF a[1] # "none" THEN a ELSE step(a[2], item), acc, items)
Always(store) == <<"none", store>>

\* run, steps 1 to 9 and finish: <<error, header>>
ApplyOptions(h, o) ==
    LET start   == Always(Writable(h).store)
    IN  With(ForEach(start, o.rename, LAMBDA s, r :
                     RenameMatchingPattern(s, r.pattern, r.to)), LAMBDA renamed :
        With(ForEach(renamed, o.old, LAMBDA s, p : PrependPrefix(s, p, Prefixed)), LAMBDA old :
        With(ForEach(old, o.delete, LAMBDA s, p :
                     Always(RemoveMatchingPattern(s, p))), LAMBDA deleted :
        With(ForEach(deleted, o.first, LAMBDA s, p : Always(MakeUniqueFirst(s, p))), LAMBDA first :
        With(ForEach(first, o.last, LAMBDA s, p : Always(MakeUniqueLast(s, p))), LAMBDA last :
        With(ForEach(last, o.absent, LAMBDA s, raw :
                     IF HasMatching(s, {raw[1]}) THEN Always(s)
                     ELSE AddRawField(s, AddIfNot(raw), h.ending)), LAMBDA absent :
        With(ForEach(absent, o.add, LAMBDA s, raw : AddRawField(s, raw, h.ending)), LAMBDA added :
        With(IF o.concatenate /\ added[1] = "none"
             THEN ConcatenateContinued(added[2]) ELSE added, LAMBDA joined :
        With(IF o.zap /\ joined[1] = "none"
             THEN ZapWhitespace(joined[2]) ELSE joined, LAMBDA zapped :
        With(Finish([h EXCEPT !.store = zapped[2]], 0), LAMBDA done :
            IF zapped[1] # "none" THEN <<zapped[1], h>> ELSE done))))))))))

\* extract_fields: the values or the fields, each with a line end
ExtractFields(h, pattern, whole, concatenate, zap) ==
    LET chosen == SelectSeq(FieldsOf(h.store), LAMBDA f : MatchesPattern(f, pattern))
        part(f) == IF whole THEN f ELSE IF IsNamed(f) THEN Tail(f) ELSE <<>>
        text(f) == IF concatenate THEN Unfold(part(f)) ELSE part(f)
        shown(t) == {k \in DOMAIN t : t[k] # Space}
        trim(t) == IF shown(t) = {} THEN <<>>
                   ELSE SubSeq(t, CHOOSE k \in shown(t) : \A j \in shown(t) : k <= j,
                                  CHOOSE k \in shown(t) : \A j \in shown(t) : j <= k)
        line(t) == IF zap /\ ~whole THEN Append(trim(StripLineEnding(t)), LF)
                   ELSE IF t # <<>> /\ Last(t) = LF THEN t ELSE Append(t, LF)
    IN  FlattenSeq([i \in DOMAIN chosen |-> line(text(chosen[i]))])

\* The output of run before the body
WriteHeader(h, o) ==
    With(Serialized(h), LAMBDA bytes :
    LET hasFrom == h.store.fields # <<>> /\ FieldAt(h.store, 1)[1] = FromLine
    IN  With(IsSuffix(<<LF, LF>>, bytes) \/ IsSuffix(<<CR, LF, CR, LF>>, bytes), LAMBDA ended :
            (IF hasFrom \/ o.force THEN <<>> ELSE Postmark) \o bytes \o
            (IF ended THEN <<>> ELSE <<LF>>)))

Extracting(o) == o.values # <<>> \/ o.fields # <<>>

\* The output of run before the body: extracted fields, or the header
WriteHead(h, o) ==
    LET each(patterns, whole) == FlattenSeq([i \in DOMAIN patterns |->
            ExtractFields(h, patterns[i], whole, o.concatenate, o.zap)])
    IN  IF ~Extracting(o) THEN WriteHeader(h, o)
        ELSE each(o.values, FALSE) \o each(o.fields, TRUE) \o
             (IF o.keep THEN <<LF>> ELSE <<>>)

(***************************************************************************)
(* stream_body.  The scanner keeps the beginning of a line that may still  *)
(* become a From line across the buffers it is given.                      *)
(***************************************************************************)
NewScanner == [start |-> TRUE, prefix |-> <<>>, out |-> <<>>]

Quotes(prefix) ==
    LET other == {k \in DOMAIN prefix : prefix[k] # GreaterThan}
    IN  IF other = {} THEN Len(prefix)
        ELSE (CHOOSE k \in other : \A j \in other : k <= j) - 1

\* The beginning is not the one of a From line: it is written as it is
Flush(s) == [s EXCEPT !.out = @ \o s.prefix, !.prefix = <<>>, !.start = FALSE]

\* A byte inside a line
InLine(s, byte) == [s EXCEPT !.out = Append(@, byte), !.start = byte = LF]

\* One byte of the buffer
ScanByte(s, byte) ==
    LET quotes  == Quotes(s.prefix)
        matched == Len(s.prefix) - quotes
        longer  == [s EXCEPT !.prefix = Append(@, byte)]
    IN  IF ~s.start THEN InLine(s, byte)
        ELSE IF matched = 0 /\ byte = GreaterThan
        THEN IF Len(s.prefix) < MaxQuotes THEN longer ELSE InLine(Flush(s), byte)
        ELSE IF byte = FromTarget[matched + 1]
        THEN IF matched + 1 < Len(FromTarget) THEN longer
             ELSE Flush([longer EXCEPT !.out = @ \o QuotePrefix])
        ELSE InLine(Flush(s), byte)

\* Mutant of ScanBuffer: the beginning of a line is forgotten between buffers
ScanBufferAlone(s, buffer) ==
    Flush(FoldLeft(ScanByte, s, buffer))

\* One turn of the loop of stream_body
ScanBuffer(s, buffer) == FoldLeft(ScanByte, s, buffer)

\* -b: the body is copied as it is
CopyBuffer(s, buffer) == [s EXCEPT !.out = @ \o buffer]

\* The end of the input
ScanEnd(s) == s.out \o s.prefix

(***************************************************************************)
(* What formail-rs means, for a header as a list of fields and for a body  *)
(* as a list of lines.                                                     *)
(***************************************************************************)
Chosen(f, patterns) == \E i \in DOMAIN patterns : MatchesPattern(f, patterns[i])
Mapped(list, change(_)) == [i \in DOMAIN list |-> change(list[i])]
Ended(raw, ending) == IF Last(raw) = LF THEN raw ELSE raw \o ending

RenameMeaning(list, r) ==
    Mapped(list, LAMBDA f : IF IsNamed(f) /\ f[1] \in r.pattern
                            THEN WithName(f, r.to) ELSE f)
OldMeaning(list, p) ==
    Mapped(list, LAMBDA f : IF IsNamed(f) /\ f[1] \in p
                            THEN WithName(f, Prefixed[f[1]]) ELSE f)

\* Keep a field when no other one of its name is on the given side
UniqueMeaning(list, patterns, others(_)) ==
    LET kept == SelectSeq([i \in DOMAIN list |-> i], LAMBDA i :
                    ~Chosen(list[i], patterns) \/
                    \A j \in others(i) : list[j][1] # list[i][1])
    IN  [i \in DOMAIN kept |-> list[kept[i]]]

AbsentMeaning(list, raw, ending) ==
    IF \E i \in DOMAIN list : list[i][1] = raw[1] THEN list
    ELSE Append(list, Ended(AddIfNot(raw), ending))
ZapMeaning(list) ==
    LET shown == SelectSeq(list, LAMBDA f : ~IsNamed(f) \/ Tail(f) \notin
                                {<<Space>>, <<Space, LF>>, <<Space, CR, LF>>})
    IN  Mapped(shown, LAMBDA f : IF IsNamed(f) /\ Len(f) > 1
                                    /\ f[2] \notin {Space, CR, LF}
                                 THEN <<f[1], Space>> \o Tail(f) ELSE f)

\* The lists behind every step, the last one is the result
FormailMeaning(list, o, ending) ==
    With(FoldLeft(RenameMeaning, list, o.rename), LAMBDA renamed :
    With(FoldLeft(OldMeaning, renamed, o.old), LAMBDA old :
    LET deleted == SelectSeq(old, LAMBDA f : ~Chosen(f, o.delete))
    IN  With(UniqueMeaning(deleted, o.first, LAMBDA i : 1..(i - 1)), LAMBDA first :
        With(UniqueMeaning(first, o.last, LAMBDA i : (i + 1)..Len(first)), LAMBDA last :
        With(FoldLeft(LAMBDA l, raw : AbsentMeaning(l, raw, ending), last, o.absent), LAMBDA absent :
        LET added   == absent \o Mapped(o.add, LAMBDA raw : Ended(raw, ending))
        IN  With(IF o.concatenate
                 THEN Mapped(added, LAMBDA f : IF f[1] = FromLine THEN f ELSE Unfold(f))
                 ELSE added, LAMBDA joined :
                <<renamed, old, added, joined, IF o.zap THEN ZapMeaning(joined) ELSE joined>>))))))

\* A From line: some quotes, not too many, then the target
IsFromLine(line) ==
    \E q \in 0..MaxQuotes :
        /\ q + Len(FromTarget) <= Len(line)
        /\ \A k \in 1..q : line[k] = GreaterThan
        /\ SubSeq(line, q + 1, q + Len(FromTarget)) = FromTarget

\* The body with every From line quoted once more
QuotedBody(body) ==
    LET starts == SetToSortSeq(LineStarts(body), <)
        line(n) == SubSeq(body, starts[n], IF n = Len(starts) THEN Len(body)
                                           ELSE starts[n + 1] - 1)
    IN  FlattenSeq([n \in DOMAIN starts |->
            (IF IsFromLine(line(n)) THEN QuotePrefix ELSE <<>>) \o line(n)])
=============================================================================
