---------------------------- MODULE HeaderStorage ----------------------------
(***************************************************************************)
(* The edited header: fields in an arena with holes                        *)
(* (src/header_edit/storage.rs) and the operations of `headers { ... }` and*)
(* formail-rs on it (src/header_edit.rs).                                  *)
(*                                                                         *)
(* A byte is a number.  A field name with its colon is one unit, a number  *)
(* in FieldNames that stands for the name up to case; FromLine starts a    *)
(* `From ` line, which has no name.  A field is its bytes, line ends       *)
(* included.  Ranges are zero-based and exclude their end, as in the code. *)
(***************************************************************************)
EXTENDS Binding, Integers, Sequences, SequencesExt

CONSTANTS FieldNames, FromLine,
          MaxGeneratedLine        \* RFC5322_HEADER_LINE_LIMIT

LF == 10
CR == 13
Space == 32
Larger2(m, n) == IF m < n THEN n ELSE m
SizeOf(range) == range.to - range.from

(***************************************************************************)
(* HeaderStore.                                                            *)
(***************************************************************************)
EmptyStore(ceiling) ==
    [bytes |-> <<>>, fields |-> <<>>, free |-> <<>>, ceiling |-> ceiling]

\* field
FieldAt(store, i) ==
    SubSeq(store.bytes, store.fields[i].from + 1, store.fields[i].to)
FieldsOf(store) == [i \in DOMAIN store.fields |-> FieldAt(store, i)]

\* field_from_bytes and matches: the name is in the first line or missing
IsNamed(field) == field # <<>> /\ field[1] \in FieldNames
HasName(field, name) == IsNamed(field) /\ field[1] = name

\* field_matches_pattern; a pattern is the set of names it stands for
MatchesPattern(field, pattern) == field # <<>> /\ field[1] \in pattern

\* coalesce_free: merge physical neighbours, give back a hole at the end
CoalesceFree(store) ==
    LET sorted == SortSeq(store.free, LAMBDA a, b : a.from < b.from)
    IN  With(FoldLeft(LAMBDA acc, r :
               IF acc # <<>> /\ Last(acc).to = r.from
               THEN Append(Front(acc), [Last(acc) EXCEPT !.to = r.to])
               ELSE Append(acc, r), <<>>, sorted), LAMBDA merged :
        LET atEnd  == merged # <<>> /\ Last(merged).to = Len(store.bytes)
        IN  [store EXCEPT !.free = IF atEnd THEN Front(merged) ELSE merged,
                          !.bytes = IF atEnd THEN SubSeq(@, 1, Last(merged).from) ELSE @])

\* copy_within of a vector
CopyWithin(bytes, range, start) ==
    [k \in DOMAIN bytes |->
        IF k \in (start + 1)..(start + SizeOf(range))
        THEN bytes[range.from + (k - start)] ELSE bytes[k]]

\* The indices of the fields in the order of their bytes
PhysicalOrder(store) ==
    SortSeq([i \in DOMAIN store.fields |-> i],
            LAMBDA i, j : store.fields[i].from < store.fields[j].from)

\* Move the fields to the front, one after the other, in the given order
MoveToFront(store, order) ==
    With(FoldLeft(LAMBDA acc, i :
            LET range == acc.fields[i]
                end   == acc.cursor + SizeOf(range)
            IN  [bytes |-> CopyWithin(acc.bytes, range, acc.cursor),
                 fields |-> InsertAt(RemoveAt(acc.fields, i), i,
                                     [from |-> acc.cursor, to |-> end]),
                 cursor |-> end],
            [bytes |-> store.bytes, fields |-> store.fields, cursor |-> 0],
            order), LAMBDA moved :
        [store EXCEPT !.bytes = SubSeq(moved.bytes, 1, moved.cursor),
                      !.fields = moved.fields, !.free = <<>>])

\* Mutant of Compact: the fields are moved in the order of the header
CompactInFieldOrder(store) ==
    MoveToFront(store, [i \in DOMAIN store.fields |-> i])

\* compact
Compact(store) == MoveToFront(store, PhysicalOrder(store))

\* The first hole that is large enough, or 0
FirstHole(store, size) ==
    LET fit == {h \in DOMAIN store.free : SizeOf(store.free[h]) >= size}
    IN  IF fit = {} THEN 0 ELSE CHOOSE h \in fit : \A g \in fit : h <= g

\* insert into a hole: its beginning is used, an empty rest disappears
InsertIntoHole(store, index, field, h) ==
    LET start == store.free[h].from
        end   == start + Len(field)
        rest  == [store.free[h] EXCEPT !.from = end]
    IN  [store EXCEPT
            !.bytes = [k \in DOMAIN @ |-> IF k \in (start + 1)..end
                                          THEN field[k - start] ELSE @[k]],
            !.free = IF SizeOf(rest) = 0 THEN RemoveAt(@, h)
                     ELSE [@ EXCEPT ![h] = rest],
            !.fields = InsertAt(@, index + 1, [from |-> start, to |-> end])]

\* insert: a hole, the end of the arena, or the end after compaction
Insert(store, index, field) ==
    LET h      == FirstHole(store, Len(field))
        full   == Len(store.bytes) + Len(field) > store.ceiling
    IN  With(IF h = 0 /\ full THEN Compact(store) ELSE store, LAMBDA target :
        LET start  == Len(target.bytes)
            end    == start + Len(field)
        IN  IF field = <<>> THEN <<"value", store>>
            ELSE IF h # 0 THEN <<"none", InsertIntoHole(store, index, field, h)>>
            ELSE IF end > store.ceiling THEN <<"headers", target>>
            ELSE <<"none", [target EXCEPT
                    !.bytes = @ \o field,
                    !.fields = InsertAt(@, index + 1, [from |-> start, to |-> end])]>>)

\* HeaderStore::new: <<error, store>>
NewStore(fields, ceiling) ==
    FoldLeft(LAMBDA acc, field :
                IF acc[1] # "none" THEN acc
                ELSE Insert(acc[2], Len(acc[2].fields), field),
             <<"none", EmptyStore(ceiling)>>, fields)

\* remove
RemoveField(store, i) ==
    CoalesceFree([store EXCEPT !.fields = RemoveAt(@, i),
                               !.free = Append(@, store.fields[i])])

\* retain, then merge the holes once
Retain(store, keep) ==
    LET indices == [i \in DOMAIN store.fields |-> i]
        kept    == SelectSeq(indices, LAMBDA i : i \in keep)
        dropped == SelectSeq(indices, LAMBDA i : i \notin keep)
    IN  CoalesceFree([store EXCEPT
            !.fields = [i \in DOMAIN kept |-> store.fields[kept[i]]],
            !.free = @ \o [i \in DOMAIN dropped |-> store.fields[dropped[i]]]])

\* remove_matching
RemoveMatching(store, name) ==
    Retain(store, {i \in DOMAIN store.fields : ~HasName(FieldAt(store, i), name)})

\* remove_matching_pattern
RemoveMatchingPattern(store, pattern) ==
    Retain(store, {i \in DOMAIN store.fields :
                      ~MatchesPattern(FieldAt(store, i), pattern)})

\* make_unique_first
MakeUniqueFirst(store, pattern) ==
    Retain(store, {i \in DOMAIN store.fields :
        \/ ~MatchesPattern(FieldAt(store, i), pattern)
        \/ \A j \in 1..(i - 1) : FieldAt(store, j)[1] # FieldAt(store, i)[1]})

\* make_unique_last
MakeUniqueLast(store, pattern) ==
    Retain(store, {i \in DOMAIN store.fields :
        \/ ~MatchesPattern(FieldAt(store, i), pattern)
        \/ \A j \in (i + 1)..Len(store.fields) :
                FieldAt(store, j)[1] # FieldAt(store, i)[1]})

\* Put another field in the place of a field: remove, then insert
Replace(store, i, field) == Insert(RemoveField(store, i), i - 1, field)

\* The loops that replace fields, field i by new[i]: they pass over a field
\* that stays as it is and stop at the first error
ReplaceEach(store, new) ==
    FoldLeft(LAMBDA acc, i :
                IF acc[1] # "none" \/ new[i] = FieldAt(acc[2], i) THEN acc
                ELSE Replace(acc[2], i, new[i]),
             <<"none", store>>, [i \in DOMAIN store.fields |-> i])

WithName(field, name) == <<name>> \o Tail(field)

\* rename_matching_pattern
RenameMatchingPattern(store, pattern, to) ==
    With(FieldsOf(store), LAMBDA fields :
        ReplaceEach(store, [i \in DOMAIN fields |->
            IF IsNamed(fields[i]) /\ MatchesPattern(fields[i], pattern)
            THEN WithName(fields[i], to) ELSE fields[i]]))

\* prepend_prefix_to_matching; prefixed gives the name with the prefix
PrependPrefix(store, pattern, prefixed) ==
    With(FieldsOf(store), LAMBDA fields :
        ReplaceEach(store, [i \in DOMAIN fields |->
            IF IsNamed(fields[i]) /\ MatchesPattern(fields[i], pattern)
            THEN WithName(fields[i], prefixed[fields[i][1]]) ELSE fields[i]]))

\* unfold_field_bytes: the line end before a blank becomes a space
Unfold(field) ==
    LET folds == {k \in 1..(Len(field) - 1) : field[k] = LF /\ field[k + 1] = Space}
        kept  == SelectSeq([k \in DOMAIN field |-> k],
                           LAMBDA k : ~(field[k] = CR /\ k + 1 \in folds))
    IN  [k \in DOMAIN kept |-> IF kept[k] \in folds THEN Space ELSE field[kept[k]]]

\* concatenate_continued: a From line keeps its continuation lines
ConcatenateContinued(store) ==
    With(FieldsOf(store), LAMBDA fields :
        ReplaceEach(store, [i \in DOMAIN fields |->
            IF fields[i][1] = FromLine THEN fields[i] ELSE Unfold(fields[i])]))

\* strip_line_ending
StripLineEnding(text) ==
    IF text = <<>> \/ Last(text) # LF THEN text
    ELSE IF Len(text) > 1 /\ text[Len(text) - 1] = CR
    THEN SubSeq(text, 1, Len(text) - 2) ELSE Front(text)

\* zap_whitespace: a removed field leaves the index where it is
ZapWhitespace(store) ==
    LET step(acc, k) ==
            LET i == acc[3]
                f == FieldAt(acc[2], i)
            IN  IF acc[1] # "none" THEN acc
                ELSE IF ~IsNamed(f) THEN <<acc[1], acc[2], i + 1>>
                ELSE IF StripLineEnding(Tail(f)) = <<Space>>
                THEN <<"none", RemoveField(acc[2], i), i>>
                ELSE IF Len(f) > 1 /\ f[2] \notin {Space, CR, LF}
                THEN With(Replace(acc[2], i, <<f[1], Space>> \o Tail(f)), LAMBDA r :
                         <<r[1], r[2], i + 1>>)
                ELSE <<acc[1], acc[2], i + 1>>
    IN  With(FoldLeft(step, <<"none", store, 1>>, store.fields), LAMBDA done :
            <<done[1], done[2]>>)
=============================================================================
