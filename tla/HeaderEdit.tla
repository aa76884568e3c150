----------------------------- MODULE HeaderEdit -----------------------------
(***************************************************************************)
(* `headers { ... }` actions (src/header_edit.rs) on an edited header      *)
(* (EditedHeader of src/header_edit/storage.rs): the fields, the blank line*)
(* behind them, the preferred line end and the size of the serialized      *)
(* header.  keywords and status operations are not modelled; priority      *)
(* stands for the operations that set or remove a group of fields.         *)
(***************************************************************************)
EXTENDS HeaderStorage

CONSTANTS Limits,         \* MessageLimits: headers, line, field, message
          PriorityFields, \* the fields of HeaderPriorityMode, with their texts
          MaxExtracted    \* MAX_ASSIGNMENT_VALUE_LEN

(***************************************************************************)
(* Raw header bytes.                                                       *)
(***************************************************************************)
LineStarts(bytes) ==
    {i \in DOMAIN bytes : i = 1 \/ bytes[i - 1] = LF}

\* header_separator_start, one-based; Len + 1 when there is no blank line
SeparatorStart(bytes) ==
    LET blank == {i \in LineStarts(bytes) :
                    \/ bytes[i] = LF
                    \/ i < Len(bytes) /\ bytes[i] = CR /\ bytes[i + 1] = LF}
    IN  IF blank = {} THEN Len(bytes) + 1
        ELSE CHOOSE i \in blank : \A j \in blank : i <= j

\* preferred_line_ending: the one of the first line
PreferredLineEnding(bytes) ==
    LET ends == {i \in DOMAIN bytes : bytes[i] = LF}
        first == CHOOSE i \in ends : \A j \in ends : i <= j
    IN  IF ends # {} /\ first > 1 /\ bytes[first - 1] = CR THEN <<CR, LF>> ELSE <<LF>>

\* HeaderFields over raw bytes: a line and its continuation lines
RawFields(content) ==
    With(SetToSortSeq({i \in LineStarts(content) :
                           i = 1 \/ content[i] # Space}, <), LAMBDA starts :
        [n \in DOMAIN starts |-> SubSeq(content, starts[n],
            IF n = Len(starts) THEN Len(content) ELSE starts[n + 1] - 1)])

\* EditedHeader::new and the reindexing of finish, with split_fields
Indexed(bytes, ceiling) ==
    With(SeparatorStart(bytes), LAMBDA start :
    With(NewStore(RawFields(SubSeq(bytes, 1, start - 1)), ceiling), LAMBDA store :
        [store |-> store[2], sep |-> SubSeq(bytes, start, Len(bytes)),
         ending |-> PreferredLineEnding(bytes), size |-> Len(bytes)]))

NewHeader(bytes) == Indexed(bytes, Larger2(Limits.headers, Len(bytes)))

\* joining_line_ending: a lone CR stays data
JoiningLineEnding(previous, preferred) ==
    IF Last(previous) = CR /\ preferred = <<LF>> THEN <<CR, LF>> ELSE preferred

\* header_parts, as_bytes
Serialized(h) ==
    LET fields == FieldsOf(h.store)
    IN  FlattenSeq([i \in DOMAIN fields |->
            (IF i > 1 /\ Last(fields[i - 1]) # LF
             THEN JoiningLineEnding(fields[i - 1], h.ending) ELSE <<>>)
            \o fields[i]]) \o h.sep

(***************************************************************************)
(* Limits.                                                                 *)
(***************************************************************************)
\* validate_aggregate_size
AggregateError(h, bodyLen) ==
    IF Len(Serialized(h)) > Limits.headers THEN "headers"
    ELSE IF Len(Serialized(h)) + bodyLen > Limits.message THEN "message"
    ELSE "none"

\* validate_header_parts: the lines up to the blank line, fields with folds
PartsError(bytes, bodyLen) ==
    With(SubSeq(bytes, 1, SeparatorStart(bytes) - 1), LAMBDA content :
    LET starts  == LineStarts(content)
        end(i)  == IF \E j \in starts : j > i
                   THEN (CHOOSE j \in starts : j > i /\ \A k \in starts :
                                                  k > i => j <= k) - 1
                   ELSE Len(content)
    IN  With(RawFields(content), LAMBDA fields :
            IF Len(bytes) > Limits.headers THEN "headers"
            ELSE IF Len(bytes) + bodyLen > Limits.message THEN "message"
            ELSE IF \E i \in starts : end(i) - i + 1 > Limits.line THEN "line"
            ELSE IF \E i \in DOMAIN fields : Len(fields[i]) > Limits.field THEN "field"
            ELSE "none"))

\* store_mut: growth is measured against the size before the action
Writable(h) ==
    [h EXCEPT !.store.ceiling = Larger2(h.size, Limits.headers)]

\* finish: the size is known again, the header is split again if it must be
Finish(h, bodyLen) ==
    With(Serialized(h), LAMBDA bytes :
    LET fields  == FieldsOf(h.store)
        reindex == \E i \in 2..Len(fields) :
                        fields[i][1] = Space \/ Last(fields[i - 1]) # LF
    IN  With(IF reindex THEN Indexed(bytes, Limits.headers) ELSE h, LAMBDA again :
            <<PartsError(bytes, bodyLen),
              [again EXCEPT !.size = Len(bytes),
                            !.ending = PreferredLineEnding(bytes)]>>))

(***************************************************************************)
(* Operations.  An operation is a record with op, name and, where it has   *)
(* one, text, to or mode.  Results are <<error, header>>.                  *)
(***************************************************************************)
Control(text) == \E i \in DOMAIN text : text[i] < 32

\* make_field with validate_generated_header_value and serialize_ascii
FieldError(text) ==
    IF Control(text) THEN "value"
    ELSE IF Len(text) + 2 > MaxGeneratedLine THEN "generated" ELSE "none"
MakeField(name, text, ending) == <<name, Space>> \o text \o ending

Named(h, name) ==
    SelectSeq([i \in DOMAIN h.store.fields |-> i],
              LAMBDA i : HasName(FieldAt(h.store, i), name))

\* remove_field
RemoveNamed(h, name) ==
    IF Named(h, name) = <<>> THEN h
    ELSE [h EXCEPT !.store = RemoveMatching(Writable(h).store, name)]

InsertField(h, index, name, text) ==
    With(Insert(Writable(h).store, index, MakeField(name, text, h.ending)), LAMBDA r :
        IF FieldError(text) # "none" THEN <<FieldError(text), h>>
        ELSE <<r[1], [h EXCEPT !.store = r[2]]>>)

\* set_field: the first place is kept, later fields go
SetField(h, name, text) ==
    With(Named(h, name), LAMBDA found :
    LET same  == Len(found) = 1 /\
                 FieldAt(h.store, found[1]) = MakeField(name, text, h.ending)
        place == IF found = <<>> THEN Len(h.store.fields) ELSE found[1] - 1
    IN  IF FieldError(text) = "none" /\ same THEN <<"none", h>>
        ELSE InsertField(IF FieldError(text) = "none" THEN RemoveNamed(h, name) ELSE h,
                         place, name, text))

\* Rename: every field keeps its place and its text
RenameFields(h, from, to) ==
    With(ReplaceEach(Writable(h).store, [i \in DOMAIN h.store.fields |->
            With(FieldAt(h.store, i), LAMBDA f :
                IF HasName(f, from) THEN WithName(f, to) ELSE f)]), LAMBDA r :
        <<r[1], [h EXCEPT !.store = r[2]]>>)

\* apply_priority
ApplyPriority(h, mode) ==
    IF mode = "clear"
    THEN <<"none", FoldLeft(LAMBDA acc, n : RemoveNamed(acc, n[1]),
                            h, PriorityFields)>>
    ELSE FoldLeft(LAMBDA acc, n : IF acc[1] # "none" THEN acc
                                  ELSE SetField(acc[2], n[1], n[2]),
                  <<"none", h>>, PriorityFields)

\* unfold_value: the lines without their leading blanks, joined by a space
UnfoldValue(text) ==
    LET starts  == SetToSortSeq(LineStarts(text), <)
        line(n) == StripLineEnding(SubSeq(text, starts[n],
                      IF n = Len(starts) THEN Len(text) ELSE starts[n + 1] - 1))
        shown(l) == {k \in DOMAIN l : l[k] # Space}
        trim(l) == IF shown(l) = {} THEN <<>>
                   ELSE SubSeq(l, CHOOSE k \in shown(l) :
                                    \A j \in shown(l) : k <= j, Len(l))
    IN  FlattenSeq([n \in DOMAIN starts |->
            (IF n = 1 THEN <<>> ELSE <<Space>>) \o trim(line(n))])

\* extract_value of the first field, nothing when there is none: <<error, text>>
Extract(h, name, mode) ==
    With(Named(h, name), LAMBDA found :
    LET value == IF found = <<>> THEN <<>> ELSE Tail(FieldAt(h.store, found[1]))
    IN  With(IF mode = "raw" THEN StripLineEnding(value) ELSE UnfoldValue(value), LAMBDA text :
            IF Len(text) > MaxExtracted THEN <<"extracted", <<>>>> ELSE <<"none", text>>))

\* One operation, without the check of the limits
Operate(h, op) ==
    CASE op.op = "remove" -> <<"none", RemoveNamed(h, op.field)>>
      [] op.op = "set" -> SetField(h, op.field, op.text)
      [] op.op = "add" -> InsertField(h, Len(h.store.fields), op.field, op.text)
      [] op.op = "prepend" -> InsertField(h, 0, op.field, op.text)
      [] op.op = "rename" -> RenameFields(h, op.field, op.to)
      [] op.op = "priority" -> ApplyPriority(h, op.mode)
      [] op.op = "extract" -> <<Extract(h, op.field, op.mode)[1], h>>

\* apply_header_action, one turn of its loop
ApplyOperation(acc, op, bodyLen) ==
    With(Operate(acc.header, op), LAMBDA done :
    With(IF done[1] # "none" THEN done[1]
         ELSE AggregateError(done[2], bodyLen), LAMBDA error :
        IF acc.err # "none" THEN acc
        ELSE [err |-> error, header |-> done[2],
              found |-> IF op.op # "extract" THEN acc.found
                        ELSE Append(acc.found,
                                    <<op.name, Extract(acc.header, op.field, op.mode)[2]>>)]))

\* apply_header_action: the header of the caller is replaced as a whole
ApplyHeaderAction(h, ops, bodyLen) ==
    With(FoldLeft(LAMBDA acc, op : ApplyOperation(acc, op, bodyLen),
                  [err |-> "none", header |-> h, found |-> <<>>], ops), LAMBDA edited :
    With(Finish(edited.header, bodyLen), LAMBDA done :
        IF edited.err # "none" THEN [edited EXCEPT !.header = h, !.found = <<>>]
        ELSE IF done[1] # "none" THEN [err |-> done[1], header |-> h, found |-> <<>>]
        ELSE [edited EXCEPT !.header = done[2]]))

(***************************************************************************)
(* What the operations mean for a header as a list of fields.              *)
(***************************************************************************)
Without(list, name) == SelectSeq(list, LAMBDA f : ~HasName(f, name))
PlaceOf(list, name) ==
    LET found == {i \in DOMAIN list : HasName(list[i], name)}
    IN  IF found = {} THEN Len(list) + 1
        ELSE CHOOSE i \in found : \A j \in found : i <= j
SetMeaning(list, name, text, ending) ==
    InsertAt(Without(list, name), PlaceOf(list, name), MakeField(name, text, ending))
Meaning(list, op, ending) ==
    CASE op.op = "remove" -> Without(list, op.field)
      [] op.op = "set" -> SetMeaning(list, op.field, op.text, ending)
      [] op.op = "add" -> Append(list, MakeField(op.field, op.text, ending))
      [] op.op = "prepend" -> <<MakeField(op.field, op.text, ending)>> \o list
      [] op.op = "rename" -> [i \in DOMAIN list |->
                                IF HasName(list[i], op.field)
                                THEN WithName(list[i], op.to) ELSE list[i]]
      [] op.op = "priority" ->
            FoldLeft(LAMBDA l, n : IF op.mode = "clear" THEN Without(l, n[1])
                                   ELSE SetMeaning(l, n[1], n[2], ending),
                     list, PriorityFields)
      [] op.op = "extract" -> list
=============================================================================
