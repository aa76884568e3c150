------------------------- MODULE MessageEvaluation -------------------------
(***************************************************************************)
(* A message on its way through procmail-rs (src/bin/procmail-rs.rs,       *)
(* src/delivery_runtime.rs): the rc file is prepared, the header is        *)
(* evaluated while the body is still unread, and then the plan is carried  *)
(* out at once, or the message is staged and the plan is resumed or        *)
(* replaced by an execution in order.                                      *)
(*                                                                         *)
(* Init chooses one of four jobs.  A "message" job takes an rc file and a  *)
(* message through these steps.  A "word" job evaluates one word.  An      *)
(* "edit" job applies `headers` actions to a header, one after the other.  *)
(* A "formail" job is one call of formail-rs.  The algorithms of the last  *)
(* three are compared with their meaning.                                  *)
(***************************************************************************)
EXTENDS OrderedExecution, Formail

CONSTANTS MessageJobs,    \* [stmts, header, body, failing, arguments, supplied]
          WordJobs,       \* [word, vals]
          EditJobs,       \* headers
          EditActions, MaxEdits,
          FormailJobs     \* [header, body, options]

VARIABLES given,    \* the job
          phase,    \* where the job is
          plan,     \* the compiled rc file
          ctx,      \* the evaluation
          before,   \* observer: what the evaluation of the header left
          path,     \* observer: how the plan was carried out
          edited,   \* [err, header] of an edit or formail job
          meant,    \* observer: [err, text], the same by definition
          scan      \* the body of a formail job: [rest, state, out]

vars == <<given, phase, plan, ctx, before, path, edited, meant, scan>>

None == <<>>
NotEdited == [err |-> "none", header |-> None]
NotMeant == [err |-> "none", text |-> None]
NoScan == [rest |-> <<>>, state |-> NewScanner]

Begin(job, start) ==
    /\ given = job
    /\ phase = start
    /\ plan = None /\ ctx = None /\ before = None /\ path = "none"

Init ==
    \/ /\ \E job \in MessageJobs : Begin([k |-> "message", job |-> job], "read")
       /\ edited = NotEdited /\ meant = NotMeant /\ scan = NoScan
    \/ /\ \E job \in WordJobs : Begin([k |-> "word", job |-> job], "done")
       /\ edited = NotEdited /\ meant = NotMeant /\ scan = NoScan
    \/ \E header \in EditJobs :
        /\ Begin([k |-> "edit", left |-> MaxEdits], "edit")
        /\ edited = [err |-> "none", header |-> NewHeader(header)]
        /\ meant = [err |-> "none", text |-> header]
        /\ scan = NoScan
    \/ \E job \in FormailJobs :
        /\ Begin([k |-> "formail", job |-> job], "options")
        /\ edited = [err |-> "none", header |-> NewHeader(job.header)]
        /\ meant = [err |-> "none", text |-> job.header]
        /\ scan = [rest |-> job.body, state |-> NewScanner]

(***************************************************************************)
(* A message.                                                              *)
(***************************************************************************)
Job == given.job
MessageUnchanged == UNCHANGED <<given, edited, meant, scan>>

NoMessage == [head |-> None, body |-> <<>>, header |-> <<>>, full |-> <<>>]
FreshContext(msg) ==
    NewContext(NewHeader(Job.header), msg, DefaultVariables,
               NewRcState(CountStatements(Job.stmts)), Job.failing)

\* Config::maildir: does the root file leave MAILDIR assigned?
NamesMaildir(stmts) ==
    LET last == SelectLastInSeq(stmts, LAMBDA s : /\ s.k \in {"assign", "unset"}
                                                  /\ s.name = "MAILDIR")
    IN  last # 0 /\ stmts[last].k = "assign"

\* run: the rc file is expanded and compiled before the message is looked at,
\* and a file that needs the whole message must name a MAILDIR to stage it in
Prepare ==
    /\ phase = "read" /\ given.k = "message"
    /\ \E prepared \in {ExpandRoot(Job.stmts, Job.supplied, Job.arguments)} :
       \E tree \in {CompileSequence(prepared[2],
                        InitialAssignments(Job.supplied, Job.arguments))} :
        IF \/ prepared[1] # "none" \/ ~ArgumentsAccepted(Job.arguments)
           \/ /\ "end" \in PlanRequirements(tree, NewRcState(0))
              /\ ~NamesMaildir(Job.stmts)
        THEN phase' = "rejected" /\ UNCHANGED plan
        ELSE phase' = "header" /\ plan' = tree
    /\ UNCHANGED <<ctx, before, path>>
    /\ MessageUnchanged

\* evaluate_headers_editing
EvaluateHeader ==
    /\ phase = "header"
    /\ ctx' = EvaluateHeaders(FreshContext(NoMessage), plan)
    /\ before' = ctx'
    /\ phase' = IF ctx'.ctl = "error" THEN "done" ELSE ctx'.ctl
    /\ path' = IF ctx'.ctl = "error" THEN "decided" ELSE path
    /\ UNCHANGED plan
    /\ MessageUnchanged

\* open_sinks and commit_delivery: the deliveries of a plan, with the header as
\* it is at the end of the plan.  The destinations planned before the body was
\* read, `early` of them, are opened with the variables of that time.
Published(c, head, early, then) ==
    With([i \in DOMAIN c.out |->
            ResolveDestination(c.out[i].dest,
                               View(IF i <= early THEN then ELSE c.rt))], LAMBDA found :
        IF \E i \in DOMAIN found : found[i][1] # "none" THEN Failed(c, "destination")
        ELSE [c EXCEPT !.out = [i \in DOMAIN c.out |->
                Delivery(c.out[i].id, found[i][2], found[i][3], c.out[i].lock, head, Job.body)]])

\* deliver_decided
DeliverDecided ==
    /\ phase = "decided"
    /\ ctx' = Published(ctx, ctx.head, 0, ctx.rt)
    /\ phase' = "done" /\ path' = "decided"
    /\ UNCHANGED <<plan, before>>
    /\ MessageUnchanged

\* deliver_staged: the body is staged in the MAILDIR of this moment and mapped;
\* a plan that must keep its order does not use what was planned so far
Stage ==
    /\ phase = "needs"
    /\ ctx' = [ctx EXCEPT !.msg = MappedMessage(ctx.head, Job.body,
                                                plan.props.full \/ ctx.rc.full)]
    /\ phase' = IF MaildirSetting(ctx.rt) = <<>> /\ ~NamesMaildir(Job.stmts)
                THEN "unstaged"
                ELSE IF plan.props.ordered \/ ctx.rc.ordered THEN "ordered" ELSE "resume"
    /\ UNCHANGED <<plan, before, path>>
    /\ MessageUnchanged

\* deliver_staged, in order: the header, the variables and the loaded files
\* are those the evaluation of the header left
ExecuteInOrder ==
    /\ phase = "ordered"
    /\ ctx' = ExecuteOrdered([ctx EXCEPT !.out = <<>>, !.orig = FALSE, !.pend = FALSE,
                                         !.frames = <<>>, !.ctl = "continue"], plan)
    /\ phase' = "done" /\ path' = "ordered"
    /\ UNCHANGED <<plan, before>>
    /\ MessageUnchanged

\* deliver_staged, resuming
ResumePlan ==
    /\ phase = "resume"
    /\ \E done \in {Resume(ctx, plan, DefaultVariables)} :
        ctx' = IF done.ctl = "error" THEN done
               ELSE Published(done, ctx.head, Len(ctx.out), ctx.rt)
    /\ phase' = "done" /\ path' = "resumed"
    /\ UNCHANGED <<plan, before>>
    /\ MessageUnchanged

(***************************************************************************)
(* Edits: the header and, by definition, the list of its fields.           *)
(***************************************************************************)
FieldList(text) == RawFields(SubSeq(text, 1, SeparatorStart(text) - 1))
Separator(text) == SubSeq(text, SeparatorStart(text), Len(text))

\* The text of a list of fields; a field without a line end gets one when
\* another field follows
Joined(list, ending) ==
    FlattenSeq([i \in DOMAIN list |->
        IF i < Len(list) /\ Last(list[i]) # LF
        THEN list[i] \o JoiningLineEnding(list[i], ending) ELSE list[i]])

MeantBy(was, lists, error, ceiling) ==
    With(Joined(Last(lists), PreferredLineEnding(was)) \o Separator(was), LAMBDA new :
    LET over == \E i \in DOMAIN lists : Len(FlattenSeq(lists[i])) > ceiling
    IN  IF error \/ over \/ PartsError(new, 0) # "none"
        THEN [err |-> "refused", text |-> was]
        ELSE [err |-> "none", text |-> new])

\* The lists behind every operation
EditMeaning(text, ops) ==
    FoldLeft(LAMBDA lists, op : Append(lists, Meaning(Last(lists), op,
                                                      PreferredLineEnding(text))),
             <<FieldList(text)>>, ops)

Edit ==
    /\ phase = "edit" /\ given.left > 0
    /\ \E ops \in EditActions :
        \E done \in {ApplyHeaderAction(edited.header, ops, 0)} :
            /\ edited' = [err |-> done.err, header |-> done.header]
            /\ meant' = MeantBy(meant.text, EditMeaning(meant.text, ops),
                            \/ \E i \in DOMAIN ops : HasValue(ops[i]) /\
                                    FieldError(ops[i].text) # "none"
                            \/ \E lists \in {EditMeaning(meant.text, ops)} :
                                \E i \in 2..Len(lists) :
                                    Len(Joined(lists[i], PreferredLineEnding(meant.text))
                                        \o Separator(meant.text)) > Limits.headers,
                            Larger(Limits.headers, Len(meant.text)))
    /\ given' = [given EXCEPT !.left = @ - 1]
    /\ UNCHANGED <<phase, plan, ctx, before, path, scan>>

\* formail-rs up to the body
RunOptions ==
    /\ phase = "options"
    /\ \E done \in {ApplyOptions(edited.header, Job.options)} :
       \E lists \in {FormailMeaning(FieldList(meant.text), Job.options,
                                    PreferredLineEnding(meant.text))} :
           /\ edited' = [err |-> done[1], header |-> done[2]]
           /\ meant' = MeantBy(meant.text, lists, FALSE,
                               Larger(Limits.headers, Len(meant.text)))
           /\ scan' = [scan EXCEPT !.state.out =
                        IF done[1] = "none" THEN WriteHead(done[2], Job.options) ELSE <<>>]
           /\ phase' = IF \/ done[1] # "none"
                          \/ Extracting(Job.options) /\ ~Job.options.keep
                       THEN "done" ELSE "body"
    /\ UNCHANGED <<given, plan, ctx, before, path>>

\* fill_buf returns some bytes, at least one
FillBuffer ==
    /\ phase = "body" /\ scan.rest # <<>>
    /\ \E n \in 1..Len(scan.rest) :
        scan' = [rest |-> SubSeq(scan.rest, n + 1, Len(scan.rest)),
                 state |-> IF Job.options.escape
                           THEN ScanBuffer(scan.state, SubSeq(scan.rest, 1, n))
                           ELSE CopyBuffer(scan.state, SubSeq(scan.rest, 1, n))]
    /\ UNCHANGED <<given, phase, plan, ctx, before, path, edited, meant>>

EndOfInput ==
    /\ phase = "body" /\ scan.rest = <<>>
    /\ scan' = [scan EXCEPT !.state.out = ScanEnd(scan.state)]
    /\ phase' = "done"
    /\ UNCHANGED <<given, plan, ctx, before, path, edited, meant>>

Terminated ==
    /\ phase \in {"done", "rejected", "unstaged"} \/ (phase = "edit" /\ given.left = 0)
    /\ UNCHANGED vars

Next ==
    \/ Prepare \/ EvaluateHeader \/ DeliverDecided \/ Stage \/ ExecuteInOrder
    \/ ResumePlan \/ Edit \/ RunOptions \/ FillBuffer \/ EndOfInput \/ Terminated

Spec == Init /\ [][Next]_vars

(***************************************************************************)
(* Words.  Says is the table of the manual (rc.5, "Variables"): the text of*)
(* a word, whether it has one, the names it assigns, the longest text that *)
(* has to be held on the way (peak), and whether a := in it met a name that*)
(* has a value (kept).                                                     *)
(***************************************************************************)
RECURSIVE Says(_, _, _)

SaysText(text, made) ==
    [bad |-> FALSE, text |-> text, peak |-> Len(text), made |-> made, kept |-> FALSE]
SaysNothing(made) == [SaysText(<<>>, made) EXCEPT !.bad = TRUE]

\* ${NAME#word} and its like, ${NAME^word} and its like
SaysChanged(part, value, inner) ==
    With(Tokenize(inner.text), LAMBDA tokens :
    LET edge    == IF part.op \in {"#", "##"} THEN "prefix" ELSE "suffix"
    IN  With(IF part.op \in Removals THEN WithinSteps(1, Len(value), tokens)
             ELSE WithinSteps(IF part.op \in {"^^", ",,"} THEN Len(value)
                              ELSE Smaller(1, Len(value)), 1,
                              IF tokens = <<>> THEN <<AnyByte>> ELSE tokens), LAMBDA steps :
        LET hit(i)  == /\ part.op \in {"^^", ",,"} \/ i = 1
                       /\ inner.text = <<>> \/ Matches(tokens, <<value[i]>>)
            upper   == part.op \in {"^", "^^"}
        IN  With(IF part.op \in Removals
                 THEN RemoveByDefinition(value, inner.text, edge,
                                         part.op \in {"##", "%%"})
                 ELSE [i \in DOMAIN value |->
                          IF ~hit(i) THEN value[i]
                          ELSE IF upper THEN ToUpper(value[i]) ELSE ToLower(value[i])], LAMBDA text :
                IF inner.bad \/ ~steps THEN [inner EXCEPT !.bad = TRUE]
                ELSE [inner EXCEPT !.text = text, !.peak = Larger(@, Len(text))])))

\* ${NAME op word}
SaysVariable(part, vals, made) ==
    LET isSet   == part.name \in DOMAIN made \/ part.name \in DOMAIN vals
        value   == IF part.name \in DOMAIN made THEN made[part.name]
                   ELSE vals[part.name].text
        isNull  == ~isSet \/ value = <<>>
    IN  With(Says(part.word, vals, made), LAMBDA inner :
        LET shown   == IF isSet THEN SaysText(value, made) ELSE SaysNothing(made)
            assigns == [inner EXCEPT !.made =
                            [n \in DOMAIN inner.made \union {part.name} |->
                                IF n = part.name THEN inner.text ELSE inner.made[n]]]
            empty   == SaysText(<<>>, made)
        IN  CASE part.op = "value" -> shown
              [] part.op = "-" -> IF isSet THEN shown ELSE inner
              [] part.op = ":-" -> IF isNull THEN inner ELSE shown
              [] part.op = ":=" -> IF isNull THEN assigns ELSE [shown EXCEPT !.kept = TRUE]
              [] part.op = "+" -> IF isSet THEN inner ELSE empty
              [] part.op = ":+" -> IF isNull THEN empty ELSE inner
              [] part.op = ":?" -> IF isNull THEN SaysNothing(made) ELSE shown
              [] part.op = "length" -> IF isSet THEN SaysText(Decimal(Len(value)), made)
                                       ELSE SaysNothing(made)
              [] OTHER -> IF isSet THEN SaysChanged(part, value, inner)
                          ELSE SaysNothing(made))

SaysPart(part, vals, made) ==
    With(Says(part.word, vals, made), LAMBDA inner :
    With(QuotePattern(inner.text), LAMBDA quoted :
        CASE part.k = "lit" -> SaysText(part.text, made)
          [] part.k = "command" -> [SaysText(StripAll(part.output), made)
                                        EXCEPT !.peak = Len(part.output)]
          [] part.k = "regex" -> IF part.name \in DOMAIN vals
                                 THEN SaysText(EscapeRegex(vals[part.name].text), made)
                                 ELSE SaysNothing(made)
          [] part.k = "quote" -> [inner EXCEPT !.text = quoted,
                                               !.peak = Larger(@, Len(quoted))]
          [] part.k = "var" -> SaysVariable(part, vals, made)))

Says(word, vals, made) ==
    FoldLeft(LAMBDA acc, part :
        With(SaysPart(part, vals, acc.made), LAMBDA next :
            IF acc.bad THEN acc
            ELSE [bad |-> next.bad, text |-> acc.text \o next.text, made |-> next.made,
                  kept |-> acc.kept \/ next.kept,
                  peak |-> Larger(acc.peak, Len(acc.text) + next.peak)]),
        SaysText(<<>>, made), word)

Plain(word) == ~RequiresOrderedEvaluation(word) /\ ~Analysis(word, NoNames, {}).regex

\* A word has the text the manual gives it, and is refused only when it has no
\* text or does not fit in LINEBUF.  The preparation, the evaluation of
\* assignments and paths and the evaluation in order agree on it, and once the
\* variables of a word are bound, their later values do not matter.  The manual
\* is not followed where a := meets a name that has a value: rc(5) gives
\* "value", the code no text at all (uses_value_when_word_is_not_selected omits
\* AssignIfUnsetOrEmpty).  Of such a word it is stated only that, like every
\* other, it assigns no name that already has a value.
WordMeaning ==
    given.k = "word" =>
        LET word  == Job.word
            vals  == Job.vals
        IN  With(Smaller(ActiveLinebuf(vals), MaxValueLen), LAMBDA limit :
            With(Says(word, vals, NoNames), LAMBDA says :
            LET fits  == ~says.bad /\ says.peak <= limit
            IN  With(Evaluate(word, limit, Context(vals, "none", TRUE, TRUE)), LAMBDA full :
                With(EvaluateRuntime(word, MaxValueLen, vals), LAMBDA run :
                With(EvaluateConfig(word, limit, vals), LAMBDA conf :
                With(BindStatic(word, vals, 0), LAMBDA bound :
                LET ok    == full.err = "none"
                    later == [n \in DOMAIN vals \intersect (RuntimeOnly \union {"LINEBUF"}) |->
                                vals[n]]
                IN  With(EvaluateRuntime(bound[2], MaxValueLen, later), LAMBDA again :
                        /\ ~says.kept =>
                                /\ ok = fits
                                /\ fits => full.bytes = says.text /\ full.made = says.made
                        /\ ok => \A n \in DOMAIN full.made \intersect DOMAIN vals : vals[n].text = <<>>
                        /\ Plain(word) => /\ (run.err = "none") = ok
                                          /\ ok => run.bytes = full.bytes
                                          /\ conf.err # "depth" => (conf.err = "none") = ok
                                          /\ conf.err = "none" => conf.bytes = full.bytes
                        /\ Plain(word) /\ ok /\ bound[1] = "none" =>
                                again.err = "none" /\ again.bytes = full.bytes)))))))

(***************************************************************************)
(* Headers.                                                                *)
(***************************************************************************)
\* The arena of an edited header always holds the header that the operations
\* describe: after any sequence of actions, or of formail-rs options, the
\* fields, their order and the line ends are those of the list of fields, and
\* an edit is refused exactly when that header, or one on the way to it, is
\* larger than a limit.  Holes, reuse and compaction never show.
ArenaMeansList ==
    phase \in {"edit", "body", "done"} /\ given.k \in {"edit", "formail"} =>
        /\ (edited.err = "none") = (meant.err = "none")
        /\ Serialized(edited.header) = meant.text
        /\ FieldsOf(edited.header.store) = FieldList(meant.text)

\* formail-rs quotes every From line of a body and nothing else, wherever the
\* buffers it reads end.
FromLinesQuoted ==
    given.k = "formail" /\ phase = "done" /\ edited.err = "none"
    /\ (Extracting(Job.options) => Job.options.keep) =>
        scan.state.out = WriteHead(edited.header, Job.options) \o
                (IF Job.options.escape THEN QuotedBody(Job.body) ELSE Job.body)

(***************************************************************************)
(* Messages.                                                               *)
(***************************************************************************)
Done == given.k = "message" /\ phase = "done"

\* What can be seen of an evaluation.  Edits show in the delivered bytes.
Outcome(c) ==
    IF c.ctl = "error" THEN <<"error">>
    ELSE <<"ok", c.out, c.orig, SelectSeq(c.log, LAMBDA e : e[1] # "edit")>>

InOrderFromStart(tree) ==
    ExecuteOrdered(FreshContext(MappedMessage(NewHeader(Job.header), Job.body, TRUE)),
                   tree)

\* The names that the words of a statement read, files included
RECURSIVE NamesIn(_), NamesOf(_)
NamesIn(word) ==
    UNION {(IF word[i].k \in {"var", "regex"} THEN {word[i].name} ELSE {}) \union
           (IF word[i].k \in {"var", "quote"} THEN NamesIn(word[i].word) ELSE {})
           : i \in DOMAIN word}
ConditionNames(cond) ==
    CASE cond.k = "shell" -> NamesIn(cond.word)
      [] cond.k = "var" -> {cond.name}
      [] OTHER -> {}
NamesOf(stmts) ==
    UNION {LET stmt == stmts[i]
           IN  CASE stmt.k \in {"assign", "command"} -> NamesIn(stmt.word)
                 [] stmt.k = "unset" -> {}
                 [] stmt.k \in {"include", "switch"} ->
                        NamesIn(stmt.word) \union
                        UNION {NamesOf(SelectSeq(RcFiles[f].stmts, LAMBDA s :
                                    s.k \notin {"include", "switch"}))
                               : f \in DOMAIN RcFiles}
                 [] stmt.k = "recipe" ->
                        UNION {ConditionNames(stmt.conds[c]) : c \in DOMAIN stmt.conds}
                        \union (CASE stmt.act.k = "deliver" -> NamesIn(stmt.act.word)
                                  [] stmt.act.k = "block" -> NamesOf(stmt.act.items)
                                  [] stmt.act.k = "headers" ->
                                        UNION {NamesIn(stmt.act.ops[n].word)
                                               : n \in DOMAIN stmt.act.ops}
                                  [] OTHER -> {})
           : i \in DOMAIN stmts}

\* The names a statement may read before the file has assigned them
ReadFirst(stmts) ==
    {n \in NamesOf(stmts) : \E i \in DOMAIN stmts :
        /\ n \in NamesOf(<<stmts[i]>>)
        /\ ~\E j \in 1..(i - 1) : stmts[j].k = "assign" /\ stmts[j].name = n}

ValueIn(rt, n) == Option(View(rt), n)

(***************************************************************************)
(* Where planning and execution in order differ.  README.md describes each *)
(* difference.                                                             *)
(***************************************************************************)
\* What the header phase did is done again: an edit or a capture, a variable
\* that is read before it is assigned, transitions that are counted on
DoneTwice ==
    /\ path = "ordered"
    /\ \/ before.log # <<>>
       \/ \E n \in ReadFirst(Job.stmts) \ {plan.recipes[1].pre[i].name :
                i \in {i \in DOMAIN plan.recipes[1].pre :
                            plan.recipes[1].pre[i].k = "initial"}} :
            ValueIn(before.rt, n) # ValueIn(DefaultVariables, n)
       \/ ctx.err = "rc" /\ before.rc.transitions > 0

\* A file loaded only while the plan is resumed must be executed in order
LateFile == path = "resumed" /\ ctx.err = "unsupported" /\ ctx.rc.ordered

\* A delivery was planned, and the header was edited behind it
LaterEdit ==
    /\ path = "decided"
    /\ \E i \in DOMAIN before.out :
            Serialized(before.out[i].head) # Serialized(before.head)

\* Planned deliveries do not set LASTFOLDER, and the file reads it
LastFolderUnset ==
    /\ path \in {"decided", "resumed"}
    /\ NamesOf(Job.stmts) \intersect {"LASTFOLDER", "-"} # {}
    /\ ctx.out # <<>>

\* A condition behind a deferred one was matched although the deferred one fails
MatchedEarly ==
    /\ path = "resumed"
    /\ "MATCH" \in NamesOf(Job.stmts)
    /\ \E i \in DOMAIN before.frames : "true" \in Range(before.frames[i].results)

\* A capture failed in the header phase: a block forgets it, another host
\* does not
CaptureFailed ==
    /\ path = "decided"
    /\ \E i \in DOMAIN before.log :
        /\ before.log[i][1] = "capture" /\ before.log[i][2] \in Job.failing
        /\ \/ \E n \in DOMAIN Job.stmts : IsHost(Job.stmts[n])
           \/ \A n \in DOMAIN Job.stmts :
                Job.stmts[n].k = "recipe" => Job.stmts[n].id # before.log[i][2]

\* A message evaluated in phases - the header first, then the deliveries or
\* the rest of the plan with the staged message - ends like one whose recipes
\* are executed one after the other: the same deliveries with the same bytes,
\* the same commands with the same input, the same verdict on the original.
PlanningMeansOrdered ==
    \/ ~Done
    \/ DoneTwice \/ LateFile \/ LaterEdit \/ LastFolderUnset \/ MatchedEarly
    \/ CaptureFailed
    \/ Outcome(ctx) = Outcome(InOrderFromStart(plan))

\* Statements as they are written: nothing is fixed in advance
RECURSIVE Unprepared(_)
Unprepared(stmts) ==
    [i \in DOMAIN stmts |->
        LET stmt == stmts[i]
            open == [n \in DOMAIN stmt.lock |->
                        [stmt.lock[n] EXCEPT !.rtdep = TRUE, !.rtbase = TRUE]]
        IN  IF stmt.k # "recipe" THEN stmt
            ELSE CASE stmt.act.k = "deliver" ->
                        [stmt EXCEPT !.lock = open, !.act.rtdep = TRUE, !.act.rtbase = TRUE]
                   [] stmt.act.k = "block" ->
                        [stmt EXCEPT !.lock = open, !.act.items = Unprepared(@)]
                   [] OTHER -> [stmt EXCEPT !.lock = open]]

Assigns(stmts, n) ==
    \E i \in DOMAIN stmts : stmts[i].k = "assign" /\ stmts[i].name = n

\* A loaded file assigns a name whose value the root file took in advance
FixedTooEarly(run) ==
    \E i \in DOMAIN Job.stmts : \E n \in NamesOf(<<Job.stmts[i]>>) :
        \E key \in DOMAIN run.rc.cache :
            /\ run.rc.cache[key].k = "sequence"
            /\ Assigns(RcFiles[run.rc.cache[key].path].stmts, n)

\* The file reads an argument that it has shifted away: the preparation takes
\* it as empty, the execution as unset
ShiftedAway ==
    /\ Assigns(Job.stmts, "SHIFT")
    /\ NamesOf(Job.stmts) \intersect PositionalNames # {}

\* MAILDIR is a relative path: a lock or log file below it is resolved by the
\* preparation and once more by the execution
ResolvedTwice(run) ==
    LET dir == MaildirSetting(run.rt)
    IN  dir # <<>> /\ Head(dir[1]) # Slash

\* The preparation takes values in advance where it can, and that does not
\* show: executed in order, the prepared file does what its source says.
PreparationMeansSource ==
    Done =>
        With(InOrderFromStart(plan), LAMBDA run :
            \/ FixedTooEarly(run) \/ ShiftedAway \/ ResolvedTwice(run)
            \/ Outcome(run) =
                    Outcome(InOrderFromStart(CompileSequence(Unprepared(Job.stmts),
                                InitialAssignments(Job.supplied, Job.arguments)))))

\* The evaluation never meets an action its phase cannot perform: whatever
\* needs a command, an edit or an order is seen in time.
NothingUnsupported ==
    Done /\ ~LateFile => ctx.err # "unsupported"

\* The header phase asks for the parts of the message that the rest of the
\* plan needs: a plan that is resumed looks at nothing else, unless it loads a
\* file.  Nor is the staging directory found missing after the header was
\* read, unless a file loaded since then is what needs the message.
RequirementsCover ==
    /\ Done /\ path = "resumed" /\ ctx.rc.files = before.rc.files =>
        ctx.reads \subseteq before.needs
    /\ phase = "unstaged" => before.rc.files > 1

\* The manual says that a `headers` block applies every operation and then
\* continues with the next recipe: a block of the root file is applied to a
\* message at most once.
EditsAppliedOnce ==
    Done => \A n \in DOMAIN Job.stmts :
        Job.stmts[n].k = "recipe" /\ Job.stmts[n].act.k = "headers" =>
            Len(SelectSeq(ctx.log, LAMBDA e : e = <<"edit", Job.stmts[n].id>>)) <= 1
=============================================================================
