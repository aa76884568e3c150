---------------------------- MODULE MCEvaluation ----------------------------
(***************************************************************************)
(* Small instances of MessageEvaluation.                                   *)
(***************************************************************************)
EXTENDS MessageEvaluation

a == 97
b == 98

(***************************************************************************)
(* Words: every pair of parts, with and without values.                    *)
(***************************************************************************)
InnerWords ==
    {<<>>, <<Lit(<<a>>)>>, <<Lit(<<Star>>)>>, <<Lit(<<a, Star>>)>>,
     <<Lit(<<Open, a, Dash, b, Close>>)>>, <<Lit(<<Star, a, Question>>)>>,
     <<PatternQuote(<<Lit(<<Star>>)>>)>>, <<Var("Y")>>,
     <<VarOp("X", ":=", <<Lit(<<b>>)>>)>>, <<VarOp("Y", "-", <<Var("X")>>)>>}
WordOps == {"-", ":-", ":=", "+", ":+"} \union Removals \union CaseChanges
Parts ==
    {Lit(<<a>>), Var("X"), Var("MATCH"), Command(<<b, 10, 10>>), RegexVar("Y"),
     VarOp("X", "length", <<>>), VarOp("X", ":?", <<>>)} \union
    {VarOp("X", op, word) : op \in WordOps, word \in InnerWords} \union
    {VarOp("MATCH", op, <<Var("Y")>>) : op \in {":-", "+", "##"}}
Words == {<<p>> : p \in Parts} \union
         {<<p, q>> : p \in {Lit(<<a, b, a>>), VarOp("X", ":=", <<Var("Y")>>)}, q \in Parts}

Known(text) == [text |-> text, depth |-> 0]
Values ==
    {[n \in DOMAIN v |-> Known(v[n])] : v \in
        {[Y |-> <<Star>>],
         [X |-> <<>>, Y |-> <<b>>],
         [X |-> <<a, b, a>>],
         [X |-> <<a, b, a>>, Y |-> <<a>>, LINEBUF |-> <<52>>],
         [X |-> <<Star, a>>, Y |-> <<b, b>>, MATCH |-> <<a>>],
         [X |-> <<65, b, b, a>>, Y |-> <<a, Star>>, MATCH |-> <<>>]}}
MCWordJobs == [word : Words, vals : Values]

(***************************************************************************)
(* Headers.  Field names are 200 and above.                                *)
(***************************************************************************)
MCFieldNames == 200..203
MCLimits == [headers |-> 24, line |-> 10, field |-> 14, message |-> 40]
MCPriorityFields == <<<<202, <<49>>>>, <<203, <<50>>>>>>
MCPrefixed == [n \in 200..203 |-> 203]

Headers ==
    {<<200, 32, a, 10, 201, 32, b, 10, 10>>,
     <<200, 32, a, 10, 201, 32, b>>,
     <<200, 32, a, 13, 10, 201, a, 13, 10, 13, 10>>,
     <<200, 32, a, 10, 32, b, 10, 201, 32, 10, 10>>,
     <<300, a, 10, 32, a, 10, 200, a, 10, 200, b, 10, 10>>,
     <<200, 32, 13>>, <<10>>, <<>>}
MCEditJobs == Headers

Op(op, field, text, to) ==
    [op |-> op, field |-> field, text |-> text, to |-> to, name |-> "X",
     mode |-> to, word |-> <<Lit(text)>>]
Ops ==
    {Op("set", 200, <<b>>, 0), Op("set", 201, <<b, b, b, b>>, 0),
     Op("set", 201, <<9>>, 0), Op("add", 200, <<a>>, 0),
     Op("add", 202, <<a, a, a, a, a, a, a>>, 0), Op("prepend", 201, <<>>, 0),
     Op("remove", 200, <<>>, 0), Op("rename", 200, <<>>, 201),
     Op("rename", 201, <<>>, 200), Op("priority", 0, <<>>, "high"),
     Op("priority", 0, <<>>, "clear"), Op("extract", 200, <<>>, "raw")}
MCEditActions ==
    {<<op>> : op \in Ops} \union
    {<<Op("remove", 200, <<>>, 0), Op("set", 202, <<a, a, a>>, 0)>>,
     <<Op("add", 201, <<a, a, a, a>>, 0), Op("remove", 201, <<>>, 0)>>,
     <<Op("remove", 201, <<>>, 0), Op("prepend", 201, <<a, a>>, 0),
       Op("set", 200, <<a, a>>, 0)>>}

NoOptions ==
    [rename |-> <<>>, old |-> <<>>, delete |-> <<>>, first |-> <<>>, last |-> <<>>,
     absent |-> <<>>, add |-> <<>>, concatenate |-> FALSE, zap |-> FALSE,
     values |-> <<>>, fields |-> <<>>, keep |-> FALSE, force |-> FALSE,
     escape |-> TRUE]
Options ==
    {[NoOptions EXCEPT !.rename = r, !.old = o, !.delete = d, !.first = u[1],
                       !.last = u[2], !.absent = n[1], !.add = n[2],
                       !.concatenate = c, !.zap = z] :
        r \in {<<>>, <<[pattern |-> {200}, to |-> 201]>>,
               <<[pattern |-> {200, 201}, to |-> 202], [pattern |-> {202}, to |-> 200]>>},
        o \in {<<>>, <<{200, 300}>>}, d \in {<<>>, <<{201}, {300}>>},
        u \in {<<<<>>, <<>>>>, <<<<{200, 201}>>, <<>>>>, <<<<>>, <<{200, 203}>>>>},
        n \in {<<<<>>, <<>>>>, <<<<<<200, 32>>>>, <<<<202, a, a, a, a>>>>>>,
               <<<<<<203, 32>>>>, <<<<200, b, 13, 10>>, <<300, b>>>>>>,
               <<<<<<202, 32>>, <<203>>>>, <<>>>>},
        c \in BOOLEAN, z \in BOOLEAN}
Shown ==
    {[NoOptions EXCEPT !.values = v, !.fields = f, !.concatenate = c, !.zap = z,
                       !.keep = k, !.force = TRUE, !.escape = ~z] :
        v \in {<<>>, <<{200, 300}>>}, f \in {<<>>, <<{201}, {200}>>},
        c \in BOOLEAN, z \in BOOLEAN, k \in BOOLEAN}
Bodies == UNION {[1..n -> {62, 70, 32, 10}] : n \in 0..6}
MCFormailJobs ==
    [header : Headers, body : {<<70, 32, a>>}, options : Options \union Shown] \union
    [header : {<<10>>}, body : Bodies, options : {[NoOptions EXCEPT !.force = TRUE]}]

(***************************************************************************)
(* Messages: two statements of a menu in every order, then a recipe that   *)
(* delivers to a folder named after X.  Identifiers tell the places apart. *)
(***************************************************************************)
Set(name, word) == [k |-> "assign", name |-> name, word |-> word, baked |-> <<>>]
Text(bytes) == <<Lit(bytes)>>
Folder(kind, word) ==
    [k |-> "deliver", kind |-> kind, word |-> word, base |-> <<>>, rtdep |-> FALSE,
     rtbase |-> FALSE, typed |-> FALSE]
Recipe(id, control, copy, conds, act) ==
    [k |-> "recipe", id |-> id, control |-> control, copy |-> copy, conds |-> conds,
     act |-> act, lock |-> <<>>]
LockOn(word) == <<[word |-> word, base |-> <<>>, rtdep |-> FALSE, rtbase |-> FALSE]>>
Look(k, want, cap) == [k |-> k, want |-> want, cap |-> cap, neg |-> FALSE]
Size(k, n) == [k |-> k, size |-> n, neg |-> FALSE]
Copy(id, conds, word) == Recipe(id, "I", TRUE, conds, Folder("maildir", word))
BodyA == <<Look("body", <<a>>, "none")>>
HeadA == <<Look("header", <<200, 32, a>>, "none")>>
m == 109

Blocks(id) ==
    {Recipe(id, "I", FALSE, conds, [k |-> "block", items |-> items]) :
        conds \in {<<>>, BodyA},
        items \in {<<Set("X", Text(<<b>>)), Copy(id + 1, <<>>, Text(<<m>>))>>,
                   <<Copy(id + 1, BodyA, <<Var("X")>>), Copy(id + 2, HeadA, Text(<<m>>))>>}}
Statements(id) ==
    {Set("X", Text(<<a>>)), Set("X", <<VarOp("X", "-", <<>>), Lit(<<b>>)>>),
     Set("HOST", Text(<<104>>)), Set("HOST", Text(<<b>>)),
     Set("MAILDIR", Text(<<m>>)), Set("SHIFT", Text(<<49>>)),
     Set("X", <<Var("1")>>),
     [k |-> "unset", name |-> "X"],
     [k |-> "command", name |-> "X", word |-> <<Command(<<b, 10>>)>>],
     [k |-> "command", name |-> "Y", word |-> <<VarOp("X", ":=", Text(<<b>>))>>]} \union
    {[k |-> k, id |-> id, word |-> word] : k \in {"include", "switch"},
        word \in {Text(<<102, n>>) : n \in 48..53} \union {<<Lit(<<102>>), Var("X")>>}}
Edits(id) ==
    {Recipe(id, "I", TRUE, conds, [k |-> "headers", ops |-> <<op>>]) :
        conds \in {<<>>, BodyA},
        op \in {Op("add", 201, <<a>>, 0), [Op("set", 200, <<b>>, 0) EXCEPT !.word = <<Var("X")>>],
                Op("extract", 200, <<>>, "raw")}}
Commands(id) ==
    {Recipe(id, "I", TRUE, conds, act) : conds \in {<<>>, BodyA},
        act \in {[k |-> "capture", name |-> "X", input |-> input, output |-> <<b, 10>>] :
                    input \in {"headers", "body"}} \union
                {[k |-> "pipe", input |-> "message", filter |-> f, header |-> <<200, 32, b, 10, 10>>] :
                    f \in BOOLEAN}}
Conditions ==
    {<<>>, BodyA, HeadA, <<Size("smaller", 10)>>, <<Size("larger", 9)>>,
     <<Look("header", <<200, 32>>, "match")>>,
     <<Look("body", <<b>>, "none"), Look("header", <<200, 32>>, "match")>>,
     <<[k |-> "shell", word |-> <<Var("X")>>, neg |-> FALSE]>>,
     <<[k |-> "program", id |-> 1, input |-> "headers", answer |-> FALSE, neg |-> TRUE]>>,
     <<[Look("var", <<a>>, "none") EXCEPT !.k = "var"] @@ [name |-> "X"]>>,
     <<Look("address", <<a>>, "none") @@ [field |-> 200]>>,
     <<Look("message", <<a>>, "none")>>}
Deliveries(id) ==
    {Recipe(id, "I", copy, conds, Folder("maildir", Text(<<m>>))) :
        copy \in BOOLEAN, conds \in Conditions} \union
    {Recipe(id, control, TRUE, conds, Folder("maildir", word)) :
        control \in {"A", "a", "E", "e"}, conds \in {<<>>, BodyA},
        word \in {<<Lit(<<m>>), VarOp("MATCH", "-", <<>>)>>}} \union
    {Copy(id, <<>>, <<Lit(<<m>>), VarOp("-", "-", <<>>)>>),
     Recipe(id, "I", TRUE, <<>>, Folder("mbox", Text(<<m>>)))}
Menu(id) == Statements(id) \union Edits(id) \union Commands(id) \union
            Deliveries(id) \union Blocks(id)
Ending(word) == Recipe(90, "I", FALSE, <<>>, Folder("maildir", word))
Final == Ending(<<Lit(<<100>>), VarOp("X", "-", <<>>)>>)
Fixed == Ending(Text(<<100>>))
\* A capture of the header, by itself and in a block
Capture(id) == Recipe(id, "I", TRUE, <<>>, [k |-> "capture", name |-> "X",
                                            input |-> "headers", output |-> <<b, 10>>])
Captures(id) ==
    {Capture(id), Recipe(id, "I", FALSE, <<>>, [k |-> "block", items |-> <<Capture(id + 1)>>])}
\* Three statements of a smaller menu
Focus(id) ==
    {Set("X", Text(<<b>>)), Copy(id, <<Look("var", <<m>>, "none") @@ [name |-> "LASTFOLDER"]>>, Text(<<a>>)),
     Set("SHIFT", Text(<<49>>)), Set("LOCKFILE", Text(<<m>>)), Set("HOST", Text(<<b>>)),
     [k |-> "include", id |-> id, word |-> Text(<<102, 48>>)],
     [k |-> "include", id |-> id, word |-> Text(<<102, 50>>)],
     Copy(id, BodyA, <<Var("1")>>),
     Copy(id, <<Look("header", <<200, 32>>, "match")>>, Text(<<m>>)),
     Copy(id, <<Look("body", <<b>>, "none"), Look("header", <<200, 32>>, "match")>>,
          Text(<<m>>)),
     Recipe(id, "e", TRUE, <<>>, Folder("maildir", <<Lit(<<m>>), VarOp("MATCH", "-", <<>>)>>)),
     Recipe(id, "A", TRUE, BodyA, Folder("maildir", Text(<<m>>))),
     [Copy(id, <<>>, Text(<<m>>)) EXCEPT !.lock = LockOn(<<VarOp("X", ":-", Text(<<m>>))>>)],
     Copy(id, <<Look("var", <<a>>, "none") @@ [name |-> "MATCH"]>>, Text(<<b>>))}
    \union Captures(id)
Home == Set("MAILDIR", Text(<<Slash, 120>>))
Jobs(stmts, failing) ==
    [stmts : {<<Home>> \o s : s \in stmts}, header : {<<200, 32, a, 10, 10>>}, body : {<<a>>, <<b>>},
     failing : failing, arguments : {<<<<a>>>>}, supplied : {<<>>}]
MCMessageJobs ==
    Jobs({<<p, q, f>> : p \in Menu(10), q \in Menu(20), f \in {Final, Fixed}}, {{}}) \union
    Jobs({<<p, q, r, Fixed>> : p \in Focus(10), q \in Focus(20), r \in Focus(30)}, {{}})
    \union
    Jobs({<<p, q, r>> : p \in Captures(10), q \in Focus(20), r \in Focus(30)}, {{10, 11}})
    \union
    {[job EXCEPT !.stmts = Tail(@)] : job \in
        Jobs({<<p, q, Fixed>> : p \in Menu(10), q \in Focus(20)}, {{}})}
\* Edits before a body condition
MCReplayJobs == Jobs({<<p, q, Fixed>> : p \in Edits(10), q \in Deliveries(20)}, {{}})
File(stmts) == [stmts |-> stmts, trusted |-> TRUE]
RootPath == <<114>>
Relative(n) == <<Slash, 120, Slash, 102, n>>
MCRcFiles ==
    (<<102, 48>> :> File(<<Copy(50, BodyA, Text(<<102>>))>>)) @@   \* without a MAILDIR
    (Relative(48) :> File(<<Copy(50, BodyA, Text(<<102>>))>>)) @@
    (Relative(49) :> File(<<Set("X", Text(<<b>>)), Copy(50, <<>>, <<Var("X")>>)>>)) @@
    (Relative(50) :> File(<<Recipe(50, "I", TRUE, <<>>, [k |-> "headers",
                        ops |-> <<[Op("add", 201, <<b>>, 0) EXCEPT !.word = <<Var("_")>>]>>])>>)) @@
    (Relative(51) :> File(<<[k |-> "include", id |-> 50, word |-> Text(<<102, 51>>)]>>)) @@
    (Relative(52) :> File(<<Recipe(50, "I", TRUE, <<>>,
                        [k |-> "pipe", input |-> "body", filter |-> FALSE, header |-> <<10>>])>>))
MCReparsed == (<<a>> :> Look("header", <<a>>, "none")) @@ (<<b>> :> Look("body", <<a>>, "none"))
MCPostmark == <<300, 10>>
MCFromTarget == <<70, 32>>
MCQuotePrefix == <<62>>
MCMessageIdNames == {202}
MCGeneratedId == <<32, b, 10>>
MCHostname == <<104>>
=============================================================================
