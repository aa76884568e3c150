----------------------------- MODULE MCCommands -----------------------------
(***************************************************************************)
(* Every form of command with the w, W and i flags that change what its    *)
(* outcome means, a trap with every kind of EXITCODE, and two unwaited     *)
(* commands that run at the same time.  The message is one block larger    *)
(* than a pipe and the output of a command can exceed its limit.           *)
(***************************************************************************)
EXTENDS CommandRunner

Plain(form) == [form |-> form, childStatus |-> "wait", writeErrors |-> "fail", lock |-> FALSE]

Flags(form, status, errors) ==
    [form : {form}, childStatus : status, writeErrors : errors, lock : {TRUE}]

Requests ==
    {Plain("condition"), Plain("expand")}
        \cup Flags("pipe", {"wait", "quiet"}, {"fail", "ignore"})
        \cup Flags("unwaited", {"ignore"}, {"fail", "ignore"})
        \cup Flags("stdout", {"quiet"}, {"fail", "ignore"})
        \cup Flags("capture", {"wait"}, {"fail"}) \cup Flags("capture", {"ignore"}, {"ignore"})
        \cup Flags("filter", {"wait"}, {"fail"}) \cup Flags("filter", {"ignore"}, {"ignore"})

Single == {[requests |-> <<r>>, trap |-> FALSE, exitcode |-> "absent"] :
                r \in Requests}

Unwaited(e) == [form |-> "unwaited", childStatus |-> "ignore", writeErrors |-> e, lock |-> TRUE]

Trapped == {[requests |-> <<>>, trap |-> TRUE, exitcode |-> e] :
                e \in {"absent", "empty", "set"}}

Pairs == {[requests |-> <<Unwaited("fail"), Unwaited("ignore")>>, trap |-> FALSE,
           exitcode |-> "absent"]}

MCScripts == Single \cup Trapped \cup Pairs
=============================================================================
