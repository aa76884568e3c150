----------------------------- MODULE RuntimeRc -----------------------------
(***************************************************************************)
(* Files loaded by INCLUDERC and SWITCHRC while a message is processed     *)
(* (src/eval/runtime_rc.rs): the limits, the loader (src/rc_file.rs), and  *)
(* the cache that every statement keeps by resolved path.                  *)
(*                                                                         *)
(* The trees of the cache nest: a statement of a loaded file has its own   *)
(* cache, which belongs to that loaded tree.  Here one function holds all  *)
(* entries; the key is the path of <<statement, file>> pairs from the root.*)
(* A loaded file is "empty", "failed" or "sequence".  Reading takes no     *)
(* time and a file does not change.                                        *)
(***************************************************************************)
EXTENDS RecipeTree

CONSTANTS RcFiles,        \* path -> [stmts, trusted]; other paths do not exist
          MaxRcFiles,     \* MAX_RC_FILE_COUNT
          MaxRcDepth,     \* MAX_RC_INCLUDE_DEPTH
          MaxTransitions, \* MAX_RC_TRANSITIONS
          MaxStatements,  \* MAX_RC_STATEMENTS, the default
          HardStatements  \* HARD_MAX_RC_STATEMENTS

\* RuntimeRcState::new and RcFileLoader::for_root with account_root_config
NewRcState(rootCount) ==
    [transitions |-> 0, files |-> 1, parsed |-> rootCount,
     cache |-> [key \in {} |-> <<>>],
     ordered |-> FALSE, body |-> FALSE, full |-> FALSE, failed |-> 0]

\* record_transition
RecordTransition(rc) ==
    IF rc.transitions + 1 > MaxTransitions THEN <<"limit", rc>>
    ELSE <<"none", [rc EXCEPT !.transitions = @ + 1]>>

\* reset_transitions
ResetTransitions(rc) == [rc EXCEPT !.transitions = 0]

(***************************************************************************)
(* RcFileLoader.                                                           *)
(***************************************************************************)
\* RcFileLoader::load: an attempt counts, whether or not the file is good
LoadFile(rc, path, depth) ==
    IF depth > MaxRcDepth \/ rc.files >= MaxRcFiles THEN <<"limit", rc>>
    ELSE <<IF path \in DOMAIN RcFiles /\ RcFiles[path].trusted THEN "none" ELSE "file",
           [rc EXCEPT !.files = @ + 1]>>

\* activate_runtime_limits: the limit of the moment, <<error, limit>>
ActiveStatementLimit(rt) ==
    LET name == "LIMIT_RC_STATEMENTS"
    IN  IF name \notin DOMAIN rt.vals THEN <<"none", MaxStatements>>
        ELSE IF ~IsNumber(rt.vals[name]) THEN <<"file", 0>>
        ELSE IF Number(rt.vals[name]) > HardStatements THEN <<"limit", 0>>
        ELSE <<"none", Number(rt.vals[name])>>

\* The statements the parser counts, blocks included
RECURSIVE CountStatements(_)
CountStatements(stmts) ==
    FoldLeft(LAMBDA n, stmt : n + 1 + (IF stmt.k = "recipe" /\ stmt.act.k = "block"
                                       THEN CountStatements(stmt.act.items) ELSE 0),
             0, stmts)

\* validate_runtime_settings
RECURSIVE SettingsAllowed(_)
SettingsAllowed(stmts) ==
    \A i \in DOMAIN stmts :
        /\ stmts[i].k \in {"assign", "unset"} => AllowedInRuntimeRc(stmts[i].name)
        /\ stmts[i].k = "recipe" /\ stmts[i].act.k = "block" =>
                SettingsAllowed(stmts[i].act.items)

\* load_prepared_config: <<error, rc, statements>>; an empty path is no file
LoadPreparedConfig(rc, path, rt, depth) ==
    LET read     == LoadFile(rc, path, depth)
    IN  With(ActiveStatementLimit(rt), LAMBDA limit :
        LET stmts    == RcFiles[path].stmts
        IN  With(rc.parsed + CountStatements(stmts), LAMBDA total :
            LET counted  == [read[2] EXCEPT !.parsed = total]
            IN  With(ExpandLoaded(stmts, rt), LAMBDA prepared :
                    IF read[1] # "none" THEN <<read[1], read[2], <<>>>>
                    ELSE IF limit[1] # "none" THEN <<limit[1], read[2], <<>>>>
                    ELSE IF total > limit[2] THEN <<"limit", read[2], <<>>>>
                    ELSE IF ~SettingsAllowed(stmts) THEN <<"file", counted, <<>>>>
                    ELSE IF prepared[1] # "none" THEN <<"file", counted, <<>>>>
                    ELSE <<"none", counted, prepared[2]>>)))

(***************************************************************************)
(* Entering a file.                                                        *)
(***************************************************************************)
Kept(rc, key, entry) ==
    [rc EXCEPT !.cache = [k \in DOMAIN @ \union {key} |->
                            IF k = key THEN entry ELSE @[k]]]
EmptyFile == [k |-> "empty"]
FailedFile == [k |-> "failed"]

\* load_runtime_rc behind the cache: compile, note what the file needs
LoadNew(rc, stmt, path, key, rt, depth) ==
    With(LoadPreparedConfig(rc, path, rt, depth + 1), LAMBDA loaded :
    With(CompileSequence(loaded[3], <<>>), LAMBDA seq :
        IF stmt.k = "switch" /\ path = DevNull
        THEN <<"none", Kept(rc, key, EmptyFile), EmptyFile>>
        ELSE IF path = <<>> THEN <<"none", Kept(rc, key, EmptyFile), EmptyFile>>
        ELSE IF loaded[1] = "limit" THEN <<"rc", loaded[2], FailedFile>>
        ELSE IF loaded[1] # "none"
        THEN <<"none", Kept([loaded[2] EXCEPT !.failed = @ + 1], key, FailedFile),
               FailedFile>>
        ELSE LET entry == [k |-> "sequence", seq |-> seq, path |-> path]
             IN  <<"none",
                   Kept([loaded[2] EXCEPT !.full = @ \/ seq.props.full,
                                          !.body = @ \/ "body" \in seq.props.needs,
                                          !.ordered = @ \/ seq.props.ordered],
                        key, entry),
                   entry>>))

\* enter_runtime_rc and load_runtime_rc: <<error, rc, loaded, key>>
EnterRc(rc, stmt, rt, at, depth) ==
    LET counted == RecordTransition(rc)
    IN  With(ResolveRcPath(stmt.word, View(rt)), LAMBDA path :
        LET key     == Append(at, <<stmt.id, path[2]>>)
        IN  With(LoadNew(counted[2], stmt, path[2], key, rt, depth), LAMBDA new :
                IF counted[1] # "none" THEN <<"rc", counted[2], FailedFile, key>>
                ELSE IF path[1] # "none" THEN <<path[1], counted[2], FailedFile, key>>
                ELSE IF key \in DOMAIN rc.cache
                THEN <<"none", counted[2], rc.cache[key], key>>
                ELSE <<new[1], new[2], new[3], key>>))
=============================================================================
