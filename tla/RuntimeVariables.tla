-------------------------- MODULE RuntimeVariables --------------------------
(***************************************************************************)
(* Variables of a run: the names with a meaning (src/config/variables.rs), *)
(* the positional arguments (src/config/arguments.rs), the values while a  *)
(* message is processed (src/runtime.rs) and the settings read from them   *)
(* (src/runtime/settings.rs).                                              *)
(*                                                                         *)
(* A value is a byte sequence; a name without a value was never assigned   *)
(* or is in `removed`, and the two are not the same for a positional name. *)
(* The layers made by fork() are flattened: a copy of the record is a fork.*)
(***************************************************************************)
EXTENDS ShellExpression

CONSTANTS MaxSeconds,         \* MAX_PROCESS_TIMEOUT_SECONDS and its like
          MaxArgumentLen, MaxArgumentBytes,
          RootRc              \* the path of the root rc file

(***************************************************************************)
(* Assignment targets.                                                     *)
(***************************************************************************)
PathTargets == {"MAILDIR", "LOGFILE", "LOCKFILE"}
MessageLimits == {"LIMIT_MSG_SIZE"}
RcLimits == {"LIMIT_RC_STATEMENTS"}

\* value_limit
ValueLimit(name) ==
    IF name \in PathTargets \union {"LOCKEXT"} THEN MaxPathLen ELSE MaxValueLen

\* supports_conditional_assignment
ConditionalAllowed(name) ==
    name \notin {"LOGFILE", "LOGDETAIL", "VERBOSE", "DURABILITY"}
                \union MessageLimits \union RcLimits

\* allowed_in_runtime_rc
AllowedInRuntimeRc(name) ==
    name \notin {"LOGFILE", "LOGDETAIL", "VERBOSE", "DURABILITY", "LOCKEXT",
                 "EXITCODE"} \union MessageLimits

\* controls_rc_parsing
ControlsRcParsing(name) == name \in RcLimits \union {"LINEBUF"}

(***************************************************************************)
(* Validation of values.                                                   *)
(***************************************************************************)
Slash == 47
Seconds(text) == IsNumber(text) /\ Number(text) \in 1..MaxSeconds
Octal(text) == \A i \in DOMAIN text : text[i] \in 48..55

\* parse_umask
ValidUmask(text) ==
    /\ Len(text) \in 1..4
    /\ Octal(text)
    /\ Len(text) = 4 => text[1] = 48

\* parse_shift: saturates at the number of positional names, 0 is invalid
ShiftAmount(text) ==
    FoldLeft(LAMBDA n, b : Smaller(10 * n + b - 48, MaxPositional), 0, text)
ValidShift(text) == IsNumber(text) /\ ShiftAmount(text) # 0

\* parse_linebuf
ValidLinebuf(text) == IsNumber(text) /\ Number(text) \in MinLinebuf..MaxLinebuf

\* validate_resolved_value
ValidResolved(name, text) ==
    CASE name \in {"TIMEOUT", "LOCKSLEEP", "LOCKTIMEOUT"} -> Seconds(text)
      [] name = "UMASK" -> ValidUmask(text)
      [] name = "LOCKEXT" -> \A i \in DOMAIN text : text[i] \notin {0, Slash}
      [] name = "TRAP" -> \A i \in DOMAIN text : text[i] # 0
      [] name = "SHIFT" -> ValidShift(text)
      [] OTHER -> TRUE

\* validate_known_value: the lock settings are checked when they are used
ValidKnown(name, text) ==
    name \in {"LOCKSLEEP", "LOCKTIMEOUT"} \/ ValidResolved(name, text)

(***************************************************************************)
(* PositionalArguments::push, over the whole command line: the arguments   *)
(* are accepted or the program does not start.                             *)
(***************************************************************************)
ArgumentsAccepted(arguments) ==
    /\ Len(arguments) <= MaxPositional
    /\ \A i \in DOMAIN arguments : Len(arguments[i]) <= MaxArgumentLen
    /\ Len(FlattenSeq(arguments)) <= MaxArgumentBytes

(***************************************************************************)
(* RuntimeVariables.                                                       *)
(***************************************************************************)
NoVariables == [vals |-> NoNames, removed |-> {}, rc |-> RootRc]

SetVariable(rt, name, text) ==
    [rt EXCEPT !.vals = [n \in DOMAIN @ \union {name} |->
                            IF n = name THEN text ELSE @[n]],
               !.removed = @ \ {name}]

RemoveVariable(rt, name) ==
    [rt EXCEPT !.vals = [n \in DOMAIN @ \ {name} |-> @[n]],
               !.removed = @ \union {name}]

\* RuntimeVariables::default, and run, which sets the path of the root file;
\* TIMEOUT belongs to the model of commands
DefaultVariables ==
    [NoVariables EXCEPT !.vals = [n \in {"LINEBUF", "UMASK", "LOCKEXT"} |->
        CASE n = "LINEBUF" -> Decimal(DefaultLinebuf)
          [] n = "UMASK" -> <<48, 55, 55>>
          [] n = "LOCKEXT" -> <<46>>]]

\* The supplied variables and arguments as statements: they are executed
\* before the first recipe, and again whenever the recipes are
InitialAssignments(supplied, arguments) ==
    LET initial(name, text) == [k |-> "initial", name |-> name, text |-> text]
    IN  [i \in DOMAIN supplied |-> initial(supplied[i][1], supplied[i][2])] \o
        [i \in DOMAIN arguments |-> initial(Positional(i), arguments[i])] \o
        (IF arguments = <<>> THEN <<>>
         ELSE <<initial("#", Decimal(Len(arguments)))>>)

\* get: `_` is the rc file in execution, `-` another name of LASTFOLDER; a
\* positional name that was never assigned is empty, `#` is 0
View(rt) ==
    LET defaults == PositionalNames \ (DOMAIN rt.vals \union rt.removed)
        special  == {"_"} \union (IF "LASTFOLDER" \in DOMAIN rt.vals THEN {"-"} ELSE {})
    IN  [n \in DOMAIN rt.vals \union defaults \union special |->
            [depth |-> 0,
             text |-> CASE n = "_" -> rt.rc
                        [] n = "-" -> rt.vals["LASTFOLDER"]
                        [] n \in DOMAIN rt.vals -> rt.vals[n]
                        [] n = "#" /\ n \notin DOMAIN rt.vals -> <<48>>
                        [] OTHER -> <<>>]]

\* values(): what a loaded rc file is prepared with
VisibleValues(rt) == [n \in DOMAIN rt.vals |-> [text |-> rt.vals[n], depth |-> 0]]

\* shift_positionals
ShiftPositionals(rt, requested) ==
    With(View(rt), LAMBDA view :
    With(IF "#" \in DOMAIN view THEN Number(view["#"].text) ELSE 0, LAMBDA count :
    LET amount    == Smaller(requested, count)
        remaining == count - amount
        text(i)   == IF Positional(i + amount) \in DOMAIN view
                     THEN view[Positional(i + amount)].text ELSE <<>>
    IN  With(FoldLeft(LAMBDA r, i :
                IF i <= remaining THEN SetVariable(r, Positional(i), text(i))
                ELSE RemoveVariable(r, Positional(i)),
                rt, [i \in 1..MaxPositional |-> i]), LAMBDA moved :
            SetVariable(moved, "#", Decimal(remaining)))))

\* clear_numbered_match_values and clear_match_values
ClearNumbered(rt) == RemoveVariable(rt, "MATCH1")
ClearMatch(rt) == RemoveVariable(ClearNumbered(rt), "MATCH")

\* ResolvedAssignment::apply: <<error, variables>>
ApplyAssignment(rt, name, text) ==
    IF name # "SHIFT" THEN <<"none", SetVariable(rt, name, text)>>
    ELSE IF ~ValidShift(text) THEN <<"shift", rt>>
    ELSE <<"none", ShiftPositionals(RemoveVariable(rt, "SHIFT"), ShiftAmount(text))>>

(***************************************************************************)
(* RuntimeSettings: read at every use, never cached.                       *)
(***************************************************************************)
SettingIsValid(rt, name) ==
    name \in DOMAIN rt.vals =>
        IF name = "LINEBUF" THEN ValidLinebuf(rt.vals[name])
        ELSE ValidResolved(name, rt.vals[name])

\* linebuf()
LinebufSetting(rt) ==
    IF "LINEBUF" \in DOMAIN rt.vals THEN Number(rt.vals["LINEBUF"])
    ELSE DefaultLinebuf

\* maildir(): an empty value counts as unset
MaildirSetting(rt) ==
    IF "MAILDIR" \in DOMAIN rt.vals /\ rt.vals["MAILDIR"] # <<>>
    THEN <<rt.vals["MAILDIR"]>> ELSE <<>>
=============================================================================
