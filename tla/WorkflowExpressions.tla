------------------------- MODULE WorkflowExpressions -------------------------
(***************************************************************************)
(* Runtime expressions of OpenWorkflow documents: how the pass before the  *)
(* run finds and compiles them, and how the run evaluates them             *)
(* (task_handlers/openworkflow/expression.cc, and the parts of             *)
(* interpreter.cc and frame.cc that hand them their variables).            *)
(*                                                                         *)
(* A text is a sequence of tokens: the wrapper's "${" and "}", names of    *)
(* variables and other words.  jq is external: a program compiles when it  *)
(* holds no wrapper token and names bound variables only; running it       *)
(* yields no output, one, several or an error, and its one output is the   *)
(* record of the values its variables had.                                 *)
(***************************************************************************)
EXTENDS Naturals, Sequences, SequencesExt

Open == "${"
Close == "}"
Reserved == {"context", "input", "output"}

Text(tokens) == [t |-> "text", tokens |-> tokens]
Array(items) == [t |-> "array", items |-> items]
Object(members) == [t |-> "object", members |-> members]
NullValue == [t |-> "null"]
Whole(n) == [t |-> "int", n |-> n]
Double(n) == [t |-> "double", n |-> n]
Failure == [t |-> "failure"]

Failed(v) == v.t = "failure"

IsExpression(tokens) ==
    Len(tokens) >= 2 /\ Head(tokens) = Open /\ Last(tokens) = Close
HasPartialWrapper(tokens) ==
    (\E i \in DOMAIN tokens : tokens[i] = Open) /\ ~IsExpression(tokens)
ExpressionProgram(tokens) == SubSeq(tokens, 2, Len(tokens) - 1)

-----------------------------------------------------------------------------
(* Variables.                                                              *)

\* Mutant: a variable set in which the last local of a name wins.
makeVariableSetLast(reserved, locals) ==
    LET New(i) == /\ locals[i].name # ""
                  /\ \A r \in DOMAIN reserved : reserved[r] # locals[i].name
                  /\ \A j \in i + 1 .. Len(locals) : locals[j].name # locals[i].name
        kept == SelectSeq([i \in DOMAIN locals |-> i], New)
    IN  [names |-> reserved \o [k \in DOMAIN kept |-> locals[kept[k]].name],
         locals |-> [k \in DOMAIN kept |-> locals[kept[k]]]]

\* The names passed to jq: the reserved ones, then each local whose name is
\* new; `locals` are those locals in the same order.
makeVariableSet(reserved, locals) ==
    LET New(i) == /\ locals[i].name # ""
                  /\ \A r \in DOMAIN reserved : reserved[r] # locals[i].name
                  /\ \A j \in 1 .. i - 1 : locals[j].name # locals[i].name
        kept == SelectSeq([i \in DOMAIN locals |-> i], New)
    IN  [names |-> reserved \o [k \in DOMAIN kept |-> locals[kept[k]].name],
         locals |-> [k \in DOMAIN kept |-> locals[kept[k]]]]

TaskResultSlots == {"output.as", "export.as"}
typedSlotReservedNames(slot) ==
    IF slot \in TaskResultSlots THEN <<"context", "input", "output">>
    ELSE <<"context">>

\* A declared loop variable: nothing, or a name with or without a leading $.
\* A name of blanks is the empty name; "9x" stands for what is no identifier.
isIdentifier(name) == name \notin {"", "9x"}
normalizeLoopName(declared, fallback) ==
    IF declared = <<>> \/ declared = <<FALSE, "">> THEN fallback ELSE declared[2]

\* The names of a loop, or the empty tuple when the document is malformed.
NormalizeLoopVariables(each, at) ==
    LET e == normalizeLoopName(each, "item")
        a == normalizeLoopName(at, "index")
    IN  IF /\ isIdentifier(e) /\ isIdentifier(a) /\ e # a
           /\ {e, a} \cap Reserved = {}
        THEN <<e, a>> ELSE <<>>

-----------------------------------------------------------------------------
(* jq.                                                                     *)

IsName(token) == token \notin {Open, Close, "word"}
Compiles(program, names) ==
    \A i \in DOMAIN program :
       /\ program[i] \notin {Open, Close}
       /\ IsName(program[i]) => \E k \in DOMAIN names : names[k] = program[i]

\* buildArgs pairs names and values by position.
Env(names, args) == [x \in ToSet(names) |->
                       args[CHOOSE k \in DOMAIN names : names[k] = x]]

\* ExpressionEngine::run: exactly one output is required.
run(program, names, args, outputs) ==
    IF ~Compiles(program, names) \/ outputs # "one" THEN Failure
    ELSE LET used == {x \in ToSet(program) : IsName(x)}
         IN  [t |-> "result", seen |-> [x \in used |-> Env(names, args)[x]]]

-----------------------------------------------------------------------------
(* The pass before the run.                                                *)

\* The programs in a value; a text in a typed slot has to be one.
RECURSIVE Programs(_, _)
Programs(value, typed) ==
    LET Children == IF value.t = "array" THEN ToSet(value.items)
                    ELSE {value.members[k] : k \in DOMAIN value.members}
    IN  CASE value.t = "text" ->
               IF IsExpression(value.tokens)
               THEN {[ok |-> TRUE, program |-> ExpressionProgram(value.tokens)]}
               ELSE IF typed \/ HasPartialWrapper(value.tokens)
                    THEN {[ok |-> FALSE, program |-> <<>>]} ELSE {}
          [] value.t \in {"array", "object"} ->
               UNION {Programs(child, typed) : child \in Children}
          [] OTHER -> {}

CollectExpressions(value) == Programs(value, FALSE)
collectTypedPrograms(value) == Programs(value, TRUE)

ValidPrograms(found, names) ==
    \A p \in found : p.ok /\ Compiles(p.program, names)

Validate(value, locals) ==
    ValidPrograms(CollectExpressions(value), makeVariableSet(<<"context">>, locals).names)
ValidateTypedSlot(value, slot, locals) ==
    ValidPrograms(collectTypedPrograms(value),
                  makeVariableSet(typedSlotReservedNames(slot), locals).names)

-----------------------------------------------------------------------------
(* Evaluation.                                                             *)

Values(locals) == [k \in DOMAIN locals |-> locals[k].value]

\* What an evaluation hands to each program it meets.
Setting(typed, reserved, locals, outputs) ==
    LET variables == makeVariableSet(reserved, locals)
    IN  [typed |-> typed, names |-> variables.names,
         args |-> reserved \o Values(variables.locals), outputs |-> outputs]

EvaluateText(tokens, s) ==
    IF IsExpression(tokens) THEN run(ExpressionProgram(tokens), s.names, s.args, s.outputs)
    ELSE IF s.typed \/ HasPartialWrapper(tokens) THEN Failure ELSE Text(tokens)

\* The value with every expression replaced by its result.
RECURSIVE EvaluateIn(_, _)
EvaluateIn(value, s) ==
    CASE value.t = "text" -> EvaluateText(value.tokens, s)
      [] value.t = "array" ->
           LET items == [i \in DOMAIN value.items |-> EvaluateIn(value.items[i], s)]
           IN  IF \E i \in DOMAIN items : Failed(items[i]) THEN Failure ELSE Array(items)
      [] value.t = "object" ->
           LET members == [k \in DOMAIN value.members |-> EvaluateIn(value.members[k], s)]
           IN  IF \E k \in DOMAIN members : Failed(members[k]) THEN Failure
               ELSE Object(members)
      [] OTHER -> value

Evaluate(value, locals, outputs) ==
    EvaluateIn(value, Setting(FALSE, <<"context">>, locals, outputs))
EvaluateTypedSlot(value, slot, locals, outputs) ==
    EvaluateIn(value, Setting(TRUE, typedSlotReservedNames(slot), locals, outputs))

-----------------------------------------------------------------------------
(* The variables of an expression inside nested loops.  `loops` holds what *)
(* the enclosing for tasks declare, the outermost first.                   *)

LoopNames(loops, i) == NormalizeLoopVariables(loops[i].each, loops[i].at)

\* validateTask adds the names of a loop behind those of the enclosing ones
\* and has no values for them.
RECURSIVE validationArguments(_)
validationArguments(loops) ==
    IF loops = <<>> THEN <<>>
    ELSE LET names == LoopNames(loops, Len(loops))
         IN  validationArguments(Front(loops))
               \o <<[name |-> names[1], value |-> "none"],
                    [name |-> names[2], value |-> "none"]>>

\* The scope chain of the run starts with the innermost loop.
RECURSIVE lexicalArguments(_)
lexicalArguments(loops) ==
    IF loops = <<>> THEN <<>>
    ELSE LET i == Len(loops)
             names == LoopNames(loops, i)
         IN  <<[name |-> names[1], value |-> <<"item", i>>],
               [name |-> names[2], value |-> <<"index", i>>]>>
               \o lexicalArguments(Front(loops))

LoopsAccepted(loops) == \A i \in DOMAIN loops : LoopNames(loops, i) # <<>>

\* A for task's `in` is evaluated outside its own loop, everything else inside.
ScopeOf(site, loops) == IF site = "for.in" /\ loops # <<>> THEN Front(loops) ELSE loops

\* The slots whose texts are expressions, and the values that admit literals.
TypedSlots == {"if", "input.from", "output.as", "export.as", "switch.when",
               "for.in", "for.while"}
ValueSites == {"set", "for.in.array", "call.with"}

Validated(site, value, loops) ==
    /\ LoopsAccepted(loops)
    /\ LET locals == validationArguments(ScopeOf(site, loops))
       IN  IF site \in TypedSlots THEN ValidateTypedSlot(value, site, locals)
           ELSE Validate(value, locals)

Evaluated(site, value, loops, outputs) ==
    LET locals == lexicalArguments(ScopeOf(site, loops))
    IN  IF site \in TypedSlots THEN EvaluateTypedSlot(value, site, locals, outputs)
        ELSE Evaluate(value, locals, outputs)

-----------------------------------------------------------------------------
(* What the document means by a name: the nearest loop that declares it.   *)

Meaning(x, loops) ==
    IF x \in Reserved THEN x
    ELSE LET declaring == {i \in DOMAIN loops : x \in ToSet(LoopNames(loops, i))}
             i == CHOOSE i \in declaring : \A j \in declaring : j <= i
         IN  IF LoopNames(loops, i)[1] = x THEN <<"item", i>> ELSE <<"index", i>>

\* Every expression of the value has seen the variables the document means.
RECURSIVE SeesMeaning(_, _)
SeesMeaning(v, loops) ==
    CASE v.t = "result" -> \A x \in DOMAIN v.seen : v.seen[x] = Meaning(x, loops)
      [] v.t = "array" -> \A i \in DOMAIN v.items : SeesMeaning(v.items[i], loops)
      [] v.t = "object" -> \A k \in DOMAIN v.members : SeesMeaning(v.members[k], loops)
      [] OTHER -> TRUE
=============================================================================
