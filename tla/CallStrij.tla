------------------------------ MODULE CallStrij ------------------------------
(***************************************************************************)
(* The arguments of a `call` task: what the pass before the run accepts    *)
(* and what becomes of them when the step runs                             *)
(* (task_handlers/openworkflow/call_strij.cc).  Amounts are numbers of     *)
(* bounded width: unsigned ones are below 2^WordBits, signed ones take     *)
(* half of that on each side of zero, and a double has Mantissa bits.      *)
(***************************************************************************)
EXTENDS Integers, WorkflowExpressions

CONSTANTS WordBits, Mantissa

Fraction == [t |-> "fraction"]
Scalars == {"text", "int", "double", "fraction", "bool"}

\* The distance between neighbouring doubles around n > 0, and n as a double
\* (to the nearest, ties to the even multiple).
Ulp(n) == LET k == CHOOSE k \in 0 .. 2 * WordBits : 2^k <= n /\ n < 2^(k + 1)
          IN  IF k < Mantissa THEN 1 ELSE 2^(k + 1 - Mantissa)
ToDouble(n) ==
    IF n <= 0 THEN n
    ELSE LET u == Ulp(n)
             rest == n % u
             below == n - rest
         IN  IF 2 * rest < u \/ (2 * rest = u /\ (below \div u) % 2 = 0)
             THEN below ELSE below + u

\* The value a number of the document is decoded to.
DecodeNumber(n) ==
    IF -(2^(WordBits - 1)) <= n /\ n < 2^(WordBits - 1) THEN Whole(n)
    ELSE Double(ToDouble(n))

-----------------------------------------------------------------------------
ReservedTargets == {"http", "openapi", "asyncapi", "grpc", "mcp"}
ClassifyCallTarget(target, functions) ==
    IF target = "strij" THEN "strij"
    ELSE IF target \in ReservedTargets THEN "reserved"
    ELSE IF target \in functions THEN "declared_function" ELSE "unknown"

\* Mutant: the range check is left to the conversion.
CoerceUnchecked(amount) ==
    CASE amount.t = "int" -> {amount.n % 2^WordBits}
      [] amount.t = "double" -> {amount.n % 2^WordBits}
      [] OTHER -> {}

\* The amounts a requirement may be coerced to: none when it is rejected.
\* Converting a double that no unsigned word holds is undefined behaviour.
CoerceRequirement(amount) ==
    CASE amount.t = "int" -> IF amount.n < 0 THEN {} ELSE {amount.n}
      [] amount.t = "double" ->
           IF amount.n < 0 \/ amount.n > ToDouble(2^WordBits - 1) THEN {}
           ELSE IF amount.n < 2^WordBits THEN {amount.n} ELSE 0 .. 2^WordBits - 1
      [] OTHER -> {}

ValidateParameters(parameters) ==
    /\ parameters.t = "object"
    /\ \A k \in DOMAIN parameters.members :
          parameters.members[k].t \notin {"object", "array"}
ValidateRequirements(requirements) ==
    /\ requirements.t = "object"
    /\ \A k \in DOMAIN requirements.members :
          CoerceRequirement(requirements.members[k]) # {}

ValidateCallArguments(with) ==
    /\ with.t = "object"
    /\ DOMAIN with.members \subseteq {"type", "parameters", "requirements"}
    /\ "type" \in DOMAIN with.members
    /\ with.members["type"].t = "text"
    /\ ~IsExpression(with.members["type"].tokens)
    /\ "parameters" \in DOMAIN with.members =>
          ValidateParameters(with.members["parameters"])
    /\ "requirements" \in DOMAIN with.members =>
          ValidateRequirements(with.members["requirements"])

\* The whole pass over a call task.
ValidateCall(target, functions, with, loops) ==
    /\ LoopsAccepted(loops)
    /\ ClassifyCallTarget(target, functions) = "strij"
    /\ Validate(with, validationArguments(loops))
    /\ ValidateCallArguments(with)

-----------------------------------------------------------------------------
\* A result of an expression is rendered when it is a scalar other than null;
\* `rendered` says whether the program's one output is.
RenderScalar(v, rendered) ==
    CASE v.t = "result" -> IF rendered THEN v ELSE Failure
      [] v.t \in Scalars -> v
      [] OTHER -> Failure

projectParameter(member, json, locals, outputs, rendered) ==
    IF member.t = "text" /\ IsExpression(member.tokens)
    THEN IF ~json THEN Failure
         ELSE LET s == Setting(FALSE, <<"context">>, locals, outputs)
              IN  RenderScalar(EvaluateText(member.tokens, s), rendered)
    ELSE RenderScalar(member, rendered)

Members(with, key) ==
    IF key \in DOMAIN with.members THEN with.members[key].members ELSE <<>>

\* The parameters and the possible amounts of the child's requirements, or a
\* failure of the step.
ProjectCall(with, json, loops, outputs, rendered) ==
    LET parameters == Members(with, "parameters")
        requirements == Members(with, "requirements")
        projected == [k \in DOMAIN parameters |->
                        projectParameter(parameters[k], json, lexicalArguments(loops),
                                         outputs, rendered)]
        amounts == [k \in DOMAIN requirements |-> CoerceRequirement(requirements[k])]
    IN  IF \/ \E k \in DOMAIN projected : Failed(projected[k])
           \/ \E k \in DOMAIN amounts : amounts[k] = {}
        THEN Failure
        ELSE [t |-> "call", parameters |-> projected, requirements |-> amounts]
=============================================================================
