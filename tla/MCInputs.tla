------------------------------- MODULE MCInputs -------------------------------
(***************************************************************************)
(* What the two programs are given, and what they make of it: frames       *)
(* (TlvParser), HTTP requests (HttpRequest), workflow documents            *)
(* (WorkflowDecoder), the expressions and calls in them                    *)
(* (WorkflowExpressions, CallStrij) and configurations (ConfigLoader).     *)
(* A behaviour reads one stream of frames, in any pieces, or receives one  *)
(* other input and processes it; the inputs are small sets in which every  *)
(* branch of the code is taken.                                            *)
(***************************************************************************)
EXTENDS TlvParser, FiniteSets

CONSTANTS MaxFrames,     \* bound on the frames of a stream
          ValueLengths,  \* value lengths around the boundaries of the buffer
          ChunkSize, Word64, WordBits, Mantissa, Word, Short

VARIABLES input, result

D == INSTANCE WorkflowDecoder
X == INSTANCE CallStrij
C == INSTANCE ConfigLoader
H == INSTANCE HttpRequest

MCStreams == UNION {[1..n -> ValueLengths] : n \in 0..MaxFrames}

Pending == [kind |-> "pending"]
Done == result # Pending

-----------------------------------------------------------------------------
(* Requests: paths, at most two headers, bodies in one or more parts, and  *)
(* the sizes of the reads, in turns.                                       *)

Paths == {<<"/tasks/", "echo">>, <<"/tasks/", "echo", "?", "q">>, <<"/tasks/">>,
          <<"/tasks/", "?", "q">>, <<"/other">>, <<"/other", "echo">>}
Header(name, value) == [name |-> name, value |-> value]
Amounts == {<<>>, <<"zero">>, <<"one", "text">>, <<"text">>, <<"-", "one">>, <<"-">>, <<"last">>,
            <<"over">>}
Pool == {<<"x-strij-", "resources.", "cpu">>, <<"X-Strij-", "resources-", "cpu">>,
         <<"x-strij-", "resources.">>}
Headers == {Header(name, value) : name \in Pool, value \in Amounts}
             \cup {Header(name, <<"text">>) :
                     name \in {<<"host">>, <<"x-strij-">>, <<"X-Strij-", "Key">>,
                              <<"x-strij-", "key">>}}
Bodies == {<<>>, <<<<"a", "b">>>>, <<<<"a", "b", "c">>, <<"d">>, <<"e", "f", "g">>>>}
ReadSizes == {1, 2, 3, ChunkSize}
Request(path, headers, body, chunked) ==
    [path |-> path, headers |-> headers, body |-> body, chunked |-> chunked]

ChooseRequest ==
    \/ \E path \in Paths : \E h \in Headers : \E body \in Bodies : \E chunked \in BOOLEAN :
         \E i, j \in ReadSizes :
            input = [kind |-> "request", reads |-> <<i, j>>,
                     request |-> Request(path, <<h>>, body, chunked)]
    \/ \E h, g \in Headers : \E i \in ReadSizes :
            input = [kind |-> "request", reads |-> <<i>>,
                     request |-> Request(<<"/tasks/", "echo">>, <<h, g>>, <<<<"a">>>>, FALSE)]

-----------------------------------------------------------------------------
(* Documents: around the smallest node a decode function accepts, one or   *)
(* two keys are added, replaced or dropped.                                *)

Single(k, v) == [x \in {k} |-> v]

RECURSIVE Least(_, _)
Least(name, selection) ==
    LET Smallest(s) == Least(s, "set")
        LeastRecord(shape, chosen) ==
          LET keys == shape.required \cup ({chosen} \cap shape.one)
                        \cup (IF chosen = "for" THEN {"do"} ELSE {})
          IN  D!Map([k \in keys |-> Smallest(shape.fields[k])])
        LeastOf(shape) ==
          CASE shape.form \in {"string", "value"} -> D!Scalar("text")
            [] shape.form \in {"int", "bool"} -> D!Scalar(shape.form)
            [] shape.form = "strings" -> D!Seq_(<<D!Scalar("text")>>)
            [] shape.form = "seqOf" -> D!Seq_(<<Smallest(shape.of)>>)
            [] shape.form = "mapOf" -> D!Map(Single("x", Smallest(shape.of)))
            [] shape.form = "namedOf" -> D!Seq_(<<D!Map(Single("x", Smallest(shape.of)))>>)
            [] shape.form = "tasks" -> D!Map(Single("x", Smallest("task")))
            [] shape.form \in {"scalarOr", "reference"} -> Smallest(shape.of)
            [] shape.form = "record" ->
                 LeastRecord(shape, IF selection \in shape.one \/ shape.one = {} THEN selection
                                    ELSE CHOOSE k \in shape.one : TRUE)
    IN  LeastOf(D!Shapes[name])

RecordNames == {name \in DOMAIN D!Shapes : D!Shapes[name].form \in {"record", "reference"}}
Deref(shape) == IF shape.form = "reference" THEN D!Shapes[shape.of] ELSE shape
RecordOf(name) == Deref(Deref(D!Shapes[name]))
Selections(record) == IF record.one = {} THEN {"none"} ELSE record.one

Keys(record) == DOMAIN record.fields \cup {"use", "unknown"}
Child(record, key) ==
    IF key \in DOMAIN record.fields THEN Least(record.fields[key], "none") ELSE D!Scalar("text")
Children(record, key) ==
    {D!Null, D!Scalar("text"), D!Seq_(<<>>), D!Map(D!None), Child(record, key)}

Put(n, k, v) == D!Map([x \in DOMAIN n.entries \cup {k} |->
                         IF x = k THEN v ELSE n.entries[x]])
Drop(n, k) == D!Map([x \in DOMAIN n.entries \ {k} |-> n.entries[x]])

ChooseDocument ==
    \E name \in RecordNames : \E record \in {RecordOf(name)} :
       \E selection \in Selections(record) : \E base \in {Least(name, selection)} :
          LET Node(n) == input = [kind |-> "document", shape |-> name, node |-> n]
          IN  \/ Node(base)
              \/ \E n \in {D!Null, D!Scalar("text"), D!Seq_(<<base>>)} : Node(n)
              \/ \E k \in DOMAIN base.entries : Node(Drop(base, k))
              \/ \E k \in Keys(record) : \E v \in Children(record, k) : Node(Put(base, k, v))
              \/ \E k, l \in Keys(record) :
                   \E v \in {D!Null, Child(record, k)} :
                      k # l /\ Node(Put(Put(base, k, v), l, Child(record, l)))

-----------------------------------------------------------------------------
(* Expressions inside up to two loops.                                     *)

VariableNames == {"context", "output", "item", "index", "x"}
Texts ==
    {<<>>, <<"word">>, <<X!Open, X!Close>>, <<X!Open, "word">>, <<X!Close>>}
      \cup {<<X!Open, n, X!Close>> : n \in VariableNames}
      \cup {<<X!Open, "word", n, m, X!Close>> : n, m \in {"item", "x"}}
      \cup {<<"word", X!Open, n, X!Close>> : n \in {"item"}}
      \cup {<<X!Open, n, X!Close, X!Open, n, X!Close>> : n \in {"item"}}

Declared == {<<>>, <<FALSE, "">>, <<TRUE, "">>, <<TRUE, "x">>, <<FALSE, "index">>,
             <<FALSE, "9x">>, <<FALSE, "output">>}
Loop(each, at) == [each |-> each, at |-> at]
AnyLoop == {Loop(each, at) : each \in Declared, at \in {<<>>, <<FALSE, "x">>, <<FALSE, "item">>}}
GoodLoop == {Loop(<<>>, <<>>), Loop(<<TRUE, "x">>, <<>>), Loop(<<FALSE, "index">>, <<FALSE, "item">>)}
Nests == {<<>>} \cup {<<l>> : l \in AnyLoop} \cup {<<l, m>> : l, m \in GoodLoop}

ValuesOf(t) == {X!Text(t), X!Array(<<X!NullValue, X!Text(t)>>),
                X!Object([a |-> X!Array(<<X!Text(t)>>)])}

ChooseExpression ==
    \E t \in Texts : \E v \in ValuesOf(t), loops \in Nests,
       site \in X!TypedSlots \cup X!ValueSites, outputs \in {"none", "one", "many"} :
         input = [kind |-> "expression", site |-> site, value |-> v, loops |-> loops,
                  outputs |-> outputs]

-----------------------------------------------------------------------------
(* Call arguments: each part is varied on its own beside a plain rest, and *)
(* the parameters with the outcome of their programs.                      *)

PlainType == X!Text(<<"word">>)
ParameterValues == {X!Text(t) : t \in Texts} \cup {X!NullValue, X!Whole(1), X!Fraction}
                     \cup {X!Array(<<>>)}
OtherAmounts == {X!Fraction, X!NullValue, PlainType, X!Text(<<X!Open, X!Close>>)}
WithAmount(v) == X!Object([type |-> PlainType, requirements |-> X!Object([r |-> v])])
Withs ==
    {X!Array(<<>>), X!Object([type |-> PlainType, unknown |-> PlainType]),
     X!Object([parameters |-> X!Object([p |-> PlainType])])}
      \cup {X!Object([type |-> v]) : v \in ParameterValues}
      \cup {X!Object([type |-> PlainType, parameters |-> X!Object([p |-> v])]) :
              v \in ParameterValues}
      \cup {X!Object([type |-> PlainType, parameters |-> PlainType])}
      \cup {X!Object([type |-> PlainType, requirements |-> PlainType])}
      \cup {WithAmount(v) : v \in OtherAmounts}

\* `written` is the number in the document that became the amount, if one did.
Call(target, with, written, loops, json, rendered, outputs) ==
    [kind |-> "call", target |-> target, with |-> with, written |-> written,
     loops |-> loops, json |-> json, rendered |-> rendered, outputs |-> outputs]

ChooseCall ==
    \/ \E target \in {"strij", "http", "declared", "other"}, with \in Withs,
          loops \in {<<>>, <<Loop(<<TRUE, "x">>, <<>>)>>}, json, rendered \in BOOLEAN,
          outputs \in {"none", "one"} :
            input = Call(target, with, {}, loops, json, rendered, outputs)
    \/ \E n \in -2 .. 2^(WordBits + 1) :
            input = Call("strij", WithAmount(X!DecodeNumber(n)), {n}, <<>>, FALSE, TRUE, "one")

-----------------------------------------------------------------------------
(* Configurations: for each setting, what the file, the environment and    *)
(* the flags say of it.  `Unsaid` is a layer that does not mention it.     *)

Unsaid == [t |-> "unsaid"]
Said(v) == v # Unsaid
Ports == {C!Number(n) : n \in {0, 1, Short - 1, Short, Short + 1, Word, Word + 2}}
           \cup {C!Name("junk")}
Levels == {C!Name("info"), C!Name("loud"), C!Name("")}
Seconds == {C!Number(0), C!Number(5), C!Name("junk")}
FlagPorts == {C!Number(n) : n \in {0, 1, Short, Short + 1}}
Layers(vs, flags) ==
    [file : {Unsaid} \cup vs, env : {Unsaid} \cup vs, flag : {Unsaid} \cup flags]

Plain == [file |-> C!Number(2), env |-> Unsaid, flag |-> Unsaid]
Silent == [file |-> Unsaid, env |-> Unsaid, flag |-> Unsaid]

\* Schedulers: what the file lists (a sequence of task types, or no list at
\* all) and how many elements the environment names.
Schedulers == [file : {<<>>, <<"a">>, <<"a", "b">>}, list : BOOLEAN, env : 0 .. 2]
OneScheduler == [file |-> <<"a">>, list |-> TRUE, env |-> 0]
Discoveries == {"none", "typed", "untyped", "unknown_type", "not_a_map", "bad_items"}

ChooseConfig ==
    \E service \in {"GatewayConfig", "NodeAgentConfig"} :
       LET Overridden(port, overrides) ==
             input = [kind |-> "config", service |-> service, port |-> port, level |-> Silent,
                      seconds |-> Silent, schedulers |-> OneScheduler, discovery |-> "none",
                      overrides |-> overrides]
           Given(port, level, seconds, schedulers, discovery) ==
             input = [kind |-> "config", service |-> service, port |-> port, level |-> level,
                      seconds |-> seconds, schedulers |-> schedulers, discovery |-> discovery,
                      overrides |-> <<>>]
       IN  \/ \E port \in Layers(Ports, FlagPorts) : Given(port, Silent, Silent, OneScheduler, "none")
           \/ \E level \in Layers(Levels, Levels) : Given(Plain, level, Silent, OneScheduler, "none")
           \/ \E seconds \in Layers(Seconds, {}) :
                Given(Plain, Silent, seconds, OneScheduler, "none")
           \/ \E schedulers \in Schedulers : Given(Plain, Silent, Silent, schedulers, "none")
           \/ \E discovery \in Discoveries :
                Given(Plain, Silent, Silent, OneScheduler, discovery)
           \/ \E port \in Layers(Ports, {}), o \in Ports, p \in {C!Number(3)} \cup Ports :
                \/ Overridden(port, <<o>>)
                \/ Overridden(port, <<p, o>>)

ListenerOf(service) == IF service = "GatewayConfig" THEN "http_listener" ELSE "tlv_listener"
PortFlag(service) == IF service = "GatewayConfig" THEN "http_port" ELSE "port"

\* The mapping with a key for each part of the file that is said.
Part(said, k, v) == IF said THEN Single(k, v) ELSE C!Nothing
FileOf(i) ==
    LET Item(w) == C!Dict(Single("task_type", C!Scalar(C!Name(w))))
        list == [n \in DOMAIN i.schedulers.file |-> Item(i.schedulers.file[n])]
        type(w) == Single("@type", C!Scalar(C!Name(w)))
        discovery ==
          CASE i.discovery = "typed" ->
                 C!Dict(Single("typed_config",
                   C!Dict(C!Over(type("StaticNodeDiscoveryConfig"),
                     Single("addresses", C!List(<<C!Scalar(C!Name("host:1"))>>))))))
            [] i.discovery = "bad_items" ->
                 C!Dict(Single("typed_config",
                   C!Dict(C!Over(type("StaticNodeDiscoveryConfig"),
                     Single("addresses", C!Scalar(C!Name("host:1")))))))
            [] i.discovery = "untyped" -> C!Dict(Single("typed_config", C!Dict(C!Nothing)))
            [] i.discovery = "unknown_type" -> C!Dict(Single("typed_config", C!Dict(type("None"))))
            [] i.discovery \in {"none", "not_a_map"} -> C!Scalar(C!Name("static"))
    IN  C!Dict(
          C!Over(Part(Said(i.port.file), ListenerOf(i.service),
                      C!Dict(Single("port", C!Scalar(i.port.file)))),
          C!Over(Part(Said(i.level.file), "logging",
                      C!Dict(Single("level", C!Scalar(i.level.file)))),
          C!Over(Part(Said(i.seconds.file), "heartbeat_interval",
                      C!Dict(Single("seconds", C!Scalar(i.seconds.file)))),
          C!Over(Part(i.discovery # "none", "node_discovery", discovery),
                 Single("schedulers", IF i.schedulers.list THEN C!List(list)
                                      ELSE C!Dict(C!Nothing)))))))
EnvOf(i) ==
    LET element == [n \in 0 .. 2 |-> <<"schedulers", n, "task_type">>]
    IN  C!Over(Part(Said(i.port.env), <<ListenerOf(i.service), "port">>, i.port.env),
        C!Over(Part(Said(i.level.env), <<"logging", "level">>, i.level.env),
        C!Over(Part(Said(i.seconds.env), <<"heartbeat_interval", "seconds">>, i.seconds.env),
               [p \in {element[n] : n \in 0 .. i.schedulers.env - 1} |-> C!Name("e")])))
FlagsOf(i) ==
    C!Over(Part(Said(i.port.flag), PortFlag(i.service), i.port.flag),
           Part(Said(i.level.flag), "log_level", i.level.flag))

\* Overrides of the port, among others that name no field of a message.
OverridesOf(i) ==
    LET Port(n) == [path |-> <<ListenerOf(i.service), "port">>, value |-> i.overrides[n]]
    IN  <<[path |-> <<"schedulers">>, value |-> C!Name("x")],
          [path |-> <<"schedulers", "task_type">>, value |-> C!Name("x")],
          [path |-> <<ListenerOf(i.service), "none">>, value |-> C!Name("x")]>>
          \o [n \in DOMAIN i.overrides |-> Port(n)]

-----------------------------------------------------------------------------
InputInit ==
    /\ Init /\ result = Pending
    /\ IF lens # <<>> THEN input = [kind |-> "frames"]
       ELSE /\ asserts
            /\ \/ ChooseRequest \/ ChooseDocument \/ ChooseExpression \/ ChooseCall
               \/ ChooseConfig

ReceiveRequest ==
    /\ input.kind = "request" /\ ~Done
    /\ result' = [kind |-> "received",
                  value |-> H!HandleMessage(H!Receive(H!Parser, H!OnTheWire(input.request),
                                                      input.reads))]
    /\ UNCHANGED input

DecodeDocument ==
    /\ input.kind = "document" /\ ~Done
    /\ result' = [kind |-> "decoded", value |-> D!Decode(input.shape, input.node)]
    /\ UNCHANGED input

EvaluateExpression ==
    /\ input.kind = "expression" /\ ~Done
    /\ result' = [kind |-> "evaluated",
                  valid |-> X!Validated(input.site, input.value, input.loops),
                  value |-> IF X!LoopsAccepted(input.loops)
                            THEN X!Evaluated(input.site, input.value, input.loops, input.outputs)
                            ELSE X!Failure]
    /\ UNCHANGED input

ProjectCall ==
    /\ input.kind = "call" /\ ~Done
    /\ LET valid == X!ValidateCall(input.target, {"declared"}, input.with, input.loops)
       IN  result' = [kind |-> "projected", valid |-> valid,
                      value |-> IF valid
                                THEN X!ProjectCall(input.with, input.json, input.loops,
                                                   input.outputs, input.rendered)
                                ELSE X!Failure]
    /\ UNCHANGED input

Configure ==
    /\ input.kind = "config" /\ ~Done
    /\ LET file == FileOf(input)
           env == EnvOf(input)
           flags == FlagsOf(input)
       IN  result' = [kind |-> "configured",
                      value |-> CASE input.overrides # <<>> ->
                                       C!LoadConfig(input.service, file, env, OverridesOf(input))
                                  [] input.overrides = <<>> /\ input.service = "GatewayConfig" ->
                                       C!RunGateway(file, env, flags)
                                  [] OTHER -> C!RunNodeAgent(file, env, flags)]
    /\ UNCHANGED input

InputNext ==
    \/ Next /\ UNCHANGED <<input, result>>
    \/ /\ ReceiveRequest \/ DecodeDocument \/ EvaluateExpression \/ ProjectCall \/ Configure
       /\ UNCHANGED vars
InputSpec == InputInit /\ [][InputNext]_<<vars, input, result>>

-----------------------------------------------------------------------------
(* Properties.                                                             *)

\* The task a request becomes does not depend on where its reads ended or on
\* how the chunks of the parser were filled: path, headers and body are those
\* the client sent (llhttp_parser.cc).  A resource header the gateway can read as
\* a number binds the scheduler to one of the amounts written for its pool, the
\* last of a name in any case; one that is too large, or no number, asks for
\* nothing, and one with a minus sign for what is left below 2^64.
RequestBecomesTask ==
    result.kind = "received" =>
       LET r == input.request
           task == result.value
           sent == [path |-> r.path, headers |-> r.headers, body |-> FlattenSeq(r.body)]
           AskedFor(pool, n) ==
             \E i \in DOMAIN r.headers :
                /\ pool = <<Last(r.headers[i].name)>> /\ r.headers[i].value # <<>>
                /\ \/ Head(r.headers[i].value) = "-" /\ n = Word64 - 1
                   \/ n = 0 /\ Head(r.headers[i].value) = "zero"
                   \/ n = 1 /\ Head(r.headers[i].value) = "one"
                   \/ n = Word64 - 1 /\ Head(r.headers[i].value) = "last"
       IN  /\ task = H!HandleMessage(sent)
           /\ task.status = 0 =>
                /\ task.body = sent.body
                /\ \A pool \in DOMAIN task.requirements :
                     /\ task.requirements[pool] # {}
                     /\ \A n \in task.requirements[pool] : AskedFor(pool, n)

\* decode.cc accepts a document only if everything written in it reaches the
\* decoded structure: no accepted key is dropped on the way, except `until`
\* beside `all` or `one` and the body keys of another kind of task, which
\* decodeEventConsumptionStrategy and decodeTask accept and never read.  What
\* was decoded is itself a document that decodes to the same structure.
NothingDropped ==
    result.kind = "decoded" /\ D!Ok(result.value) =>
       /\ D!Keeps(input.node, result.value)
       /\ D!Decode(input.shape, result.value) = result.value

\* The pass before the run accepts an expression exactly when the run can
\* evaluate it: accepted, it fails only if one of its programs does (no
\* output, or several), and every variable a program sees is the one of the
\* nearest enclosing loop that declares the name, although validateTask lists
\* the loops from the outside and LexicalScope from the inside; rejected, it
\* would have failed (expression.cc Validate, ValidateTypedSlot, Evaluate,
\* EvaluateTypedSlot).
ValidatedRuns ==
    result.kind = "evaluated" /\ X!LoopsAccepted(input.loops) =>
       /\ result.valid =>
            /\ X!Failed(result.value) <=>
                 X!CollectExpressions(input.value) # {} /\ input.outputs # "one"
            /\ X!SeesMeaning(result.value, X!ScopeOf(input.site, input.loops))
       /\ ~result.valid => X!Failed(result.value)

\* A call task that passed validation fails to project only through its
\* programs and their subject, or through a parameter that is literally null,
\* which ValidateCallArguments admits and RenderScalar rejects.
ProjectionFails(i) ==
    \E p \in DOMAIN X!Members(i.with, "parameters") :
       LET v == X!Members(i.with, "parameters")[p]
       IN  \/ v = X!NullValue
           \/ /\ v.t = "text"
              /\ X!IsExpression(v.tokens)
              /\ ~i.json \/ i.outputs # "one" \/ ~i.rendered

\* Beyond that, a whole number written as a requirement is accepted exactly
\* when, as decodeValue reads it, it is in 0 .. 2^64 (one more than an unsigned
\* word holds, because CoerceRequirement compares doubles), and is reserved as
\* it is written when a signed word holds it, to the precision of a double
\* above that, and as anything at all at 2^64.
ValidatedCallProjects ==
    result.kind = "projected" =>
       /\ result.valid => (X!Failed(result.value) <=> ProjectionFails(input))
       /\ \A n \in input.written :
            /\ result.valid <=> 0 <= n /\ X!ToDouble(n) <= 2^WordBits
            /\ result.valid /\ X!ToDouble(n) < 2^WordBits =>
                 /\ Cardinality(result.value.requirements["r"]) = 1
                 /\ \A amount \in result.value.requirements["r"] :
                       /\ n < 2^(WordBits - 1) => amount = n
                       /\ n > 0 => 2 * (amount - n) \in -X!Ulp(n) .. X!Ulp(n)

\* What the layers below the flags say of a setting: the last one that does.
InForce(layers, default) ==
    LET said == {n \in DOMAIN layers : Said(layers[n])}
    IN  IF said = {} THEN default
        ELSE layers[CHOOSE n \in said : \A m \in said : m <= n]
PortLayers(i) == <<i.port.file, i.port.env>> \o i.overrides
PortInForce(i) == InForce(PortLayers(i), C!Number(0)).n % Word
LevelInForce(i) == InForce(<<i.level.file, i.level.env>>, C!Name(""))
Readable(layers) == \A n \in DOMAIN layers : Said(layers[n]) => layers[n].t = "number"
FlagGiven(flag) == flag \notin {Unsaid, C!Number(0), C!Name("")}

Startable(i) ==
    /\ Readable(PortLayers(i))
    /\ PortInForce(i) \in 1 .. Short - 1
    /\ LevelInForce(i) \in {C!Name("info"), C!Name("")}
    /\ i.schedulers.list /\ Len(i.schedulers.file) + i.schedulers.env > 0
    /\ IF i.service = "GatewayConfig" THEN i.discovery \in {"none", "typed"}
       ELSE Readable(<<i.seconds.file, i.seconds.env>>)

\* A process starts exactly when every layer is readable and what the highest
\* of the file, the environment and the overrides says is allowed; what it
\* then runs with is what the highest layer says, the flags included, which
\* LoadConfig never checks.  A port is taken modulo 2^32 by the loader and
\* modulo 2^16 by the listener, so it is one that can be bound unless a flag
\* gave it.  The elements of a repeated field do not override each other: the
\* environment's come behind the file's.  A missing heartbeat is 0 seconds, and
\* a missing node_discovery is not noticed, because discoverAndApplyEnvVars
\* makes every message present.
ConfigInForce ==
    result.kind = "configured" =>
       /\ C!IsRefused(result.value) <=> ~Startable(input)
       /\ ~C!IsRefused(result.value) =>
            LET config == result.value.fields
                listener == config[ListenerOf(input.service)]
                port == IF FlagGiven(input.port.flag) THEN input.port.flag.n
                        ELSE PortInForce(input)
                schedulers == config["schedulers"].items
            IN  /\ listener.fields["port"] = C!Number(port)
                /\ FlagGiven(input.port.flag) \/ C!BoundPort(listener) = port
                /\ config["logging"].fields["level"] =
                     IF FlagGiven(input.level.flag) THEN input.level.flag ELSE LevelInForce(input)
                /\ [n \in DOMAIN schedulers |-> schedulers[n].fields["task_type"]] =
                     [n \in DOMAIN input.schedulers.file |-> C!Name(input.schedulers.file[n])]
                       \o [n \in 1 .. input.schedulers.env |-> C!Name("e")]
                /\ input.service = "NodeAgentConfig" =>
                     config["heartbeat_interval"].fields["seconds"] =
                       InForce(<<input.seconds.file, input.seconds.env>>, C!Number(0))
=============================================================================
