--------------------------- MODULE WorkflowDecoder ---------------------------
(***************************************************************************)
(* The decoder of OpenWorkflow documents (openworkflow/parser/decode.cc).  *)
(*                                                                         *)
(* A YAML node is a null, a scalar of a class, a sequence or a mapping.    *)
(* Each decode function of the source is a shape here: the table Shapes    *)
(* says which keys it accepts, which it requires, which exclude each       *)
(* other, under which of those it reads a key at all, and how it decodes   *)
(* the child under a key.  Decode interprets the table.  What it returns   *)
(* is the part of the node that reaches the decoded structure, so that a   *)
(* key which is accepted and then never read is absent from the result.    *)
(* Messages, positions and the C++ types of leaves are left out.           *)
(***************************************************************************)
EXTENDS Naturals, Sequences, FiniteSets

-----------------------------------------------------------------------------
(* Nodes.                                                                  *)

Null == [kind |-> "null"]
Scalar(class) == [kind |-> "scalar", class |-> class]
Seq_(items) == [kind |-> "seq", items |-> items]
Map(entries) == [kind |-> "map", entries |-> entries]
ParseError == [kind |-> "error"]

Ok(n) == n.kind # "error"

getChild(n, key) == n.entries[key]

\* A key whose value is null counts as absent.
has(n, key) == /\ n.kind = "map"
               /\ key \in DOMAIN n.entries
               /\ getChild(n, key).kind # "null"

-----------------------------------------------------------------------------
(* The forms of shapes.  A record shape also serves the shapes that select *)
(* one of several keys: `one` holds the keys of which exactly one must be  *)
(* present, `only` restricts a key to the selections that read it.         *)

None == [k \in {} |-> {}]
Leaf(form) == [form |-> form]
Of(form, shape) == [form |-> form, of |-> shape]
Select(one, only, required, fields) ==
    [form |-> "record", one |-> one, only |-> only,
     required |-> required, fields |-> fields]
Record(required, fields) == Select({}, None, required, fields)

\* The decode functions that take a `use` reference instead of their own keys.
Reference(shape) == Of("reference", shape)
\* A scalar kept as a string, or anything else decoded by the shape.
ScalarOr(shape) == Of("scalarOr", shape)

Strings(keys) == [k \in keys |-> "string"]
Integers_(keys) == [k \in keys |-> "int"]
With(f, g) == [k \in DOMAIN f \cup DOMAIN g |->
                 IF k \in DOMAIN g THEN g[k] ELSE f[k]]

-----------------------------------------------------------------------------
(* Leaf and shared shapes.                                                 *)

DurationUnits ==
    Record({}, Integers_({"days", "hours", "minutes", "seconds", "milliseconds"}))
Duration == ScalarOr("durationUnits")

OAuth2Token == Record({"token", "type"}, Strings({"token", "type"}))
OAuth2Client == Record({}, Strings({"id", "secret", "assertion", "authentication"}))
OAuth2Request == Record({}, Strings({"encoding"}))
OAuth2Endpoints == Record({}, Strings({"token", "introspection"}))
OAuth2Properties ==
    Record({"authority", "grant"},
           With(Strings({"authority", "grant", "username", "password"}),
                [client |-> "oauth2Client", request |-> "oauth2Request",
                 endpoints |-> "oauth2Endpoints", subject |-> "oauth2Token",
                 actor |-> "oauth2Token", issuers |-> "strings",
                 scopes |-> "strings", audiences |-> "strings"]))

Credentials == Record({"username", "password"}, Strings({"username", "password"}))
BearerToken == Record({"token"}, Strings({"token"}))
BasicAuthentication == Reference("credentials")
BearerAuthentication == Reference("bearerToken")
DigestAuthentication == Reference("credentials")
OAuth2Authentication == Reference("oauth2Properties")
OidcAuthentication == Reference("oauth2Properties")

Schemes == {"basic", "bearer", "digest", "oauth2", "oidc"}
AuthenticationScheme ==
    Select(Schemes, None, {},
           [basic |-> "basic", bearer |-> "bearer", digest |-> "digest",
            oauth2 |-> "oauth2", oidc |-> "oidc"])
Authentication == Reference("authenticationScheme")

EndpointObject ==
    Record({"uri"}, [uri |-> "string", authentication |-> "authentication"])
Endpoint == ScalarOr("endpointObject")
ExternalResource == Record({"endpoint"}, [name |-> "string", endpoint |-> "endpoint"])
Schema == Select({"document", "resource"}, None, {},
                 [format |-> "string", document |-> "value",
                  resource |-> "externalResource"])

Input == Record({}, [schema |-> "schema", from |-> "scalarOrValue"])
Output == Record({}, [schema |-> "schema", as |-> "scalarOrValue"])
Export == Record({}, [schema |-> "schema", as |-> "scalarOrValue"])

ErrorFields == With(Strings({"type", "instance", "title", "detail"}),
                    [status |-> "int"])
Error == Record({"type", "status"}, ErrorFields)
ErrorFilter == Record({}, ErrorFields)

Backoffs == {"constant", "exponential", "linear"}
Backoff == Select(Backoffs, None, {}, [k \in Backoffs |-> "value"])
Jitter == Record({"from", "to"}, [from |-> "duration", to |-> "duration"])
RetryAttempt == Record({}, [count |-> "int", duration |-> "duration"])
RetryLimit == Record({}, [attempt |-> "retryAttempt", duration |-> "duration"])
RetryPolicy ==
    Record({}, [when |-> "string", exceptWhen |-> "string", delay |-> "duration",
                backoff |-> "backoff", limit |-> "retryLimit", jitter |-> "jitter"])
Catalog == Record({"endpoint"}, [endpoint |-> "endpoint"])
Timeout == Record({"after"}, [after |-> "duration"])

-----------------------------------------------------------------------------
(* Event machinery.                                                        *)

EventProperties ==
    Record({}, With(Strings({"id", "source", "type", "time", "subject",
                             "datacontenttype", "dataschema"}),
                    [data |-> "value"]))
Correlation == Record({"from"}, Strings({"from", "expect"}))
EventFilter == Record({"with"}, [with |-> "eventProperties", correlate |-> "correlations"])
\* `until` is an accepted key of every strategy and is read for `any` only.
EventConsumptionStrategy ==
    Select({"all", "any", "one"}, [until |-> {"any"}], {},
           [all |-> "eventFilterList", any |-> "eventFilterList",
            one |-> "eventFilter", until |-> "value"])
SubscriptionIterator ==
    Record({}, [item |-> "string", at |-> "string", do |-> "tasks",
                output |-> "output", export |-> "export"])

-----------------------------------------------------------------------------
(* Processes and the bodies of tasks.                                      *)

ContainerLifetime == Record({"cleanup"}, [cleanup |-> "string", after |-> "duration"])
ContainerProcess ==
    Record({"image"},
           With(Strings({"image", "name", "command", "stdin", "pullPolicy"}),
                [arguments |-> "strings", ports |-> "value", volumes |-> "value",
                 environment |-> "value", lifetime |-> "containerLifetime"]))
ScriptProcess ==
    Select({"code", "resource"}, None, {"language"},
           [language |-> "string", stdin |-> "string", arguments |-> "strings",
            environment |-> "value", code |-> "string", resource |-> "externalResource"])
ShellProcess ==
    Record({"command"}, [command |-> "string", stdin |-> "string",
                         arguments |-> "strings", environment |-> "value"])
WorkflowProcess ==
    Record({"namespace", "name", "version"},
           With(Strings({"namespace", "name", "version"}), [input |-> "value"]))

Event == Record({}, [with |-> "eventProperties"])
Emit == Record({"event"}, [event |-> "event"])
ForSpec == Record({"in"}, [each |-> "string", at |-> "string", in |-> "scalarOrValue"])
Fork == Record({"branches"}, [branches |-> "tasks", compete |-> "bool"])
Listen == Record({"to"}, [to |-> "eventConsumptionStrategy", read |-> "string"])
Raise == Record({"error"}, [error |-> "scalarOrError"])
Run == Select({"container", "shell", "script", "workflow"}, None, {},
              [container |-> "containerProcess", shell |-> "shellProcess",
               script |-> "scriptProcess", workflow |-> "workflowProcess",
               await |-> "bool", return |-> "string"])
SwitchCase == Record({}, Strings({"when", "then"}))
CatchErrors == Record({}, [with |-> "errorFilter"])
Catch ==
    Record({}, With(Strings({"as", "when", "exceptWhen", "then"}),
                    [errors |-> "catchErrors", retry |-> "scalarOrRetry",
                     do |-> "tasks"]))

-----------------------------------------------------------------------------
(* Tasks.  The keys of a body stand beside the common keys of the task, so *)
(* a key of one kind is accepted, and not read, beside another kind.       *)

TaskKinds == {"call", "do", "emit", "for", "fork", "listen", "raise", "run",
              "set", "switch", "try", "wait"}
\* Keys of the call, listen, for and try bodies beside the key of the kind.
BodyKeys == [with |-> {"call"}, foreach |-> {"listen"}, while |-> {"for"},
             catch |-> {"try"}, do |-> {"do", "for"}]
BodyShapes ==
    [call |-> "string", do |-> "tasks", emit |-> "emit", for |-> "forSpec",
     fork |-> "fork", listen |-> "listen", raise |-> "raise", run |-> "run",
     set |-> "scalarOrValue", switch |-> "switchCases", try |-> "tasks",
     wait |-> "duration", with |-> "value", foreach |-> "subscriptionIterator",
     while |-> "string", catch |-> "catch"]
Task ==
    Select(TaskKinds, BodyKeys, {},
           With(BodyShapes,
                [if |-> "string", then |-> "string", input |-> "input",
                 output |-> "output", export |-> "export",
                 timeout |-> "scalarOrTimeout", metadata |-> "value"]))

\* The kind of a task: beside `for`, `do` is the body of the loop.
PresentKinds(n) ==
    LET present == {k \in TaskKinds : has(n, k)}
    IN  IF "for" \in present THEN present \ {"do"} ELSE present

Extension == Record({"extend"}, [extend |-> "string", when |-> "string",
                                 before |-> "tasks", after |-> "tasks"])

-----------------------------------------------------------------------------
(* Reusable components and the document.                                   *)

Use ==
    Record({}, [authentications |-> "authentications", errors |-> "errors",
                extensions |-> "extensions", functions |-> "functions",
                retries |-> "retries", secrets |-> "strings",
                timeouts |-> "timeouts", catalogs |-> "catalogs"])
DocumentInfo ==
    Record({"dsl", "namespace", "name", "version"},
           With(Strings({"dsl", "namespace", "name", "version", "title", "summary"}),
                [tags |-> "value", metadata |-> "value"]))
Schedule ==
    Record({}, [every |-> "duration", cron |-> "string", after |-> "duration",
                on |-> "eventConsumptionStrategy", read |-> "string"])
Evaluate == Record({}, Strings({"language", "mode"}))
Document ==
    Record({"document", "do"},
           [document |-> "documentInfo", input |-> "input", use |-> "use",
            do |-> "tasks", timeout |-> "scalarOrTimeout", output |-> "output",
            schedule |-> "schedule", evaluate |-> "evaluate"])

\* The loops over collections inside decodeEventFilter, decodeSwitchBody, decodeUse.
Collections ==
    [correlations |-> Of("mapOf", "correlation"),
     eventFilterList |-> Of("seqOf", "eventFilter"),
     switchCases |-> Of("namedOf", "switchCase"),
     authentications |-> Of("mapOf", "authentication"),
     errors |-> Of("mapOf", "error"), extensions |-> Of("namedOf", "extension"),
     functions |-> Of("mapOf", "task"), retries |-> Of("mapOf", "retryPolicy"),
     timeouts |-> Of("mapOf", "timeout"), catalogs |-> Of("mapOf", "catalog")]

Leaves ==
    [string |-> Leaf("string"), int |-> Leaf("int"), bool |-> Leaf("bool"),
     value |-> Leaf("value"), strings |-> Leaf("strings"), tasks |-> Leaf("tasks"),
     scalarOrValue |-> ScalarOr("value"), scalarOrError |-> ScalarOr("error"),
     scalarOrRetry |-> ScalarOr("retryPolicy"), scalarOrTimeout |-> ScalarOr("timeout")]

Records ==
    [durationUnits |-> DurationUnits, duration |-> Duration,
     oauth2Token |-> OAuth2Token, oauth2Client |-> OAuth2Client,
     oauth2Request |-> OAuth2Request, oauth2Endpoints |-> OAuth2Endpoints,
     oauth2Properties |-> OAuth2Properties, credentials |-> Credentials,
     bearerToken |-> BearerToken, basic |-> BasicAuthentication,
     bearer |-> BearerAuthentication, digest |-> DigestAuthentication,
     oauth2 |-> OAuth2Authentication, oidc |-> OidcAuthentication,
     authenticationScheme |-> AuthenticationScheme, authentication |-> Authentication,
     endpointObject |-> EndpointObject, endpoint |-> Endpoint,
     externalResource |-> ExternalResource, schema |-> Schema, input |-> Input,
     output |-> Output, export |-> Export, error |-> Error, errorFilter |-> ErrorFilter,
     backoff |-> Backoff, jitter |-> Jitter, retryAttempt |-> RetryAttempt,
     retryLimit |-> RetryLimit, retryPolicy |-> RetryPolicy, catalog |-> Catalog,
     timeout |-> Timeout, eventProperties |-> EventProperties,
     correlation |-> Correlation, eventFilter |-> EventFilter,
     eventConsumptionStrategy |-> EventConsumptionStrategy,
     subscriptionIterator |-> SubscriptionIterator,
     containerLifetime |-> ContainerLifetime, containerProcess |-> ContainerProcess,
     scriptProcess |-> ScriptProcess, shellProcess |-> ShellProcess,
     workflowProcess |-> WorkflowProcess, event |-> Event, emit |-> Emit,
     forSpec |-> ForSpec, fork |-> Fork, listen |-> Listen, raise |-> Raise,
     run |-> Run, switchCase |-> SwitchCase, catchErrors |-> CatchErrors,
     catch |-> Catch, task |-> Task, extension |-> Extension, use |-> Use,
     documentInfo |-> DocumentInfo, schedule |-> Schedule, evaluate |-> Evaluate,
     document |-> Document]

Shapes == With(With(Leaves, Collections), Records)

-----------------------------------------------------------------------------
(* The interpreter of the table.                                           *)

\* as<T>() of yaml-cpp: every scalar is a string; numbers and flags are parsed.
AsString(n) == IF n.kind = "scalar" THEN n ELSE ParseError
AsClass(n, class) == IF n.kind = "scalar" /\ n.class = class THEN n ELSE ParseError

\* The mapping or sequence with its children replaced by their decodings,
\* unless one of them failed.
Rebuild(n, decoded) ==
    IF \E k \in DOMAIN decoded : ~Ok(decoded[k]) THEN ParseError
    ELSE IF n.kind = "seq" THEN Seq_(decoded) ELSE Map(decoded)

\* Mutant: a decoder that forgets that a for task reads `do` as well.
ReadKeysOfKind(shape, n, selected) ==
    {k \in DOMAIN n.entries :
        /\ has(n, k)
        /\ k \in DOMAIN shape.only => shape.only[k] = selected}

\* The keys of a record that its decode function reads: those present, except
\* the keys that belong to a selection which was not made.
ReadKeys(shape, n, selected) ==
    {k \in DOMAIN n.entries :
        /\ has(n, k)
        /\ k \in DOMAIN shape.only => shape.only[k] \cap selected # {}}

\* The selected keys: SelectOne, or the kind of a task.
Selected(shape, n) ==
    IF shape.one = TaskKinds THEN PresentKinds(n)
    ELSE {k \in shape.one : has(n, k)}

\* requireMap, rejectUnknownKeys, requireKey and the choice of one key.
RecordAccepts(shape, n) ==
    /\ n.kind = "map"
    /\ DOMAIN n.entries \subseteq DOMAIN shape.fields
    /\ \A k \in shape.required : has(n, k)
    /\ shape.one # {} => Cardinality(Selected(shape, n)) = 1
    /\ "for" \in Selected(shape, n) => has(n, "do")

RECURSIVE Decode(_, _)

DecodeItems(name, n) ==
    IF n.kind # "seq" THEN ParseError
    ELSE Rebuild(n, [i \in DOMAIN n.items |-> Decode(name, n.items[i])])

DecodeEntries(name, n) ==
    IF n.kind # "map" THEN ParseError
    ELSE Rebuild(n, [k \in DOMAIN n.entries |-> Decode(name, n.entries[k])])

\* A sequence of mappings with one key each, the name of the item.
DecodeNamed(name, n) ==
    IF n.kind # "seq" THEN ParseError
    ELSE Rebuild(n, [i \in DOMAIN n.items |->
                       LET item == n.items[i]
                       IN  IF item.kind = "map" /\ Cardinality(DOMAIN item.entries) = 1
                           THEN DecodeEntries(name, item) ELSE ParseError])

\* A collection of tasks is such a sequence, or a mapping from names to tasks.
DecodeTasks(n) ==
    IF n.kind = "map" THEN DecodeEntries("task", n) ELSE DecodeNamed("task", n)

DecodeRecord(shape, n) ==
    IF ~RecordAccepts(shape, n) THEN ParseError
    ELSE Rebuild(n, [k \in ReadKeys(shape, n, Selected(shape, n)) |->
                       Decode(shape.fields[k], getChild(n, k))])

UseReference == Record({"use"}, Strings({"use"}))

Decode(name, n) ==
    LET DecodeAs(shape) ==
        CASE shape.form = "string" -> AsString(n)
         [] shape.form \in {"int", "bool"} -> AsClass(n, shape.form)
         [] shape.form = "value" -> n
         [] shape.form = "strings" -> DecodeItems("string", n)
         [] shape.form = "scalarOr" ->
              IF n.kind = "scalar" THEN n ELSE Decode(shape.of, n)
         [] shape.form = "seqOf" -> DecodeItems(shape.of, n)
         [] shape.form = "mapOf" -> DecodeEntries(shape.of, n)
         [] shape.form = "namedOf" -> DecodeNamed(shape.of, n)
         [] shape.form = "tasks" -> DecodeTasks(n)
         [] shape.form = "reference" ->
              IF has(n, "use") THEN DecodeRecord(UseReference, n)
              ELSE Decode(shape.of, n)
         [] shape.form = "record" -> DecodeRecord(shape, n)
    IN  DecodeAs(Shapes[name])

-----------------------------------------------------------------------------
(* What a decoded node must still say of the node that was read.           *)

\* A key that is accepted beside a selection which never reads it: `until`
\* beside `all` or `one`, and the body keys of one kind of task beside another.
Misplaced(n, key) ==
    \/ key = "until" /\ (has(n, "all") \/ has(n, "one"))
    \/ /\ key \in DOMAIN BodyKeys \ {"do"}
       /\ \A kind \in BodyKeys[key] : ~has(n, kind)
       /\ \E kind \in TaskKinds : has(n, kind)

\* Everything written in n that is neither null nor misplaced is in d.
RECURSIVE Keeps(_, _)
Keeps(n, d) ==
    \/ n = d
    \/ n.kind = "seq" /\ d.kind = "seq" /\ DOMAIN n.items = DOMAIN d.items
       /\ \A i \in DOMAIN n.items : Keeps(n.items[i], d.items[i])
    \/ n.kind = "map" /\ d.kind = "map" /\ DOMAIN d.entries \subseteq DOMAIN n.entries
       /\ \A k \in DOMAIN n.entries :
            IF k \in DOMAIN d.entries THEN Keeps(n.entries[k], d.entries[k])
            ELSE ~has(n, k) \/ Misplaced(n, k)
=============================================================================
