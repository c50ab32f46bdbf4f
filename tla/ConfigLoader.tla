----------------------------- MODULE ConfigLoader -----------------------------
(***************************************************************************)
(* How the gateway and the nodeagent arrive at the configuration they run  *)
(* with (common/core/config/config_loader.cc, and the first lines of the   *)
(* two *_framework.cc): the YAML file, the environment, field=value        *)
(* overrides, the check of the message, and the command line flags.        *)
(*                                                                         *)
(* A message holds a function from the fields that are present to their    *)
(* values; a repeated field is a sequence.  A text is a number or a word.  *)
(* Refused stands for every way in which the process ends before it        *)
(* listens: an error status, or an exception or a failed protobuf check    *)
(* that nobody catches.                                                    *)
(***************************************************************************)
EXTENDS Naturals, Sequences, SequencesExt

CONSTANTS Word,     \* a uint32 is below Word (2^32 in the code)
          Short     \* a port is below Short (2^16 in the code)

Number(n) == [t |-> "number", n |-> n]
Name(w) == [t |-> "word", w |-> w]
Refused == [t |-> "refused"]

\* YAML nodes.
Scalar(text) == [t |-> "scalar", text |-> text]
List(items) == [t |-> "list", items |-> items]
Dict(entries) == [t |-> "map", entries |-> entries]

Nothing == [k \in {} |-> Refused]
Message(fields) == [t |-> "message", fields |-> fields]
Elements(items) == [t |-> "elements", items |-> items]
IsRefused(v) == v.t = "refused"
Then(v, Step(_)) == IF IsRefused(v) THEN Refused ELSE Step(v)
Get(m, key, default) == IF key \in DOMAIN m.fields THEN m.fields[key] ELSE default
Over(high, low) == [k \in DOMAIN high \cup DOMAIN low |->
                      IF k \in DOMAIN high THEN high[k] ELSE low[k]]
AnyRefused(f) == \E k \in DOMAIN f : IsRefused(f[k])
\* The message with these fields over the old ones, unless one could not be set.
Assembled(fields, old) == IF AnyRefused(fields) THEN Refused ELSE Message(Over(fields, old))

-----------------------------------------------------------------------------
(* The schema: gateway.proto, nodeagent.proto and what they import.        *)

Field(kind) == [kind |-> kind, of |-> "", required |-> FALSE, allowed |-> {}]
SubMessage(type) == [Field("message") EXCEPT !.of = type]
Repeated(type) == [Field("repeated") EXCEPT !.of = type]
RequiredField(field) == [field EXCEPT !.required = TRUE]
OneOfWords(words) == [Field("string") EXCEPT !.allowed = {Name(w) : w \in words}]
Port == [RequiredField(Field("uint32")) EXCEPT !.allowed = {Number(n) : n \in 1 .. Short - 1}]

Schema ==
    [GatewayConfig |->
       [http_listener |-> SubMessage("Listener"),
        node_connections |-> Repeated("NodeConnection"),
        logging |-> SubMessage("Logging"),
        node_discovery |-> SubMessage("ExtensionConfig"),
        schedulers |-> RequiredField(Repeated("SchedulerConfig"))],
     NodeAgentConfig |->
       [tlv_listener |-> SubMessage("Listener"),
        logging |-> SubMessage("Logging"),
        pools |-> Repeated("ResourcePool"),
        reservations |-> Repeated("PoolReservation"),
        heartbeat_interval |-> SubMessage("Duration"),
        task_handlers |-> Repeated("ExtensionConfig"),
        schedulers |-> RequiredField(Repeated("NodeSchedulerConfig")),
        gateway_client |-> SubMessage("GatewayClientConfig"),
        data_dependency_fetchers |-> Repeated("ExtensionConfig"),
        object_cache |-> SubMessage("ObjectCacheConfig")],
     Listener |-> [address |-> Field("string"), port |-> Port],
     \* Every word stands for an endpoint but "junk", which the pattern rejects.
     NodeConnection |-> [address |-> RequiredField(OneOfWords({"host:1", "host:2"}))],
     Logging |-> [level |-> OneOfWords({"debug", "info"}),
                  format |-> OneOfWords({"text", "json"}),
                  output |-> OneOfWords({"stdout", "stderr"}),
                  include_source_location |-> Field("bool")],
     SchedulerConfig |-> [extension |-> SubMessage("ExtensionConfig"),
                          task_type |-> Field("string")],
     NodeSchedulerConfig |-> [extension |-> SubMessage("ExtensionConfig"),
                              task_type |-> Field("string"),
                              local_default |-> Field("bool")],
     ExtensionConfig |-> [name |-> Field("string"), typed_config |-> SubMessage("Any")],
     Any |-> [type_url |-> Field("string"), value |-> Field("string")],
     StaticNodeDiscoveryConfig |-> [addresses |-> Field("strings")],
     ResourcePool |-> [name |-> Field("string"), total |-> Field("uint64")],
     PoolReservation |-> [task_type |-> Field("string"), pool |-> Field("string"),
                          amount |-> Field("uint64")],
     Duration |-> [seconds |-> Field("int64"), nanos |-> Field("int32")],
     GatewayClientConfig |-> [addresses |-> Field("strings")],
     ObjectCacheConfig |-> [max_entries |-> Field("uint64"),
                            default_ttl |-> SubMessage("Duration")]]

Default(field) == CASE field.kind \in {"repeated", "strings"} -> Elements(<<>>)
                    [] field.kind = "message" -> Message(Nothing)
                    [] field.kind = "string" -> Name("")
                    [] OTHER -> Number(0)

-----------------------------------------------------------------------------
(* std::sto* throw on a word; SetUInt32 keeps the low bits; SetInt64 on an *)
(* int32 and SetString on a repeated field end the process.                *)
setFieldFromString(field, text) ==
    CASE field.kind = "string" -> text
      [] field.kind = "bool" -> Number(IF text \in {Name("true"), Name("yes"), Number(1)}
                                       THEN 1 ELSE 0)
      [] field.kind = "uint32" /\ text.t = "number" -> Number(text.n % Word)
      [] field.kind \in {"uint64", "int64"} /\ text.t = "number" -> text
      [] OTHER -> Refused

Appended(old, new) == IF AnyRefused(new) THEN Refused ELSE Elements(old.items \o new)

\* What a scalar of a list of messages contributes: nothing.
Entries(node) == IF node.t = "map" THEN node.entries ELSE Nothing

RECURSIVE mergeYamlIntoProto(_, _, _)

\* The message types a typed_config may name.
KnownTypes == {"StaticNodeDiscoveryConfig"}

mergeAnyYamlField(entries) ==
    IF /\ "@type" \in DOMAIN entries
       /\ entries["@type"] \in {Scalar(Name(type)) : type \in KnownTypes}
    THEN LET type == entries["@type"].text
             inner == [k \in DOMAIN entries \ {"@type"} |-> entries[k]]
         IN  Then(mergeYamlIntoProto(inner, Message(Nothing), type.w),
                  LAMBDA value : Message([type_url |-> type, value |-> value]))
    ELSE Refused

mergeYamlIntoProto(entries, message, type) ==
    LET Item(field, node) ==
          IF field.kind = "strings"
          THEN IF node.t = "scalar" THEN node.text ELSE Refused
          ELSE IF node.t = "list" THEN Refused
               ELSE mergeYamlIntoProto(Entries(node), Message(Nothing), field.of)
        Merge(field, value, old) ==
              CASE field.kind \in {"repeated", "strings"} ->
                     IF value.t # "list" THEN Refused
                     ELSE Appended(old, [i \in DOMAIN value.items |-> Item(field, value.items[i])])
                [] field.kind = "message" ->
                     IF value.t # "map" THEN Refused
                     ELSE IF field.of = "Any" THEN mergeAnyYamlField(value.entries)
                     ELSE mergeYamlIntoProto(value.entries, old, field.of)
                [] OTHER -> IF value.t # "scalar" THEN Refused
                            ELSE setFieldFromString(field, value.text)
        MergeAll(fields) ==
          [f \in DOMAIN entries \cap DOMAIN fields |->
             Merge(fields[f], entries[f], Get(message, f, Default(fields[f])))]
    IN  Assembled(MergeAll(Schema[type]), message.fields)

-----------------------------------------------------------------------------
(* The environment: a function from paths of field names (and the index of *)
(* an element of a repeated field) to texts.                               *)

ScalarFields(fields) == {f \in DOMAIN fields : fields[f].kind \notin {"message", "repeated"}}

\* Elements are appended as long as a variable names the next index.
RECURSIVE discoverRepeatedEnvFields(_, _, _, _)
discoverRepeatedEnvFields(env, path, type, idx) ==
    LET Path(f) == path \o <<idx, f>>
        Found(fields) == {f \in ScalarFields(fields) : Path(f) \in DOMAIN env}
        Element(fields) ==
          Assembled([f \in Found(fields) |-> setFieldFromString(fields[f], env[Path(f)])], Nothing)
        Prepended(element, rest) ==
          IF IsRefused(element) \/ IsRefused(rest) THEN Refused
          ELSE Elements(<<element>> \o rest.items)
    IN  IF Found(Schema[type]) = {} THEN Elements(<<>>)
        ELSE Prepended(Element(Schema[type]),
                       discoverRepeatedEnvFields(env, path, type, idx + 1))

RECURSIVE discoverAndApplyEnvVars(_, _, _, _)
discoverAndApplyEnvVars(env, path, message, type) ==
    LET Apply(field, at, old) ==
              CASE field.kind = "repeated" ->
                     Then(discoverRepeatedEnvFields(env, at, field.of, 0),
                          LAMBDA new : Elements(old.items \o new.items))
                [] field.kind = "message" -> discoverAndApplyEnvVars(env, at, old, field.of)
                [] OTHER -> IF at \in DOMAIN env THEN setFieldFromString(field, env[at]) ELSE old
        ApplyAll(fields) ==
          [f \in DOMAIN fields |->
             Apply(fields[f], Append(path, f), Get(message, f, Default(fields[f])))]
    IN  Assembled(ApplyAll(Schema[type]), Nothing)

-----------------------------------------------------------------------------
(* field=value overrides; unknown fields and elements of repeated messages *)
(* are skipped with a warning.                                             *)

RECURSIVE applyCliOverridePath(_, _, _, _)
applyCliOverridePath(message, type, parts, value) ==
    IF parts = <<>> \/ Head(parts) \notin DOMAIN Schema[type] THEN message
    ELSE LET f == Head(parts)
             Override(field, old) ==
               CASE Len(parts) = 1 /\ field.kind # "repeated" -> setFieldFromString(field, value)
                 [] Len(parts) > 1 /\ field.kind = "message" ->
                      applyCliOverridePath(old, field.of, Tail(parts), value)
                 [] OTHER -> old
         IN  Then(Override(Schema[type][f], message.fields[f]),
                  LAMBDA new : [message EXCEPT !.fields[f] = new])

applyCliOverridesInternal(message, type, overrides) ==
    FoldLeft(LAMBDA m, o : IF IsRefused(m) THEN Refused
                           ELSE applyCliOverridePath(m, type, o.path, o.value),
             message, overrides)

-----------------------------------------------------------------------------
\* proto3: a field that holds its default is not set.
IsSet(field, value) == value # Default(field)
validateFieldValue(field, value) == field.allowed # {} => value \in field.allowed

RECURSIVE validateMessage(_, _)
validateMessage(message, type) ==
    LET Valid(field, value) ==
           /\ field.required => IsSet(field, value)
           /\ CASE field.kind = "repeated" ->
                     \A i \in DOMAIN value.items : validateMessage(value.items[i], field.of)
                [] field.kind = "message" /\ field.of # "Any" ->
                     validateMessage(value, field.of)
                [] field.kind \notin {"repeated", "message"} ->
                     IsSet(field, value) => validateFieldValue(field, value)
                [] OTHER -> TRUE
        AllValid(fields) ==
           \A f \in DOMAIN fields : Valid(fields[f], Get(message, f, Default(fields[f])))
    IN  AllValid(Schema[type])

\* `file` is the root node, or the empty mapping when there is no file.
LoadConfig(type, file, env, overrides) ==
    LET yaml == IF file.t # "map" THEN Refused
                ELSE mergeYamlIntoProto(file.entries, Message(Nothing), type)
        with_env == Then(yaml, LAMBDA m : discoverAndApplyEnvVars(env, <<>>, m, type))
        config == Then(with_env, LAMBDA m : applyCliOverridesInternal(m, type, overrides))
    IN  Then(config, LAMBDA m : IF validateMessage(m, type) THEN m ELSE Refused)

-----------------------------------------------------------------------------
(* The two programs.  A flag left at 0 or "" is not given.                 *)

Given(flags, name) == /\ name \in DOMAIN flags
                      /\ ~(flags[name].t = "number" /\ flags[name].n = 0)
                      /\ ~(flags[name].t = "word" /\ flags[name].w = "")
\* Mutant: a flag counts even when it is left at its default.
SetByDefault(flags, name, message, f) ==
    IF name \in DOMAIN flags THEN [message EXCEPT !.fields[f] = flags[name]] ELSE message
SetBy(flags, name, message, f) ==
    IF Given(flags, name) THEN [message EXCEPT !.fields[f] = flags[name]] ELSE message

ApplyFlags(config, listener, port, address, flags) ==
    [config EXCEPT
       !.fields[listener] = SetBy(flags, address, SetBy(flags, port, @, "port"), "address"),
       !.fields["logging"] = SetBy(flags, "log_format",
                                   SetBy(flags, "log_level", @, "level"), "format")]

RunGateway(file, env, flags) ==
    LET Run(config) ==
          IF "node_discovery" \notin DOMAIN config.fields THEN Refused
          ELSE ApplyFlags(config, "http_listener", "http_port", "http_address", flags)
    IN  Then(LoadConfig("GatewayConfig", file, env, <<>>), Run)

DefaultHeartbeat == Message([seconds |-> Number(10)])
RunNodeAgent(file, env, flags) ==
    LET WithHeartbeat(config) ==
          Message(Over(config.fields, [heartbeat_interval |-> DefaultHeartbeat]))
        Run(config) ==
          ApplyFlags(WithHeartbeat(config), "tlv_listener", "port", "address", flags)
    IN  Then(LoadConfig("NodeAgentConfig", file, env, <<>>), Run)

\* TcpListener binds htons(port).
BoundPort(listener) == listener.fields["port"].n % Short
=============================================================================
