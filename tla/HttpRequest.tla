----------------------------- MODULE HttpRequest ------------------------------
(***************************************************************************)
(* From the bytes of an HTTP request to a task: the chunks they are read   *)
(* into and the body spans that point into them (llhttp_parser.cc,         *)
(* chunk.hh), and what the gateway makes of path, headers and body         *)
(* (gateway_http_handler.cc, requirements_resolver.cc).                    *)
(*                                                                         *)
(* A byte is a cell [on, token]: the callback llhttp makes for it and the  *)
(* piece of text it stands for.  Reads end anywhere between cells.         *)
(***************************************************************************)
EXTENDS Naturals, Sequences, SequencesExt, FiniteSetsExt

CONSTANTS ChunkSize,   \* CHUNK_SIZE
          Word64       \* 2^64, as small as the amounts allow

Cell(on, token) == [on |-> on, token |-> token]
Cells(on, tokens) == [i \in DOMAIN tokens |-> Cell(on, tokens[i])]
Tokens(cells) == [i \in DOMAIN cells |-> cells[i].token]

\* A request on the wire; `size` cells are those of a chunked body's framing.
HeaderCells(h) ==
    Cells("field", h.name) \o <<Cell("colon", "")>> \o Cells("value", h.value)
      \o <<Cell("value_complete", "")>>
OnTheWire(request) ==
    Cells("url", request.path) \o <<Cell("version", "")>>
      \o FlattenSeq([i \in DOMAIN request.headers |-> HeaderCells(request.headers[i])])
      \o <<Cell("headers_complete", "")>>
      \o FlattenSeq([i \in DOMAIN request.body |->
                       (IF request.chunked THEN <<Cell("size", "")>> ELSE <<>>)
                         \o Cells("body", request.body[i])])
      \o (IF request.chunked THEN <<Cell("size", "")>> ELSE <<>>)

-----------------------------------------------------------------------------
(* The parser: chunks, callbacks, and the message put together.            *)

Chunk == [data_ |-> <<>>, bodies_ |-> <<>>]
IsFull(chunk) == Len(chunk.data_) >= ChunkSize
Spans(chunk) ==
    FlattenSeq([i \in DOMAIN chunk.bodies_ |->
                  SubSeq(chunk.data_, chunk.bodies_[i].start,
                         chunk.bodies_[i].start + chunk.bodies_[i].size - 1)])

Parser == [active_chunk_ |-> Chunk, body_chunks_ |-> <<>>, path_ |-> <<>>, headers_ |-> <<>>,
           header_field_ |-> <<>>, header_value_ |-> <<>>, header_field_pending_ |-> FALSE]

GetReadBuffer(p) ==
    IF IsFull(p.active_chunk_)
    THEN [p EXCEPT !.body_chunks_ = Append(@, p.active_chunk_), !.active_chunk_ = Chunk]
    ELSE p

flushHeader(p) ==
    IF p.header_field_pending_
    THEN [p EXCEPT !.headers_ = Append(@, [name |-> p.header_field_, value |-> p.header_value_]),
                   !.header_field_ = <<>>, !.header_value_ = <<>>,
                   !.header_field_pending_ = FALSE]
    ELSE p

\* One callback: `run` are the cells it is made for, and end before cell `end`
\* of the chunk.
Callback(p, run, end) ==
    LET on == Head(run).on
    IN CASE on = "url" -> [p EXCEPT !.path_ = @ \o Tokens(run)]
         [] on = "field" -> [p EXCEPT !.header_field_ = @ \o Tokens(run),
                                      !.header_field_pending_ = TRUE]
         [] on = "value" -> [p EXCEPT !.header_value_ = @ \o Tokens(run)]
         [] on \in {"value_complete", "headers_complete"} -> flushHeader(p)
         [] on = "body" -> [p EXCEPT !.active_chunk_.bodies_ =
                                Append(@, [start |-> end - Len(run), size |-> Len(run)])]
         [] OTHER -> p

\* llhttp_execute over the cells of the active chunk from `from` on: adjacent
\* cells of one kind are one callback.
RECURSIVE Execute(_, _)
Execute(p, from) ==
    LET data == p.active_chunk_.data_
        same == {n \in from .. Len(data) : \A i \in from .. n : data[i].on = data[from].on}
        end == Max(same) + 1
    IN  IF from > Len(data) THEN p
        ELSE Execute(Callback(p, SubSeq(data, from, end - 1), end), end)

OnData(p, cells) ==
    LET offset == Len(p.active_chunk_.data_)
    IN  Execute([p EXCEPT !.active_chunk_.data_ = @ \o cells], offset + 1)

\* Mutant: the chunk in use first, as the total is added up.
finalizeBodyActiveFirst(p) ==
    Tokens(Spans(p.active_chunk_)
             \o FlattenSeq([i \in DOMAIN p.body_chunks_ |-> Spans(p.body_chunks_[i])]))

\* Three of the four ways to finalize only save a copy.
finalizeBody(p) ==
    Tokens(FlattenSeq([i \in DOMAIN p.body_chunks_ |-> Spans(p.body_chunks_[i])])
             \o Spans(p.active_chunk_))

finalizeMessage(p) == [path |-> p.path_, headers |-> p.headers_, body |-> finalizeBody(p)]

\* The connection's reads: each takes what the socket offers, at most what is
\* left of the chunk.  The parser is not read into again once the message is
\* complete.
RECURSIVE Receive(_, _, _)
Receive(p, cells, reads) ==
    IF cells = <<>> THEN finalizeMessage(p)
    ELSE LET ready == GetReadBuffer(p)
             room == ChunkSize - Len(ready.active_chunk_.data_)
             n == Min({Head(reads), room, Len(cells)})
         IN  Receive(OnData(ready, SubSeq(cells, 1, n)), SubSeq(cells, n + 1, Len(cells)),
                     Append(Tail(reads), Head(reads)))

-----------------------------------------------------------------------------
(* The handler.  A prefix the code looks for is one token.                 *)

Starts(tokens, prefix) == tokens # <<>> /\ Head(tokens) = prefix

UpTo(tokens, mark) ==
    LET marks == {i \in DOMAIN tokens : tokens[i] = mark}
    IN  IF marks = {} THEN tokens ELSE SubSeq(tokens, 1, Min(marks) - 1)

NoTask(status) == [status |-> status]

ParseTaskType(path) == UpTo(Tail(path), "?")

Lower(token) == IF token = "X-Strij-" THEN "x-strij-" ELSE IF token = "Key" THEN "key" ELSE token

PopulateParametersFromHeaders(headers) ==
    LET lower == [i \in DOMAIN headers |-> [j \in DOMAIN headers[i].name |-> Lower(headers[i].name[j])]]
        ours == {i \in DOMAIN headers : Starts(lower[i], "x-strij-") /\ Len(lower[i]) > 1}
        keys == {Tail(lower[i]) : i \in ours}
    IN  [k \in keys |-> headers[Max({i \in ours : Tail(lower[i]) = k})].value]

\* std::stoull: leading digits, negated by a minus sign; {} when it throws.
Digits == [zero |-> 0, one |-> 1, last |-> Word64 - 1, over |-> Word64]
stoull(value) ==
    LET minus == Starts(value, "-")
        digits == IF minus THEN Tail(value) ELSE value
    IN  IF digits = <<>> \/ Head(digits) \notin DOMAIN Digits THEN {}
        ELSE LET n == Digits[Head(digits)]
             IN  IF n >= Word64 THEN {} ELSE {IF minus THEN (Word64 - n) % Word64 ELSE n}

\* Two spellings of one pool are assigned in the order of the protobuf map, which
\* is no particular one: the amounts that can be left.
Resolve(parameters) ==
    LET named == {k \in DOMAIN parameters : Head(k) \in {"resources.", "resources-"} /\ Len(k) > 1}
        parsed == {k \in named : stoull(parameters[k]) # {}}
    IN  [pool \in {Tail(k) : k \in parsed} |->
           UNION {stoull(parameters[k]) : k \in {k \in parsed : Tail(k) = pool}}]

HandleMessage(request) ==
    IF ~Starts(request.path, "/tasks/") THEN NoTask(404)
    ELSE IF ParseTaskType(request.path) = <<>> THEN NoTask(400)
    ELSE LET parameters == PopulateParametersFromHeaders(request.headers)
         IN  [status |-> 0, type |-> ParseTaskType(request.path), body |-> request.body,
              parameters |-> parameters, requirements |-> Resolve(parameters)]
=============================================================================
