-------------------------------- MODULE Rows --------------------------------
(***************************************************************************)
(* From the catalog to the table: a worker's generator emits the spans of  *)
(* a batch into groups, one for each service (ResourceSpans), and the      *)
(* ClickHouse sink turns each span of each group into the arguments of one *)
(* Append, which the INSERT text assigns to columns by their position.     *)
(* Batches follow each other for ever.  Which span gets which children is  *)
(* TraceTree's subject: here any span of the trace that may have children  *)
(* may get one.  Names, times and identifiers are tokens.                  *)
(* The operators named Slip_... are mistakes the code could have made.     *)
(***************************************************************************)
EXTENDS Catalog, Sequences, Functions

CONSTANT Batch  \* spans in a batch

ASSUME RowsAssumption == Batch \in Nat \ {0}

VARIABLES
  schema, \* cfg.CH.Schema
  turn,   \* which ptrace.Traces is the current one: told from the last by 0 and 1
  td,     \* its groups, in the order they were made
  scopes, \* the generator's map from services to groups, and whose they are
  made,   \* history: the spans emitted for the batch; a span's id is its place
  trace,  \* the root of the trace under way, 0 before the first
  call,   \* the CLIENT span whose SERVER span comes next, or 0
  rows    \* the rows of the batch, by the places of their spans, once it has
          \* been sent

spanVars == <<td, scopes, made, trace, call>>
rowVars  == <<catVars, schema, turn, spanVars, rows>>

RowsInit ==
  /\ CatInit
  /\ schema \in {"map", "json"}
  /\ turn = 0 /\ td = <<>> /\ scopes = <<>>
  /\ made = <<>> /\ trace = 0 /\ call = 0 /\ rows = <<>>

Build == BuildStep /\ UNCHANGED <<schema, turn, spanVars, rows>>
-----------------------------------------------------------------------------
(* The generator.                                                          *)

\* The groups and the map once service s has a group.
ScopeFor(s) ==
  IF s \in DOMAIN scopes
  THEN [groups |-> td, map |-> scopes]
  ELSE [groups |-> Append(td, [svc |-> s, spans |-> <<>>]),
        map    |-> [k \in DOMAIN scopes \union {s} |->
                      IF k = s THEN [td |-> turn, at |-> Len(td) + 1] ELSE scopes[k]]]

\* A span goes into the group the map names, whichever batch that belongs to.
Emit(s, op, parent, root) ==
  LET scope == ScopeFor(s)
      group == scope.map[s]
      id    == Len(made) + 1
  IN  /\ id <= Batch
      /\ \E outcome \in {"error", "event", "plain"} :
           made' = Append(made, [svc |-> s, op |-> op, parent |-> parent,
                                 trace |-> root, outcome |-> outcome])
      /\ td' = IF group.td = turn
               THEN [scope.groups EXCEPT ![group.at].spans = Append(@, id)]
               ELSE scope.groups
      /\ scopes' = scope.map
      /\ UNCHANGED <<catVars, schema, turn, rows>>

Ready == pass = 3 /\ rows = <<>> /\ call = 0

Root ==
  /\ Ready
  /\ \E s \in Service : \E op \in cat[s].entryOps : Emit(s, op, 0, Len(made) + 1)
  /\ trace' = Len(made) + 1
  /\ UNCHANGED call

\* Spans of the trace under way that addChildren is called for.
Parents ==
  {p \in DOMAIN made : made[p].trace = trace
     /\ made[p].op.typ \in {"httpServer", "consumer", "rpcServer", "internal"}}

\* A remote call is followed by the callee's span while the budget lasts;
\* when it is used up the trace is over.
Child ==
  /\ Ready
  /\ \E p \in Parents : \E op \in cat[made[p].svc].childOps :
       /\ Emit(made[p].svc, op, p, trace)
       /\ \/ op.peer # NoPeer /\ Len(made') < Batch
             /\ call' = Len(made') /\ UNCHANGED trace
          \/ trace' = (IF op.peer # NoPeer THEN 0 ELSE trace) /\ UNCHANGED call

Slip_Counterpart(client) == Server  \* every callee answers HTTP

\* serverCounterpart: the operation behind a call.
Counterpart(client) ==
  IF client.typ = "rpc" THEN Op("rpcServer", NoPeer, client.callee) ELSE Server

Callee ==
  /\ call # 0
  /\ LET client == made[call]
     IN  Emit(client.op.peer, Counterpart(client.op), call, client.trace)
  /\ call' = 0 /\ UNCHANGED trace
-----------------------------------------------------------------------------
(* The sink.                                                               *)

Kind(op) ==
  CASE op.typ \in {"httpServer", "rpcServer"}   -> "Server"
    [] op.typ \in {"http", "rpc", "db"}         -> "Client"
    [] op.typ = "consumer"                      -> "Consumer"
    [] op.typ = "internal"                      -> "Internal"

Failed(sp) == sp.outcome = "error"

\* The attributes the properties tell apart: the service of an RPC, and
\* whether the protocol's status says that the call went well.
Attributes(sp) ==
  [service |-> sp.op.callee,
   status  |-> IF sp.op.typ \notin {"http", "httpServer", "rpc", "rpcServer"} THEN "none"
               ELSE IF Failed(sp) THEN "bad" ELSE "good"]

\* events() and links(): parallel arrays, with one element for each event.  A
\* span never has a link.
EventArrays(sp) ==
  CASE sp.outcome = "error" -> [ts |-> <<"half">>, names |-> <<"exception">>,
                                attrs |-> <<"exception.type">>]
    [] sp.outcome = "event" -> [ts |-> <<"third">>, names |-> <<"processing">>,
                                attrs |-> <<"stage">>]
    [] sp.outcome = "plain" -> [ts |-> <<>>, names |-> <<>>, attrs |-> <<>>]
LinkArrays == [traceIDs |-> <<>>, spanIDs |-> <<>>, states |-> <<>>, attrs |-> <<>>]

Resource(s) == [service |-> cat[s].name]

StatusCode(sp)    == IF Failed(sp) THEN "Error" ELSE "Unset"
StatusMessage(sp) == IF Failed(sp) THEN "operation failed" ELSE ""

\* The arguments of an Append, in either schema.
AppendSpanMap(id, s) ==
  LET sp == made[id]
      ev == EventArrays(sp)
      lk == LinkArrays
  IN  <<"start", sp.trace, id, sp.parent, "", sp.op.typ, Kind(sp.op), cat[s].name,
        Resource(s), "spangen", "1.0.0", Attributes(sp),
        "length", StatusCode(sp), StatusMessage(sp),
        ev.ts, ev.names, ev.attrs, lk.traceIDs, lk.spanIDs, lk.states, lk.attrs>>

Slip_AppendSpanJSON(id, s) ==  \* events before links, as in the other encoder
  LET sp == made[id]
      ev == EventArrays(sp)
      lk == LinkArrays
  IN  <<"start", sp.trace, id, sp.parent, "", sp.op.typ, Kind(sp.op), cat[s].name,
        "length", StatusCode(sp), StatusMessage(sp),
        Resource(s), Attributes(sp), "{}", "spangen", "1.0.0",
        ev.ts, ev.names, ev.attrs, lk.traceIDs, lk.spanIDs, lk.states, lk.attrs>>

AppendSpanJSON(id, s) ==
  LET sp == made[id]
      ev == EventArrays(sp)
      lk == LinkArrays
  IN  <<"start", sp.trace, id, sp.parent, "", sp.op.typ, Kind(sp.op), cat[s].name,
        "length", StatusCode(sp), StatusMessage(sp),
        Resource(s), Attributes(sp), "{}", "spangen", "1.0.0",
        lk.traceIDs, lk.spanIDs, lk.states, lk.attrs, ev.ts, ev.names, ev.attrs>>

\* buildInsertSQL: the columns, in the order of the INSERT text.
Columns ==
  CASE schema = "map" ->
         <<"Timestamp", "TraceId", "SpanId", "ParentSpanId", "TraceState", "SpanName",
           "SpanKind", "ServiceName", "ResourceAttributes", "ScopeName", "ScopeVersion",
           "SpanAttributes", "Duration", "StatusCode", "StatusMessage",
           "Events.Timestamp", "Events.Name", "Events.Attributes",
           "Links.TraceId", "Links.SpanId", "Links.TraceState", "Links.Attributes">>
    [] schema = "json" ->
         <<"Timestamp", "TraceId", "SpanId", "ParentSpanId", "TraceState", "SpanName",
           "SpanKind", "ServiceName", "Duration", "StatusCode", "StatusMessage",
           "ResourceAttributes", "SpanAttributes", "ScopeAttributes", "ScopeName",
           "ScopeVersion",
           "Links.TraceId", "Links.SpanId", "Links.TraceState", "Links.Attributes",
           "Events.Timestamp", "Events.Name", "Events.Attributes">>

\* What the server makes of one Append.
Row(id, s) ==
  LET args == IF schema = "json" THEN AppendSpanJSON(id, s) ELSE AppendSpanMap(id, s)
  IN  [c \in Range(Columns) |-> args[CHOOSE k \in DOMAIN Columns : Columns[k] = c]]

\* Where the spans are: the group, and the place in it.
Places == UNION {{g} \X DOMAIN td[g].spans : g \in DOMAIN td}

\* The loops of Send over groups and spans; Insert has them step by step.
Send ==
  /\ Ready /\ Len(made) = Batch
  /\ rows' = [p \in Places |-> Row(td[p[1]].spans[p[2]], td[p[1]].svc)]
  /\ UNCHANGED <<catVars, schema, turn, spanVars>>

Slip_NextBatch ==  \* clear(g.scopes) is missing
  /\ rows # <<>>
  /\ turn' = 1 - turn
  /\ td' = <<>> /\ made' = <<>> /\ trace' = 0 /\ rows' = <<>>
  /\ UNCHANGED <<catVars, schema, call, scopes>>

\* A new ptrace.Traces, and FillBatch forgets the groups of the old one.
NextBatch ==
  /\ rows # <<>>
  /\ turn' = 1 - turn
  /\ td' = <<>> /\ made' = <<>> /\ trace' = 0 /\ rows' = <<>>
  /\ scopes' = <<>>
  /\ UNCHANGED <<catVars, schema, call>>

RowsNext == Build \/ Root \/ Child \/ Callee \/ Send \/ NextBatch

RowsSpec == RowsInit /\ [][RowsNext]_rowVars
-----------------------------------------------------------------------------
RowSet == Range(rows)

\* Every span of a batch is one row of its INSERT, under the service that
\* emitted it, and nothing else is: no span is lost in the group of an earlier
\* batch, whatever services the two share.
EverySpanIsARow ==
  rows # <<>> =>
    /\ Cardinality(DOMAIN rows) = Len(made)
    /\ \A id \in DOMAIN made : \E r \in RowSet :
         r.SpanId = id /\ r.ServiceName = cat[made[id].svc].name

\* Read back through the column names, in either schema, a row tells one story
\* about its span: where it belongs, how it ended, and what happened in it.
RowsReadBack ==
  \A r \in RowSet : LET sp == made[r.SpanId] IN
    /\ r.TraceId = sp.trace /\ r.ParentSpanId = sp.parent
    /\ r.Timestamp = "start" /\ r.Duration = "length"
    /\ r.ResourceAttributes.service = r.ServiceName
    /\ r.ScopeName = "spangen" /\ r.ScopeVersion = "1.0.0"
    /\ r.StatusCode = "Error" <=> r.StatusMessage # ""
    /\ r.StatusCode = "Error" <=> "exception" \in Range(r["Events.Name"])
    /\ r.StatusCode = "Error" => r.SpanAttributes.status # "good"
    /\ Len(r["Events.Name"]) = Len(r["Events.Timestamp"])
    /\ Len(r["Events.Name"]) = Len(r["Events.Attributes"])
    /\ \A c \in {"Links.TraceId", "Links.SpanId", "Links.TraceState", "Links.Attributes"} :
         r[c] = <<>>

\* (the second loop of BuildCatalog comes "after all services exist".)  In the
\* table, the SERVER row under a CLIENT row is of another service, tells the
\* same RPC service as the caller's, and that is the service it names.
CallsLand ==
  \A caller, callee \in RowSet :
    callee.ParentSpanId = caller.SpanId /\ callee.SpanKind = "Server" =>
      /\ caller.SpanKind = "Client" /\ caller.TraceId = callee.TraceId
      /\ callee.ServiceName # caller.ServiceName
      /\ callee.SpanAttributes.service = caller.SpanAttributes.service
      /\ callee.SpanAttributes.service =
           IF caller.SpanName = "rpc" THEN callee.ServiceName ELSE NoName
=============================================================================
