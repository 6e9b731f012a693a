--------------------------------- MODULE Proxy ---------------------------------
(***************************************************************************)
(* The loopback proxy of one claude-ds installation: concurrent handlers   *)
(* (proxy.go, files.go) of one launcher process after another, the file    *)
(* cache they share, the upstream service and the client, claude.          *)
(*                                                                         *)
(* Every handler runs in a goroutine of its own.  An action is a stretch   *)
(* of handler code between two points where another goroutine, the client  *)
(* or the upstream can be seen: a lock of the file cache, a read or write  *)
(* of a connection, a look at the request context.                         *)
(***************************************************************************)
EXTENDS Vision

CONSTANTS
  Requests,   \* connections; each carries one request (keep-alives are off)
  Cfg,        \* the loaded Config
  Bodies,     \* /v1/messages bodies claude may send
  Data,       \* contents of files claude may upload
  MaxGen,     \* bound: launcher processes started
  MaxChunks   \* bound: chunks of one upstream response

ASSUME ProxyAssumption ==
  /\ MaxGen \in Nat
  /\ MaxChunks \in Nat
  /\ NoData \notin Data

\* The ids a body refers to, in a content array or nested in a tool_result.
FileIdsIn(b) ==
  LET blocks == UNION {ToSet(m.content) : m \in ToSet(b.messages)}
      nested == UNION {ToSet(x.content) : x \in {y \in blocks : y.type = "tool_result"}}
  IN  {x.source.id : x \in {y \in blocks \cup nested : HasFileSource(y)}} \ {NoFile}

\* Bodies name ids the proxy can have minted.
ASSUME BodiesAssumption == Bodies \subseteq MessageBodies(FileIds, Data)

VARIABLES
  proc,     \* the launcher process: "down" "bound" "serving" "draining" "closed"
  gen,      \* how many processes were started
  cache,    \* fileCache of the running process
  entries,  \* claude_ds.files.cache.entries of the running process
  minted,   \* ids any process ever minted
  known,    \* what claude uploaded under the ids it was told
  learned,  \* the process that told it
  conn,     \* per connection: where its handler is and what it has done
  orig,     \* per connection: the body as sent
  body,     \* per connection: the body as it stands
  up        \* per connection: the upstream's side

process == <<proc, gen>>
files   == <<cache, entries, minted>>
client  == <<known, learned>>
bodies  == <<orig, body>>
vars    == <<proc, gen, cache, entries, minted, known, learned, conn, orig, body, up>>

-------------------------------------------------------------------------------
(* Types *)

Endpoints == {"none", "files", "messages", "passthrough"}
Idle      == {"idle", "done", "killed"}
PCs == Idle \cup {"read",                           \* every handler
                  "mint", "gauge", "reply",         \* filesHandler
                  "lookup",                         \* rewriteFileSources
                  "dispatch", "do",                 \* forwardUpstream
                  "stream", "reading", "writing"}   \* streamLoop

Disconnects == {"client_eof", "client_cancel"}
Outcomes    == Disconnects \cup {"none", "unreachable", "read_error"}

Statuses == {0, 200, 400, 500, 502}   \* 0: no status line yet

NoId == "no id"

\* pc       where the handler is             endpoint  the route it serves
\* upload   the data of a files request      id        the file_id minted for it
\* open     the client holds the connection  cancelled r.Context() is done
\* todo     file references not yet visited  missed    ids whose lookup missed
\* read     chunks read from upstream        got       chunks the client has
\* readEOF  the last Read also returned EOF  by        the process that serves it
\* status   the status line written
\* outcome  what the handler records of a relay that did not come to its end: a
\*          client disconnect (by cause), an unreachable upstream, or a failed
\*          Read, which is neither logged nor counted
Conn == [pc : PCs, endpoint : Endpoints, upload : Data \cup {NoData},
         id : FileIds \cup {NoId}, status : Statuses,
         open : BOOLEAN, cancelled : BOOLEAN,
         todo : SUBSET (Nat \X Nat), missed : SUBSET FileIds,
         by : Nat, read : Nat, got : Nat, readEOF : BOOLEAN, outcome : Outcomes]

NewConn == [pc |-> "idle", endpoint |-> "none", upload |-> NoData, id |-> NoId,
            status |-> 0, open |-> FALSE, cancelled |-> FALSE,
            todo |-> {}, missed |-> {}, by |-> 0,
            read |-> 0, got |-> 0, readEOF |-> FALSE, outcome |-> "none"]

\* The upstream's side of a request: "none" asked, "pending", "open" (the headers
\* are out, the body is being sent), "eof", "broken" (failed or timed out with the
\* headers out), "refused" (failed or timed out before them).
UpStates == {"none", "pending", "open", "eof", "broken", "refused"}
Up       == [state : UpStates, sent : Nat]
NewUp    == [state |-> "none", sent |-> 0]

Active(r) == conn[r].pc \notin Idle

\* Connection r becomes c, the others stay as they are.
Becomes(r, c) == conn' = [conn EXCEPT ![r] = c]

EmptyCache == [i \in FileIds |-> NoData]

Init ==
  /\ proc = "down" /\ gen = 0
  /\ cache = EmptyCache /\ entries = 0 /\ minted = {}
  /\ known = EmptyCache /\ learned = [i \in FileIds |-> 0]
  /\ conn = [r \in Requests |-> NewConn]
  /\ orig = [r \in Requests |-> NoData]
  /\ body = [r \in Requests |-> NoData]
  /\ up = [r \in Requests |-> NewUp]

-------------------------------------------------------------------------------
(* Lifecycle *)

\* defaultShouldStart: some effort spec is active or there is an OTLP endpoint.
ShouldStart ==
  \/ Cfg.otlp
  \/ IsEffortActive(Cfg.effort)
  \/ \E t \in Tiers : IsEffortActive(Cfg.tierEffort[t])

\* Mutant of NewProxy: the gauge of the last process carries over.
NewProxyKeepsGauge ==
  /\ proc = "down" /\ gen < MaxGen
  /\ ShouldStart
  /\ proc' = "bound" /\ gen' = gen + 1
  /\ cache' = EmptyCache /\ entries' = entries
  /\ UNCHANGED <<minted, client, conn, bodies, up>>

\* NewProxy in a new process: the listener is bound, nothing is served yet.
NewProxy ==
  /\ proc = "down" /\ gen < MaxGen
  /\ ShouldStart
  /\ proc' = "bound" /\ gen' = gen + 1
  /\ cache' = EmptyCache /\ entries' = 0
  /\ UNCHANGED <<minted, client, conn, bodies, up>>

Start ==
  /\ proc = "bound"
  /\ proc' = "serving"
  /\ UNCHANGED <<gen, files, client, conn, bodies, up>>

\* http.Server.Shutdown closes the listener and waits for the handlers.
Shutdown ==
  /\ proc = "serving"
  /\ proc' = "draining"
  /\ UNCHANGED <<gen, files, client, conn, bodies, up>>

\* Mutant of Drained: Shutdown does not wait for the handlers.
DrainedAtOnce ==
  /\ proc = "draining"
  /\ proc' = "closed"
  /\ UNCHANGED <<gen, files, client, conn, bodies, up>>

Drained ==
  /\ proc = "draining"
  /\ \A r \in Requests : ~ Active(r)
  /\ proc' = "closed"
  /\ UNCHANGED <<gen, files, client, conn, bodies, up>>

\* The grace period is over: Shutdown returns with handlers still running.
GraceExpires ==
  /\ proc = "draining"
  /\ \E r \in Requests : Active(r)
  /\ proc' = "closed"
  /\ UNCHANGED <<gen, files, client, conn, bodies, up>>

\* The process ends: after Shutdown, or at any moment because a signal or an
\* os.Exit ended it.  Its handlers and its file cache are gone.
ProcessEnds ==
  /\ proc # "down"
  /\ proc' = "down"
  /\ conn' = [r \in Requests |->
                IF Active(r) THEN [conn[r] EXCEPT !.pc = "killed"] ELSE conn[r]]
  /\ UNCHANGED <<gen, files, client, bodies, up>>

-------------------------------------------------------------------------------
(* The client *)

Connect(r, endpoint, upload, b) ==
  /\ proc = "serving"
  /\ conn[r].pc = "idle"
  /\ Becomes(r, [conn[r] EXCEPT !.pc = "read", !.endpoint = endpoint, !.upload = upload,
                                !.open = TRUE, !.by = gen])
  /\ orig' = [orig EXCEPT ![r] = b]
  /\ body' = [body EXCEPT ![r] = b]
  /\ UNCHANGED <<process, files, client, up>>

\* NoData stands for an empty upload.
SendFile(r) == \E d \in Data \cup {NoData} : Connect(r, "files", d, NoData)

\* claude refers to the files it was given an id for, also in an earlier process:
\* a resumed conversation repeats its history.
SendMessages(r) ==
  \E b \in Bodies :
    /\ \A i \in FileIdsIn(b) : known[i] # NoData
    /\ Connect(r, "messages", NoData, b)

SendOther(r) == Connect(r, "passthrough", NoData, NoData)

ClientLeaves(r) ==
  /\ Active(r) /\ conn[r].open
  /\ Becomes(r, [conn[r] EXCEPT !.open = FALSE])
  /\ UNCHANGED <<process, files, client, bodies, up>>

\* net/http notices, in the background, that the peer is gone, once the handler
\* has consumed the request body.
CancelContext(r) ==
  /\ Active(r) /\ conn[r].pc # "read"
  /\ ~ conn[r].open /\ ~ conn[r].cancelled
  /\ Becomes(r, [conn[r] EXCEPT !.cancelled = TRUE])
  /\ UNCHANGED <<process, files, client, bodies, up>>
-------------------------------------------------------------------------------
(* Handlers.  Each step changes the record of its own connection. *)

\* The handler of connection c returns: with the status line s, or with the one
\* that is already out.
Respond(c, s)      == [c EXCEPT !.pc = "done", !.status = s]
Return(c, outcome) == [c EXCEPT !.pc = "done", !.outcome = outcome]

\* io.ReadAll and readUpload: the whole request body arrives.  An empty upload is
\* refused; a messages body that is not JSON has no references to visit.
ReadBody(r) ==
  /\ conn[r].pc = "read" /\ conn[r].open
  /\ Becomes(r,
       CASE conn[r].endpoint = "files" ->
              IF conn[r].upload = NoData THEN Respond(conn[r], 400)
              ELSE [conn[r] EXCEPT !.pc = "mint"]
         [] conn[r].endpoint = "messages" ->
              [conn[r] EXCEPT !.pc = "lookup",
                              !.todo = IF orig[r].json THEN FileRefs(orig[r]) ELSE {}]
         [] OTHER -> [conn[r] EXCEPT !.pc = "dispatch"])
  /\ UNCHANGED <<process, files, client, bodies, up>>

\* The client left before the body was complete.
ReadFails(r) ==
  /\ conn[r].pc = "read" /\ ~ conn[r].open
  /\ Becomes(r, Respond(conn[r], 400))
  /\ UNCHANGED <<process, files, client, bodies, up>>

(* filesHandler *)

\* Mutant of StoreFile: an id the generator repeats replaces the entry that has it.
StoreFileReusesId(r) ==
  /\ conn[r].pc = "mint"
  /\ \E i \in FileIds :
       /\ minted' = minted \cup {i}
       /\ cache' = [cache EXCEPT ![i] = conn[r].upload]
       /\ Becomes(r, [conn[r] EXCEPT !.pc = "gauge", !.id = i])
  /\ UNCHANGED <<process, entries, client, bodies, up>>

\* newFileID draws 128 random bits: an id nobody has.  The entry is in the cache
\* before the id leaves the handler.
StoreFile(r) ==
  /\ conn[r].pc = "mint"
  /\ \E i \in FileIds \ minted :
       /\ minted' = minted \cup {i}
       /\ cache' = [cache EXCEPT ![i] = conn[r].upload]
       /\ Becomes(r, [conn[r] EXCEPT !.pc = "gauge", !.id = i])
  /\ UNCHANGED <<process, entries, client, bodies, up>>

\* newFileID gets no random bits.
MintFails(r) ==
  /\ conn[r].pc = "mint"
  /\ Becomes(r, Respond(conn[r], 500))
  /\ UNCHANGED <<process, files, client, bodies, up>>

CountFile(r) ==
  /\ conn[r].pc = "gauge"
  /\ entries' = entries + 1
  /\ Becomes(r, [conn[r] EXCEPT !.pc = "reply"])
  /\ UNCHANGED <<process, cache, minted, client, bodies, up>>

ReplyFile(r) ==
  /\ conn[r].pc = "reply"
  /\ Becomes(r, Respond(conn[r], 200))
  /\ IF conn[r].open
     THEN /\ known' = [known EXCEPT ![conn[r].id] = conn[r].upload]
          /\ learned' = [learned EXCEPT ![conn[r].id] = gen]
     ELSE UNCHANGED client
  /\ UNCHANGED <<process, files, bodies, up>>

(* messagesHandler *)

\* Mutant of LookupFile: an entry leaves the cache with its first reader.
LookupFileOnce(r) ==
  /\ conn[r].pc = "lookup" /\ conn[r].todo # {}
  /\ LET p == FirstRef(conn[r].todo)
         i == BlockAt(body[r], p).source.id
     IN  /\ body' = [body EXCEPT ![r] = ResolveRef(cache, @, p)]
         /\ cache' = [k \in FileIds |-> IF k = i THEN NoData ELSE cache[k]]
         /\ Becomes(r, [conn[r] EXCEPT !.todo = @ \ {p}])
  /\ UNCHANGED <<process, entries, minted, client, orig, up>>

\* One LookupFile of rewriteFileSources, under the read lock.
LookupFile(r) ==
  /\ conn[r].pc = "lookup" /\ conn[r].todo # {}
  /\ LET p == FirstRef(conn[r].todo)
         i == BlockAt(body[r], p).source.id
     IN  /\ body' = [body EXCEPT ![r] = ResolveRef(cache, @, p)]
         /\ Becomes(r, [conn[r] EXCEPT
              !.todo   = conn[r].todo \ {p},
              !.missed = IF i # NoFile /\ cache[i] = NoData
                         THEN conn[r].missed \cup {i} ELSE conn[r].missed])
  /\ UNCHANGED <<process, files, client, orig, up>>

\* The rest of rewriteBody, routeVision and, for a request that was not routed,
\* runEffort.  They read nothing but the body and the configuration.
Transformed(b) ==
  LET rewritten == RewriteModel(Cfg, b)
  IN  IF ShouldRoute(Cfg, rewritten) THEN RouteVision(Cfg, rewritten)
      ELSE RunEffort(Cfg, rewritten, IF b.json THEN rewritten.model ELSE NoModel)

Transform(r) ==
  /\ conn[r].pc = "lookup" /\ conn[r].todo = {}
  /\ body' = [body EXCEPT ![r] = Transformed(@)]
  /\ Becomes(r, [conn[r] EXCEPT !.pc = "dispatch"])
  /\ UNCHANGED <<process, files, client, orig, up>>

(* forwardUpstream *)

Dispatch(r) ==
  /\ conn[r].pc = "dispatch"
  /\ Becomes(r, [conn[r] EXCEPT !.pc = "do"])
  /\ up' = [up EXCEPT ![r].state = "pending"]
  /\ UNCHANGED <<process, files, client, bodies>>

\* http.NewRequestWithContext fails: answered like an upstream that failed, and neither
\* logged nor counted as one.
DispatchFails(r) ==
  /\ conn[r].pc = "dispatch"
  /\ Becomes(r, Respond(conn[r], 502))
  /\ UNCHANGED <<process, files, client, bodies, up>>

\* httpClient.Do returned a response: its headers and status go to the client.
DoReturns(r) ==
  /\ conn[r].pc = "do" /\ up[r].state \in {"open", "eof", "broken"}
  /\ Becomes(r, [conn[r] EXCEPT !.pc = "stream", !.status = 200])
  /\ UNCHANGED <<process, files, client, bodies, up>>

\* httpClient.Do returned an error: the upstream failed or timed out, or the
\* context of the request was cancelled.
DoFails(r) ==
  /\ conn[r].pc = "do" /\ (up[r].state = "refused" \/ conn[r].cancelled)
  /\ Becomes(r, [Respond(conn[r], 502) EXCEPT !.outcome = "unreachable"])
  /\ UNCHANGED <<process, files, client, bodies, up>>

\* Mutant of CheckContext: a cancelled request is retried instead of ended.
CheckContextRetries(r) ==
  /\ conn[r].pc = "stream"
  /\ Becomes(r, IF conn[r].cancelled THEN conn[r] ELSE [conn[r] EXCEPT !.pc = "reading"])
  /\ UNCHANGED <<process, files, client, bodies, up>>

\* Top of streamLoop: the select on the request context.
CheckContext(r) ==
  /\ conn[r].pc = "stream"
  /\ Becomes(r, IF conn[r].cancelled THEN Return(conn[r], "client_cancel")
                ELSE [conn[r] EXCEPT !.pc = "reading"])
  /\ UNCHANGED <<process, files, client, bodies, up>>

\* resp.Body.Read gave bytes; io.EOF may come along with the last of them.
ReadChunk(r) ==
  /\ conn[r].pc = "reading" /\ conn[r].read < up[r].sent
  /\ \E eof \in BOOLEAN :
       /\ eof => up[r].state = "eof" /\ conn[r].read + 1 = up[r].sent
       /\ Becomes(r, [conn[r] EXCEPT !.pc = "writing", !.read = conn[r].read + 1,
                                     !.readEOF = eof])
  /\ UNCHANGED <<process, files, client, bodies, up>>

ReadEOF(r) ==
  /\ conn[r].pc = "reading" /\ conn[r].read = up[r].sent /\ up[r].state = "eof"
  /\ Becomes(r, Return(conn[r], "none"))
  /\ UNCHANGED <<process, files, client, bodies, up>>

\* Mutant of ReadError: every failed Read is taken for a client that left.
ReadErrorIsDisconnect(r) ==
  /\ conn[r].pc = "reading" /\ (up[r].state = "broken" \/ conn[r].cancelled)
  /\ Becomes(r, Return(conn[r], "client_cancel"))
  /\ UNCHANGED <<process, files, client, bodies, up>>

\* Mutant of ReadError: a failed Read answers Bad Gateway.
ReadErrorResponds(r) ==
  /\ conn[r].pc = "reading" /\ (up[r].state = "broken" \/ conn[r].cancelled)
  /\ Becomes(r, Respond(conn[r], 502))
  /\ UNCHANGED <<process, files, client, bodies, up>>

\* Read failed: the upstream broke off or timed out, or the request context was
\* cancelled while the handler was waiting for bytes.
ReadError(r) ==
  /\ conn[r].pc = "reading" /\ (up[r].state = "broken" \/ conn[r].cancelled)
  /\ Becomes(r, Return(conn[r], "read_error"))
  /\ UNCHANGED <<process, files, client, bodies, up>>

\* The client of connection c, if it is still there, gets a chunk.
Received(c) == IF c.open THEN [c EXCEPT !.got = c.got + 1] ELSE c

\* Mutant of WriteChunk: the end of the stream is acted on before the bytes that
\* came with it are written.
WriteChunkAfterEOF(r) ==
  /\ conn[r].pc = "writing"
  /\ Becomes(r, IF conn[r].readEOF THEN Return(conn[r], "none")
                ELSE [Received(conn[r]) EXCEPT !.pc = "stream"])
  /\ UNCHANGED <<process, files, client, bodies, up>>

\* w.Write and Flush succeed.  A client that has left loses the bytes.
WriteChunk(r) ==
  /\ conn[r].pc = "writing"
  /\ Becomes(r, IF conn[r].readEOF THEN Return(Received(conn[r]), "none")
                ELSE [Received(conn[r]) EXCEPT !.pc = "stream"])
  /\ UNCHANGED <<process, files, client, bodies, up>>

WriteFails(r) ==
  /\ conn[r].pc = "writing" /\ ~ conn[r].open
  /\ Becomes(r, Return(conn[r], "client_eof"))
  /\ UNCHANGED <<process, files, client, bodies, up>>

\* forwardUpstream from the answer of the upstream on.
Relay(r) ==
  \/ DoReturns(r) \/ DoFails(r)
  \/ CheckContext(r) \/ ReadChunk(r) \/ ReadEOF(r) \/ ReadError(r)
  \/ WriteChunk(r) \/ WriteFails(r)

Handler(r) ==
  \/ ReadBody(r) \/ ReadFails(r)
  \/ StoreFile(r) \/ MintFails(r) \/ CountFile(r) \/ ReplyFile(r)
  \/ LookupFile(r) \/ Transform(r) \/ Dispatch(r) \/ DispatchFails(r)
  \/ Relay(r)

-------------------------------------------------------------------------------
(* The upstream.  A timeout of the HTTP client counts as a failure of it.  A     *)
(* handler that returns closes the response body: nobody sees what the service   *)
(* does after that.                                                              *)

UpstreamStep(r, from, to) ==
  /\ Active(r) /\ up[r].state = from
  /\ up' = [up EXCEPT ![r].state = to]
  /\ UNCHANGED <<process, files, client, conn, bodies>>

UpstreamAnswers(r) == UpstreamStep(r, "pending", "open")
UpstreamRefuses(r) == UpstreamStep(r, "pending", "refused")
UpstreamEnds(r)    == UpstreamStep(r, "open", "eof")
UpstreamBreaks(r)  == UpstreamStep(r, "open", "broken")

UpstreamSends(r) ==
  /\ Active(r) /\ up[r].state = "open" /\ up[r].sent < MaxChunks
  /\ up' = [up EXCEPT ![r].sent = @ + 1]
  /\ UNCHANGED <<process, files, client, conn, bodies>>

Upstream(r) ==
  \/ UpstreamAnswers(r) \/ UpstreamRefuses(r) \/ UpstreamEnds(r)
  \/ UpstreamBreaks(r) \/ UpstreamSends(r)

-------------------------------------------------------------------------------

Lifecycle == NewProxy \/ Start \/ Shutdown \/ Drained \/ GraceExpires \/ ProcessEnds

Client(r) == SendFile(r) \/ SendMessages(r) \/ SendOther(r) \/ ClientLeaves(r) \/ CancelContext(r)

Next == Lifecycle \/ \E r \in Requests : Client(r) \/ Handler(r) \/ Upstream(r)

Spec == Init /\ [][Next]_vars

(***************************************************************************)
(* Fairness.  The Go scheduler runs every runnable handler.  claude, the   *)
(* only client, sends the request it started and reads the answer, or      *)
(* leaves.  upstreamTimeout bounds a request to 600 seconds, so one that   *)
(* waits for the upstream ends: it answers and finishes, or has failed.    *)
(***************************************************************************)
Fairness ==
  /\ \A r \in Requests :
       /\ WF_vars(Handler(r))
       /\ WF_vars(UpstreamAnswers(r) \/ UpstreamRefuses(r))
       /\ WF_vars(UpstreamEnds(r) \/ UpstreamBreaks(r))
  /\ WF_vars(Start)

FairSpec == Spec /\ Fairness

-------------------------------------------------------------------------------
(* Safety *)

\* Every variable but the bodies has its type.
TypeOK ==
  /\ proc \in {"down", "bound", "serving", "draining", "closed"}
  /\ gen \in 0 .. MaxGen
  /\ cache \in [FileIds -> Data \cup {NoData}]
  /\ entries \in Nat
  /\ minted \subseteq FileIds
  /\ known \in [FileIds -> Data \cup {NoData}]
  /\ learned \in [FileIds -> 0 .. MaxGen]
  /\ conn \in [Requests -> Conn]
  /\ up \in [Requests -> Up]

\* An id claude was told by the running process is in its cache, with what claude
\* uploaded under it, whatever other uploads and lookups run at the same time.
KnownIdsResolve ==
  \A i \in FileIds :
    known[i] # NoData /\ learned[i] = gen /\ proc # "down" => cache[i] = known[i]

\* A lookup misses only for an id an earlier process minted: within one process
\* no request of claude can overtake the upload it refers to.
MissOnlyAfterRestart ==
  \A r \in Requests : \A i \in conn[r].missed : i \in minted /\ learned[i] < conn[r].by

\* The gauge of live entries is exact whenever no upload is between the insertion
\* and the counter.
GaugeExact ==
  (\A r \in Requests : conn[r].pc # "gauge") =>
    (proc # "down" => entries = Cardinality({i \in FileIds : cache[i] # NoData}))

\* What is sent upstream in the place of a file is the file claude uploaded under
\* that id: every inline image or document of the body was inline when claude
\* sent it or is the content claude knows by one of the ids it referred to.
SubstitutionFaithful ==
  \A r \in Requests :
    conn[r].endpoint = "messages" =>
      LET blocks(b) == UNION {ToSet(m.content) : m \in ToSet(b.messages)}
          nested(b) == UNION {ToSet(x.content) : x \in {y \in blocks(b) : y.type = "tool_result"}}
          inline(b) == {x.source.data : x \in {y \in blocks(b) \cup nested(b) :
                          y.type \in {"image", "document"} /\ y.source.type = "base64"}}
      IN  inline(body[r]) \subseteq inline(orig[r]) \cup {known[i] : i \in FileIdsIn(orig[r])}

\* The counter of client disconnects never counts a client that is still there.
NoFalseDisconnect ==
  \A r \in Requests : conn[r].outcome \in Disconnects => ~ conn[r].open

\* Shutdown that returns in time has lost nothing: each connection the process
\* accepted was answered.
DrainLosesNothing ==
  [][Drained => \A r \in Requests :
       conn[r].by = gen => conn[r].status # 0 \/ ~ conn[r].open]_vars

\* A response has one status line: once it is out, no later failure, upstream or
\* local, writes another one.
StatusWrittenOnce ==
  [][\A r \in Requests : conn[r].status # 0 => conn'[r].status = conn[r].status]_vars

-------------------------------------------------------------------------------
(* The abstract specifications the proxy implements. *)

\* A file is held for claude when claude knows its id and the running process has
\* its content.  An id that is stored but not yet told is nobody's file.
Held == [i \in FileIds |->
           IF proc = "down" \/ known[i] = NoData THEN NoData ELSE cache[i]]

Files == INSTANCE FileStore WITH
  Ids <- FileIds, Contents <- Data, Readers <- Requests, Nothing <- NoData,
  running <- proc # "down", epoch <- gen, told <- known, since <- learned, held <- Held,
  misses <- [r \in Requests |-> conn[r].missed]

\* The endpoint /v1/files with its concurrent handlers, the separate steps of an
\* upload, and processes that end between any two of them, is a store in which an
\* id means what was uploaded under it.
ImplementsFileStore == Files!Spec

\* How the relay of a connection ended.  One that was cut ends the response as a
\* complete one does; only the log tells them apart.
RelayEnd(c) ==
  IF c.pc # "done" \/ c.status # 200 \/ c.endpoint = "files" THEN "no"
  ELSE IF c.outcome = "none" THEN "complete" ELSE "cut"

Streams == INSTANCE Relay WITH
  Streams <- Requests,
  sent     <- [r \in Requests |-> up[r].sent],
  complete <- [r \in Requests |-> up[r].state = "eof"],
  has      <- [r \in Requests |-> conn[r].got],
  present  <- [r \in Requests |-> conn[r].pc = "idle" \/ conn[r].open],
  ended    <- [r \in Requests |-> RelayEnd(conn[r])]

\* streamLoop with its reads, writes and looks at the request context, against an
\* upstream service that sends, ends or breaks at any time, relays each response
\* chunk by chunk and takes none for complete that is not.
ImplementsRelay == Streams!Spec

-------------------------------------------------------------------------------
(* Liveness *)

\* Every handler comes to its end, whatever the upstream and the client do.
HandlersTerminate == \A r \in Requests : Active(r) ~> ~ Active(r)

-------------------------------------------------------------------------------
(* What the repository's text says of the proxy and its code does not do. *)

\* files.go: a miss means the body referenced a file_id we never minted.
MissMeansNeverMinted ==
  \A r \in Requests : \A i \in conn[r].missed : i \notin minted

\* Observability document, failure map: a client disconnect mid-stream raises
\* claude_ds.stream.client_disconnect.count.
DisconnectCounted ==
  \A r \in Requests :
    conn[r].outcome = "read_error" => up[r].state = "broken"

\* Observability document, failure map: upstream.unreachable is the signal of an
\* upstream that cannot be reached.
UnreachableMeansUpstream ==
  \A r \in Requests : conn[r].outcome = "unreachable" => up[r].state = "refused"
===============================================================================
