------------------------------ MODULE Proxy_proofs ------------------------------
(***************************************************************************)
(* Proofs about Proxy for any number of requests, file ids, processes and  *)
(* chunks.  In this order: type correctness; what the file cache promises  *)
(* claude, and that what is inlined is what claude uploaded; that the      *)
(* cache implements FileStore; its gauge; status lines, disconnects and    *)
(* the drain of a shutdown; that the stream loop implements Relay.         *)
(***************************************************************************)
EXTENDS Proxy, Vision_proofs

USE DEF process, files, client, bodies

-------------------------------------------------------------------------------
(* rewriteFileSources visits the references of a body in order: there is   *)
(* always a first one.                                                     *)

\* FirstRef finds a reference whenever there is one.
LEMMA FirstRefIn ==
  ASSUME NEW refs \in SUBSET (Nat \X Nat), refs # {}
  PROVE  FirstRef(refs) \in refs
<1> DEFINE rows == {p[1] : p \in refs}
<1>1. rows \in SUBSET Nat /\ rows # {}
  OBVIOUS
<1>2. PICK i \in rows : \A k \in rows : i <= k
  BY <1>1, NatMin
<1> DEFINE cols == {p[2] : p \in {q \in refs : q[1] = i}}
<1>3. cols \in SUBSET Nat /\ cols # {}
  OBVIOUS
<1>4. PICK j \in cols : \A k \in cols : j <= k
  BY <1>3, NatMin
<1>5. PICK p \in refs : p[1] = i /\ p[2] = j
  OBVIOUS
<1>6. \A q \in refs : p[1] < q[1] \/ (p[1] = q[1] /\ p[2] <= q[2])
  <2> SUFFICES ASSUME NEW q \in refs
               PROVE  p[1] < q[1] \/ (p[1] = q[1] /\ p[2] <= q[2])
    OBVIOUS
  <2>1. q[1] \in Nat /\ q[2] \in Nat /\ q[1] \in rows /\ p[1] \in Nat /\ p[2] \in Nat
    OBVIOUS
  <2>2. CASE q[1] = i
    <3>1. q[2] \in cols
      BY <2>2
    <3> QED BY <3>1, <1>4, <1>5, <2>2
  <2>3. CASE q[1] # i
    BY <2>1, <2>3, <1>2, <1>5
  <2> QED BY <2>2, <2>3
<1> QED BY <1>6 DEF FirstRef

-------------------------------------------------------------------------------
(* Type correctness.  The references a handler still has to visit must be  *)
(* positions of its body, so the type invariant is proved together with    *)
(* what is known of the bodies.                                            *)

\* Position p of body b holds a reference the lookup can resolve or miss.
IsRef(b, p) ==
  /\ "messages" \in DOMAIN b /\ p[1] \in DOMAIN b.messages
  /\ "content" \in DOMAIN b.messages[p[1]] /\ p[2] \in DOMAIN b.messages[p[1]].content
  /\ HasFileSource(BlockAt(b, p))
  /\ BlockAt(b, p).source.id \in FileIds \cup {NoFile}

\* A body that is not yet looked at is as claude sent it; the positions still to
\* visit hold references claude made to files it was told the id of.
PendingRefs ==
  /\ DOMAIN body = Requests /\ DOMAIN orig = Requests
  /\ \A r \in Requests :
       /\ conn[r].pc = "read" /\ conn[r].endpoint = "messages" =>
            orig[r] \in Bodies /\ body[r] = orig[r]
       /\ conn[r].pc = "lookup" => \A p \in conn[r].todo : IsRef(body[r], p)

TypeInv == TypeOK /\ PendingRefs

\* The ids of the references the lookups visit are ids the body contains.
LEMMA FileRefsNameFileIds ==
  ASSUME NEW b \in Bodies, NEW p \in FileRefs(b), BlockAt(b, p).source.id # NoFile
  PROVE  BlockAt(b, p).source.id \in FileIdsIn(b)
<1>1. PICK i \in DOMAIN b.messages :
        p \in {<<i, j>> : j \in {k \in DOMAIN b.messages[i].content :
                                   HasFileSource(b.messages[i].content[k])}}
  BY DEF FileRefs
<1>2. PICK j \in DOMAIN b.messages[i].content :
        p = <<i, j>> /\ HasFileSource(b.messages[i].content[j])
  BY <1>1
<1> DEFINE blocks == UNION {ToSet(m.content) : m \in ToSet(b.messages)}
           x == b.messages[i].content[j]
<1>3. b.messages[i] \in ToSet(b.messages) /\ x \in ToSet(b.messages[i].content)
  BY DEF ToSet
<1>4. x \in blocks
  BY <1>3
<1>5. BlockAt(b, p) = x
  BY <1>2 DEF BlockAt
<1> HIDE DEF blocks, x
<1> QED BY <1>2, <1>4, <1>5 DEF FileIdsIn, blocks, x

\* Where a body refers to files and what it has inline, block by block.
BlocksOf(b) == UNION {ToSet(m.content) : m \in ToSet(b.messages)}
NestedIn(b) == UNION {ToSet(x.content) : x \in {y \in BlocksOf(b) : y.type = "tool_result"}}
InlineIn(b) == {x.source.data : x \in {y \in BlocksOf(b) \cup NestedIn(b) :
                  y.type \in {"image", "document"} /\ y.source.type = "base64"}}

LEMMA FileIdsInIs ==
  ASSUME NEW b
  PROVE  FileIdsIn(b) =
           {x.source.id : x \in {y \in BlocksOf(b) \cup NestedIn(b) : HasFileSource(y)}} \ {NoFile}
BY Zenon DEF FileIdsIn, BlocksOf, NestedIn

\* The blocks of a body, and those they nest, are blocks.
LEMMA BlocksAreTyped ==
  ASSUME NEW ids, NEW data, NEW b, b.messages \in Seq(Turns(ids, data))
  PROVE  /\ BlocksOf(b) \subseteq UserBlocks(ids, data) \cup AssistantBlocks(ids, data)
         /\ NestedIn(b) \subseteq PlainBlocks(ids, data)
<1>1. ASSUME NEW x \in BlocksOf(b)
      PROVE  x \in UserBlocks(ids, data) \cup AssistantBlocks(ids, data)
  <2>1. PICK m \in ToSet(b.messages) : x \in ToSet(m.content)
    BY DEF BlocksOf
  <2>2. m \in Turns(ids, data)
    BY <2>1 DEF ToSet
  <2>3. m.content \in Seq(UserBlocks(ids, data)) \cup Seq(AssistantBlocks(ids, data))
    BY <2>2 DEF Turns
  <2> QED BY <2>1, <2>3 DEF ToSet
<1>2. ASSUME NEW y \in NestedIn(b)
      PROVE  y \in PlainBlocks(ids, data)
  <2>1. PICK x \in BlocksOf(b) : x.type = "tool_result" /\ y \in ToSet(x.content)
    BY DEF NestedIn
  <2>2. x \in ToolResults(ids, data)
    BY <1>1, <2>1 DEF UserBlocks, AssistantBlocks, PlainBlocks, ToolUses
  <2>3. x.content \in Seq(PlainBlocks(ids, data))
    BY <2>2 DEF ToolResults
  <2> QED BY <2>1, <2>3 DEF ToSet
<1> QED BY <1>1, <1>2

\* A body refers to no file and holds no data but those its type allows it.
LEMMA SourcesWithin ==
  ASSUME NEW ids, NEW data, NEW b, b.messages \in Seq(Turns(ids, data))
  PROVE  FileIdsIn(b) \subseteq ids /\ InlineIn(b) \subseteq data
<1>1. \A x \in BlocksOf(b) \cup NestedIn(b) :
        x \in PlainBlocks(ids, data) \cup ToolResults(ids, data) \cup ToolUses
  BY BlocksAreTyped DEF UserBlocks, AssistantBlocks
<1>2. ASSUME NEW x \in BlocksOf(b) \cup NestedIn(b), x.type \in {"image", "document"}
      PROVE  x.source \in Sources(ids, data)
  BY <1>1, <1>2 DEF PlainBlocks, ToolResults, ToolUses
<1>3. FileIdsIn(b) \subseteq ids
  <2> SUFFICES ASSUME NEW x \in BlocksOf(b) \cup NestedIn(b), HasFileSource(x), x.source.id # NoFile
               PROVE  x.source.id \in ids
    BY FileIdsInIs
  <2> QED BY <1>2 DEF HasFileSource, Sources
<1>4. InlineIn(b) \subseteq data
  <2> SUFFICES ASSUME NEW x \in BlocksOf(b) \cup NestedIn(b),
                      x.type \in {"image", "document"}, x.source.type = "base64"
               PROVE  x.source.data \in data
    BY DEF InlineIn
  <2> QED BY <1>2 DEF Sources
<1> QED BY <1>3, <1>4

LEMMA BodiesNameFileIds ==
  ASSUME NEW b \in Bodies
  PROVE  FileIdsIn(b) \subseteq FileIds
<1>1. b.messages \in Seq(Turns(FileIds, Data))
  BY BodiesAssumption DEF MessageBodies
<1> QED BY <1>1, SourcesWithin

\* FileRefs collects positions of references.
LEMMA FileRefsAreRefs ==
  ASSUME NEW b \in Bodies
  PROVE  FileRefs(b) \in SUBSET (Nat \X Nat) /\ \A p \in FileRefs(b) : IsRef(b, p)
<1> SUFFICES ASSUME NEW p \in FileRefs(b)
             PROVE  p \in Nat \X Nat /\ IsRef(b, p)
  OBVIOUS
<1>1. PICK i \in DOMAIN b.messages :
        p \in {<<i, j>> : j \in {k \in DOMAIN b.messages[i].content :
                                   HasFileSource(b.messages[i].content[k])}}
  BY DEF FileRefs
<1>2. PICK j \in DOMAIN b.messages[i].content :
        p = <<i, j>> /\ HasFileSource(b.messages[i].content[j])
  BY <1>1
<1>3. b.messages \in Seq(Turns(FileIds, Data)) /\ "messages" \in DOMAIN b
  BY BodiesAssumption DEF MessageBodies
<1>4. b.messages[i] \in Turns(FileIds, Data)
  BY <1>3
<1>5. /\ "content" \in DOMAIN b.messages[i]
      /\ b.messages[i].content
           \in Seq(UserBlocks(FileIds, Data)) \cup Seq(AssistantBlocks(FileIds, Data))
  BY <1>4 DEF Turns
<1>6. /\ b.messages[i].content[j] \in UserBlocks(FileIds, Data) \cup AssistantBlocks(FileIds, Data)
      /\ i \in Nat /\ j \in Nat
  BY <1>2, <1>3, <1>5
<1>7. b.messages[i].content[j].source.id \in FileIds \cup {NoFile}
  BY <1>2, <1>6 DEF UserBlocks, AssistantBlocks, PlainBlocks, ToolResults, ToolUses, Sources,
     HasFileSource
<1> QED BY <1>2, <1>3, <1>5, <1>6, <1>7 DEF IsRef, BlockAt

\* Resolving one reference leaves the others where they are.
LEMMA ResolveKeepsRefs ==
  ASSUME NEW store, NEW b, NEW p, NEW q, p # q,
         p \in Nat \X Nat, q \in Nat \X Nat, IsRef(b, p), IsRef(b, q)
  PROVE  /\ IsRef(ResolveRef(store, b, p), q)
         /\ BlockAt(ResolveRef(store, b, p), q) = BlockAt(b, q)
<1> DEFINE c == ResolveRef(store, b, p)
<1>1. c.messages = [b.messages EXCEPT ![p[1]].content[p[2]] = Resolved(store, @)]
        /\ "messages" \in DOMAIN c
  BY DEF ResolveRef, IsRef
<1>2. CASE p[1] # q[1]
  <2>1. c.messages[q[1]] = b.messages[q[1]] /\ q[1] \in DOMAIN c.messages
    BY <1>1, <1>2 DEF IsRef
  <2> QED BY <1>1, <2>1 DEF IsRef, BlockAt
<1>3. CASE p[1] = q[1]
  <2>1. p[2] # q[2]
    BY <1>3
  <2>2. /\ c.messages[q[1]] = [b.messages[q[1]] EXCEPT !.content[p[2]] = Resolved(store, @)]
        /\ q[1] \in DOMAIN c.messages
    BY <1>1, <1>3 DEF IsRef
  <2>3. c.messages[q[1]].content = [b.messages[q[1]].content EXCEPT ![p[2]] = Resolved(store, @)]
    BY <2>2 DEF IsRef
  <2>4. c.messages[q[1]].content[q[2]] = b.messages[q[1]].content[q[2]]
    BY <2>1, <2>3 DEF IsRef
  <2> QED BY <1>1, <2>2, <2>3, <2>4 DEF IsRef, BlockAt
<1> QED BY <1>2, <1>3

LEMMA InitTypeInv == Init => TypeInv
BY ProxyAssumption DEF Init, TypeInv, TypeOK, PendingRefs, NewConn, Conn, NewUp, Up, PCs, Idle,
   Endpoints, UpStates, EmptyCache, Outcomes, Statuses

\* A field of a connection can take any value of its type.
LEMMA ConnPc == ASSUME NEW c \in Conn, NEW v \in PCs PROVE [c EXCEPT !.pc = v] \in Conn
BY SMT DEF Conn

LEMMA ConnEndpoint == ASSUME NEW c \in Conn, NEW v \in Endpoints PROVE [c EXCEPT !.endpoint = v] \in Conn
BY SMT DEF Conn

LEMMA ConnUpload == ASSUME NEW c \in Conn, NEW v \in Data \cup {NoData} PROVE [c EXCEPT !.upload = v] \in Conn
BY SMT DEF Conn

LEMMA ConnId == ASSUME NEW c \in Conn, NEW v \in FileIds \cup {NoId} PROVE [c EXCEPT !.id = v] \in Conn
BY SMT DEF Conn

LEMMA ConnStatus == ASSUME NEW c \in Conn, NEW v \in Statuses PROVE [c EXCEPT !.status = v] \in Conn
BY SMT DEF Conn

LEMMA ConnOpen == ASSUME NEW c \in Conn, NEW v \in BOOLEAN PROVE [c EXCEPT !.open = v] \in Conn
BY SMT DEF Conn

LEMMA ConnCancelled == ASSUME NEW c \in Conn, NEW v \in BOOLEAN PROVE [c EXCEPT !.cancelled = v] \in Conn
BY SMT DEF Conn

LEMMA ConnTodo == ASSUME NEW c \in Conn, NEW v \in SUBSET (Nat \X Nat) PROVE [c EXCEPT !.todo = v] \in Conn
BY SMT DEF Conn

LEMMA ConnMissed == ASSUME NEW c \in Conn, NEW v \in SUBSET FileIds PROVE [c EXCEPT !.missed = v] \in Conn
BY SMT DEF Conn

LEMMA ConnBy == ASSUME NEW c \in Conn, NEW v \in Nat PROVE [c EXCEPT !.by = v] \in Conn
BY SMT DEF Conn

LEMMA ConnRead == ASSUME NEW c \in Conn, NEW v \in Nat PROVE [c EXCEPT !.read = v] \in Conn
BY SMT DEF Conn

LEMMA ConnGot == ASSUME NEW c \in Conn, NEW v \in Nat PROVE [c EXCEPT !.got = v] \in Conn
BY SMT DEF Conn

LEMMA ConnReadEOF == ASSUME NEW c \in Conn, NEW v \in BOOLEAN PROVE [c EXCEPT !.readEOF = v] \in Conn
BY SMT DEF Conn

LEMMA ConnOutcome == ASSUME NEW c \in Conn, NEW v \in Outcomes PROVE [c EXCEPT !.outcome = v] \in Conn
BY SMT DEF Conn

\* The ways a handler or the client changes its connection keep the type.
LEMMA ConnRespond ==
  ASSUME NEW c \in Conn, NEW s \in Statuses
  PROVE  Respond(c, s) \in Conn /\ Respond(c, s).pc = "done"
<1>1. "done" \in PCs
  BY DEF PCs, Idle
<1>2. Respond(c, s) \in Conn
  <2>1. PICK d \in Conn : d = [c EXCEPT !.pc = "done"]
    BY <1>1, ConnPc
  <2>2. [d EXCEPT !.status = s] \in Conn
    BY ConnStatus
  <2>3. Respond(c, s) = [d EXCEPT !.status = s]
    BY <2>1, SMT DEF Respond
  <2> QED BY <2>2, <2>3
<1>3. Respond(c, s).pc = "done"
  BY SMT DEF Respond, Conn
<1> QED BY <1>2, <1>3

LEMMA ConnResponses ==
  ASSUME NEW c \in Conn
  PROVE  /\ Respond(c, 200) \in Conn /\ Respond(c, 200).pc = "done"
         /\ Respond(c, 400) \in Conn /\ Respond(c, 400).pc = "done"
         /\ Respond(c, 500) \in Conn /\ Respond(c, 500).pc = "done"
         /\ Respond(c, 502) \in Conn /\ Respond(c, 502).pc = "done"
<1>1. 200 \in Statuses /\ 400 \in Statuses /\ 500 \in Statuses /\ 502 \in Statuses
  BY DEF Statuses
<1> QED BY <1>1, ConnRespond

\* A handler that gives up before the upstream service is asked.
Refuses(r) == ReadFails(r) \/ MintFails(r) \/ DispatchFails(r)

LEMMA RefusesIs ==
  ASSUME NEW r \in Requests, Refuses(r)
  PROVE  /\ conn[r].pc \in {"read", "mint", "dispatch"}
         /\ UNCHANGED <<process, files, client, bodies, up>>
         /\ \E s \in {400, 500, 502} : Becomes(r, Respond(conn[r], s))
  BY DEF Refuses, ReadFails, MintFails, DispatchFails

LEMMA ConnReturn ==
  ASSUME NEW c \in Conn, NEW o \in Outcomes
  PROVE  Return(c, o) \in Conn /\ Return(c, o).pc = "done"
<1>1. "done" \in PCs
  BY DEF PCs, Idle
<1>2. [c EXCEPT !.pc = "done"] \in Conn
  BY <1>1, ConnPc
<1>3. [c EXCEPT !.pc = "done", !.outcome = o] \in Conn
  BY <1>2, ConnOutcome
<1> QED BY <1>3 DEF Return, Conn

LEMMA ConnReceived ==
  ASSUME NEW c \in Conn
  PROVE  Received(c) \in Conn
<1>1. c.got + 1 \in Nat
  BY DEF Conn
<1> QED BY <1>1, ConnGot DEF Received

\* Replacing the record of one connection.
LEMMA BecomesConn ==
  ASSUME conn \in [Requests -> Conn], NEW r \in Requests, NEW c \in Conn, Becomes(r, c)
  PROVE  /\ conn' \in [Requests -> Conn]
         /\ conn'[r] = c
         /\ \A s \in Requests \ {r} : conn'[s] = conn[s]
BY DEF Becomes

\* A handler that leaves the bodies alone and does not go to read them keeps the
\* type invariant.
LEMMA HandlerTypeInv ==
  ASSUME TypeInv, NEW r \in Requests, NEW c \in Conn, Becomes(r, c),
         c.pc \notin {"read", "lookup"},
         UNCHANGED <<proc, gen, orig, body>>,
         cache' \in [FileIds -> Data \cup {NoData}], entries' \in Nat, minted' \in SUBSET FileIds,
         known' \in [FileIds -> Data \cup {NoData}], learned' \in [FileIds -> 0 .. MaxGen],
         up' \in [Requests -> Up]
  PROVE  TypeInv'
<1>1. /\ conn' \in [Requests -> Conn]
      /\ conn'[r] = c
      /\ \A s \in Requests \ {r} : conn'[s] = conn[s]
  BY BecomesConn DEF TypeInv, TypeOK
<1> QED BY <1>1 DEF TypeInv, TypeOK, PendingRefs

\* What the relay of a response does to its connection.
LEMMA RelayStep ==
  ASSUME NEW r \in Requests, conn[r] \in Conn, Relay(r)
  PROVE  \E c \in Conn : /\ Becomes(r, c)
                         /\ c.pc \in {"done", "stream", "reading", "writing"}
                         /\ c.by = conn[r].by /\ c.missed = conn[r].missed
<1> DEFINE Fits(c) == /\ c \in Conn
                      /\ c.pc \in {"done", "stream", "reading", "writing"}
                      /\ c.by = conn[r].by /\ c.missed = conn[r].missed
<1>1. /\ \A v \in {"stream", "reading", "writing"} : v \in PCs
      /\ \A v \in {"none", "client_eof", "client_cancel", "unreachable", "read_error"} : v \in Outcomes
      /\ 200 \in Statuses
  BY DEF PCs, Outcomes, Disconnects, Statuses
<1>2. \A o \in Outcomes : Fits(Return(conn[r], o))
  <2>1. \A o \in Outcomes : /\ Return(conn[r], o).by = conn[r].by
                            /\ Return(conn[r], o).missed = conn[r].missed
    BY DEF Return, Conn
  <2> QED BY <2>1, ConnReturn
<1>3. \A pc \in {"stream", "reading", "writing"} : Fits([conn[r] EXCEPT !.pc = pc])
  <2> SUFFICES ASSUME NEW pc \in {"stream", "reading", "writing"}
               PROVE  Fits([conn[r] EXCEPT !.pc = pc])
    OBVIOUS
  <2>1. [conn[r] EXCEPT !.pc = pc] \in Conn
    BY <1>1, ConnPc
  <2> QED BY <2>1 DEF Conn
<1>4. CASE DoReturns(r)
  <2> DEFINE c == [conn[r] EXCEPT !.pc = "stream", !.status = 200]
  <2>1. c \in Conn
    <3>1. PICK d \in Conn : d = [conn[r] EXCEPT !.pc = "stream"]
      BY <1>3
    <3>2. [d EXCEPT !.status = 200] \in Conn
      BY <1>1, ConnStatus
    <3>3. c = [d EXCEPT !.status = 200]
      BY <3>1, SMT
    <3> HIDE DEF c
    <3> QED BY <3>2, <3>3
  <2>2. c.pc = "stream" /\ c.by = conn[r].by /\ c.missed = conn[r].missed
    BY DEF Conn
  <2>3. Becomes(r, c)
    BY <1>4 DEF DoReturns
  <2> QED BY <2>1, <2>2, <2>3
<1>5. CASE DoFails(r)
  <2> DEFINE c == [Respond(conn[r], 502) EXCEPT !.outcome = "unreachable"]
  <2>1. c \in Conn
    BY <1>1, ConnResponses, ConnOutcome
  <2>2. c.pc = "done" /\ c.by = conn[r].by /\ c.missed = conn[r].missed
    BY DEF Conn, Respond
  <2>3. Becomes(r, c)
    BY <1>5 DEF DoFails
  <2> HIDE DEF c
  <2> QED BY <2>1, <2>2, <2>3
<1>6. CASE CheckContext(r)
  BY <1>1, <1>2, <1>3, <1>6 DEF CheckContext
<1>7. CASE ReadChunk(r)
  <2>1. PICK eof \in BOOLEAN :
          Becomes(r, [conn[r] EXCEPT !.pc = "writing", !.read = conn[r].read + 1,
                                     !.readEOF = eof])
    BY <1>7 DEF ReadChunk
  <2> DEFINE c == [conn[r] EXCEPT !.pc = "writing", !.read = conn[r].read + 1,
                                  !.readEOF = eof]
  <2>2. conn[r].read + 1 \in Nat
    BY DEF Conn
  <2>3. [conn[r] EXCEPT !.pc = "writing", !.read = conn[r].read + 1] \in Conn
    BY <1>3, <2>2, ConnRead
  <2>4. c \in Conn
    BY <2>3, ConnReadEOF
  <2>5. c.pc = "writing" /\ c.by = conn[r].by /\ c.missed = conn[r].missed
    BY DEF Conn
  <2> QED BY <2>1, <2>4, <2>5
<1>8. CASE ReadEOF(r) \/ ReadError(r) \/ WriteFails(r)
  BY <1>1, <1>2, <1>8 DEF ReadEOF, ReadError, WriteFails
<1>9. CASE WriteChunk(r)
  <2> DEFINE c == IF conn[r].readEOF THEN Return(Received(conn[r]), "none")
                  ELSE [Received(conn[r]) EXCEPT !.pc = "stream"]
  <2>1. /\ Received(conn[r]) \in Conn
        /\ Received(conn[r]).by = conn[r].by /\ Received(conn[r]).missed = conn[r].missed
    BY ConnReceived DEF Received, Conn
  <2>2. c \in Conn
    BY <1>1, <2>1, ConnReturn, ConnPc
  <2>3. c.pc \in {"done", "stream"} /\ c.by = conn[r].by /\ c.missed = conn[r].missed
    BY <2>1 DEF Return, Conn
  <2>4. Becomes(r, c)
    BY <1>9 DEF WriteChunk
  <2> HIDE DEF c
  <2> QED BY <2>2, <2>3, <2>4
<1> QED BY <1>4, <1>5, <1>6, <1>7, <1>8, <1>9 DEF Relay

LEMMA NextTypeInv == TypeInv /\ [Next]_vars => TypeInv'
<1> SUFFICES ASSUME TypeInv, [Next]_vars PROVE TypeInv'
  OBVIOUS
<1> USE ProxyAssumption
<1>0. /\ TypeOK /\ PendingRefs
      /\ \A r \in Requests : conn[r] \in Conn
      /\ gen \in Nat
  BY DEF TypeInv, TypeOK
<1>a. \A v \in {"read", "mint", "gauge", "reply", "lookup", "dispatch", "do", "stream",
                "reading", "writing", "done", "killed"} : v \in PCs
  BY DEF PCs, Idle
<1>b. \A v \in {0, 200, 400, 500, 502} : v \in Statuses
  BY DEF Statuses
<1>c. \A v \in {"none", "client_eof", "client_cancel", "unreachable", "read_error"} : v \in Outcomes
  BY DEF Outcomes, Disconnects
<1>1. CASE Lifecycle
  <2>1. CASE NewProxy
    BY <2>1 DEF NewProxy, EmptyCache, TypeInv, TypeOK, PendingRefs
  <2>2. CASE Start \/ Shutdown \/ Drained \/ GraceExpires
    BY <2>2 DEF Start, Shutdown, Drained, GraceExpires, TypeInv, TypeOK, PendingRefs
  <2>3. CASE ProcessEnds
    <3>1. \A r \in Requests : [conn[r] EXCEPT !.pc = "killed"] \in Conn
      BY <1>0, <1>a, ConnPc
    <3>2. conn' \in [Requests -> Conn]
      BY <1>0, <2>3, <3>1 DEF ProcessEnds
    <3>3. \A r \in Requests : conn'[r].pc \in {"read", "lookup"} => conn'[r] = conn[r]
      BY <1>0, <2>3 DEF ProcessEnds, Conn
    <3> QED BY <2>3, <3>2, <3>3 DEF ProcessEnds, TypeInv, TypeOK, PendingRefs
  <2> QED BY <1>1, <2>1, <2>2, <2>3 DEF Lifecycle
<1>2. ASSUME NEW r \in Requests, Client(r) PROVE TypeInv'
  <2>1. ASSUME NEW e \in Endpoints, NEW d \in Data \cup {NoData}, NEW b,
               Connect(r, e, d, b), e = "messages" => b \in Bodies
        PROVE  TypeInv'
    <3> DEFINE c == [conn[r] EXCEPT !.pc = "read", !.endpoint = e, !.upload = d,
                                    !.open = TRUE, !.by = gen]
    <3>1. c \in Conn
      <4>1. [conn[r] EXCEPT !.pc = "read"] \in Conn
        BY <1>0, <1>a, ConnPc
      <4>2. [conn[r] EXCEPT !.pc = "read", !.endpoint = e] \in Conn
        BY <4>1, ConnEndpoint
      <4>3. [conn[r] EXCEPT !.pc = "read", !.endpoint = e, !.upload = d] \in Conn
        BY <4>2, ConnUpload
      <4>4. [conn[r] EXCEPT !.pc = "read", !.endpoint = e, !.upload = d, !.open = TRUE] \in Conn
        BY <4>3, ConnOpen
      <4> QED BY <1>0, <4>4, ConnBy
    <3>0. c.endpoint = e /\ c.pc = "read"
      BY <1>0 DEF Conn
    <3>2. Becomes(r, c)
      BY <2>1 DEF Connect
    <3> HIDE DEF c
    <3>3. /\ conn' \in [Requests -> Conn]
          /\ conn'[r] = c
          /\ \A s \in Requests \ {r} : conn'[s] = conn[s]
      BY <1>0, <3>1, <3>2, BecomesConn DEF TypeOK
    <3> QED BY <2>1, <3>0, <3>1, <3>3 DEF Connect, TypeInv, TypeOK, PendingRefs
  <2>2. CASE SendFile(r)
    BY <2>1, <2>2 DEF SendFile, Endpoints
  <2>3. CASE SendMessages(r)
    BY <2>1, <2>3 DEF SendMessages, Endpoints
  <2>4. CASE SendOther(r)
    BY <2>1, <2>4 DEF SendOther, Endpoints
  <2>5. ASSUME NEW c \in Conn, Becomes(r, c), c.pc = conn[r].pc,
               c.endpoint = conn[r].endpoint, c.todo = conn[r].todo,
               UNCHANGED <<process, files, client, bodies, up>>
        PROVE  TypeInv'
    <3>1. /\ conn' \in [Requests -> Conn]
          /\ conn'[r] = c
          /\ \A s \in Requests \ {r} : conn'[s] = conn[s]
      BY <1>0, <2>5, BecomesConn DEF TypeOK
    <3> QED BY <2>5, <3>1 DEF TypeInv, TypeOK, PendingRefs
  <2>6. CASE ClientLeaves(r)
    <3> DEFINE c == [conn[r] EXCEPT !.open = FALSE]
    <3>0. c \in Conn
      BY <1>0, ConnOpen
    <3>1. c.pc = conn[r].pc /\ c.endpoint = conn[r].endpoint /\ c.todo = conn[r].todo
      BY <1>0 DEF Conn
    <3>2. Becomes(r, c) /\ UNCHANGED <<process, files, client, bodies, up>>
      BY <2>6 DEF ClientLeaves
    <3> HIDE DEF c
    <3> QED BY <2>5, <3>0, <3>1, <3>2
  <2>7. CASE CancelContext(r)
    <3> DEFINE c == [conn[r] EXCEPT !.cancelled = TRUE]
    <3>0. c \in Conn
      BY <1>0, ConnCancelled
    <3>1. c.pc = conn[r].pc /\ c.endpoint = conn[r].endpoint /\ c.todo = conn[r].todo
      BY <1>0 DEF Conn
    <3>2. Becomes(r, c) /\ UNCHANGED <<process, files, client, bodies, up>>
      BY <2>7 DEF CancelContext
    <3> HIDE DEF c
    <3> QED BY <2>5, <3>0, <3>1, <3>2
  <2> QED BY <1>2, <2>2, <2>3, <2>4, <2>6, <2>7 DEF Client
<1>3. ASSUME NEW r \in Requests, Handler(r) PROVE TypeInv'
  <2>1. CASE ReadBody(r)
    <3>1. CASE conn[r].endpoint = "messages"
      <4>1. conn[r].pc = "read" /\ orig[r] \in Bodies /\ body[r] = orig[r]
        BY <1>0, <2>1, <3>1 DEF ReadBody, PendingRefs
      <4> DEFINE refs == IF orig[r].json THEN FileRefs(orig[r]) ELSE {}
                 c == [conn[r] EXCEPT !.pc = "lookup", !.todo = refs]
      <4>2. refs \in SUBSET (Nat \X Nat) /\ \A p \in refs : IsRef(body[r], p)
        BY <4>1, FileRefsAreRefs
      <4>3. Becomes(r, c)
        BY <2>1, <3>1 DEF ReadBody
      <4> HIDE DEF refs
      <4>4. c \in Conn /\ c.pc = "lookup" /\ c.todo = refs
        <5>1. [conn[r] EXCEPT !.pc = "lookup"] \in Conn
          BY <1>0, <1>a, ConnPc
        <5>2. c \in Conn
          BY <4>2, <5>1, ConnTodo
        <5> QED BY <1>0, <5>2 DEF Conn
      <4> HIDE DEF c
      <4>5. /\ conn' \in [Requests -> Conn]
            /\ conn'[r] = c
            /\ \A s \in Requests \ {r} : conn'[s] = conn[s]
        BY <1>0, <4>3, <4>4, BecomesConn DEF TypeOK
      <4> QED BY <2>1, <4>2, <4>4, <4>5 DEF ReadBody, TypeInv, TypeOK, PendingRefs
    <3>2. CASE conn[r].endpoint = "files"
      <4> DEFINE c == IF conn[r].upload = NoData THEN Respond(conn[r], 400)
                      ELSE [conn[r] EXCEPT !.pc = "mint"]
      <4>1. c \in Conn /\ c.pc \notin {"read", "lookup"}
        <5>1. [conn[r] EXCEPT !.pc = "mint"] \in Conn
          BY <1>0, <1>a, ConnPc
        <5>2. [conn[r] EXCEPT !.pc = "mint"].pc = "mint"
          BY <1>0 DEF Conn
        <5> QED BY <1>0, <1>b, <5>1, <5>2, ConnResponses
      <4>2. Becomes(r, c)
        BY <2>1, <3>2 DEF ReadBody
      <4> HIDE DEF c
      <4> QED BY <1>0, <2>1, <4>1, <4>2, HandlerTypeInv DEF ReadBody, TypeOK
    <3>3. CASE conn[r].endpoint \notin {"files", "messages"}
      <4> DEFINE c == [conn[r] EXCEPT !.pc = "dispatch"]
      <4>0. c.pc = "dispatch"
        BY <1>0 DEF Conn
      <4>1. c \in Conn /\ c.pc \notin {"read", "lookup"}
        BY <1>0, <1>a, <4>0, ConnPc
      <4>2. Becomes(r, c)
        BY <2>1, <3>3 DEF ReadBody
      <4> HIDE DEF c
      <4> QED BY <1>0, <2>1, <4>1, <4>2, HandlerTypeInv DEF ReadBody, TypeOK
    <3> QED BY <3>1, <3>2, <3>3
  <2>2. CASE Refuses(r)
    <3>1. PICK s \in {400, 500, 502} : Becomes(r, Respond(conn[r], s))
      BY <2>2, RefusesIs
    <3> DEFINE c == Respond(conn[r], s)
    <3>2. c \in Conn /\ c.pc \notin {"read", "lookup"}
      BY <1>0, ConnResponses
    <3>3. Becomes(r, c) /\ UNCHANGED <<process, files, client, bodies, up>>
      BY <2>2, <3>1, RefusesIs
    <3> HIDE DEF c
    <3> QED BY <1>0, <3>2, <3>3, HandlerTypeInv DEF TypeOK
  <2>3. CASE StoreFile(r)
    <3>1. PICK i \in FileIds \ minted :
            /\ minted' = minted \cup {i}
            /\ cache' = [cache EXCEPT ![i] = conn[r].upload]
            /\ Becomes(r, [conn[r] EXCEPT !.pc = "gauge", !.id = i])
      BY <2>3 DEF StoreFile
    <3> DEFINE c == [conn[r] EXCEPT !.pc = "gauge", !.id = i]
    <3>2. c \in Conn /\ c.pc \notin {"read", "lookup"} /\ conn[r].upload \in Data \cup {NoData}
      <4>1. [conn[r] EXCEPT !.pc = "gauge"] \in Conn
        BY <1>0, <1>a, ConnPc
      <4>2. c \in Conn
        BY <4>1, ConnId
      <4> QED BY <1>0, <4>2 DEF Conn
    <3>3. cache' \in [FileIds -> Data \cup {NoData}] /\ minted' \in SUBSET FileIds
      BY <1>0, <3>1, <3>2 DEF TypeOK
    <3> HIDE DEF c
    <3> QED BY <1>0, <2>3, <3>1, <3>2, <3>3, HandlerTypeInv DEF StoreFile, TypeOK, c
  <2>4. CASE CountFile(r)
    <3> DEFINE c == [conn[r] EXCEPT !.pc = "reply"]
    <3>0. c.pc = "reply"
      BY <1>0 DEF Conn
    <3>1. c \in Conn /\ c.pc \notin {"read", "lookup"}
      BY <1>0, <1>a, <3>0, ConnPc
    <3>2. Becomes(r, c)
      BY <2>4 DEF CountFile
    <3> HIDE DEF c
    <3> QED BY <1>0, <2>4, <3>1, <3>2, HandlerTypeInv DEF CountFile, TypeOK
  <2>5. CASE ReplyFile(r)
    <3> DEFINE c == Respond(conn[r], 200)
    <3>0. conn[r].upload \in Data \cup {NoData}
      BY <1>0 DEF Conn
    <3>1. c \in Conn /\ c.pc \notin {"read", "lookup"}
      BY <1>0, ConnResponses
    <3>2. Becomes(r, c)
      BY <2>5 DEF ReplyFile
    <3>3. known' \in [FileIds -> Data \cup {NoData}] /\ learned' \in [FileIds -> 0 .. MaxGen]
      BY <1>0, <2>5, <3>0 DEF ReplyFile, TypeOK
    <3> HIDE DEF c
    <3> QED BY <1>0, <2>5, <3>1, <3>2, <3>3, HandlerTypeInv DEF ReplyFile, TypeOK
  <2>6. CASE LookupFile(r)
    <3> DEFINE p == FirstRef(conn[r].todo)
               i == BlockAt(body[r], p).source.id
               missed == IF i # NoFile /\ cache[i] = NoData
                         THEN conn[r].missed \cup {i} ELSE conn[r].missed
               c == [conn[r] EXCEPT !.todo = conn[r].todo \ {p}, !.missed = missed]
    <3>1. p \in conn[r].todo /\ conn[r].todo \in SUBSET (Nat \X Nat)
      BY <1>0, <2>6, FirstRefIn DEF LookupFile, Conn
    <3>2. conn[r].pc = "lookup" /\ \A q \in conn[r].todo : IsRef(body[r], q)
      BY <1>0, <2>6 DEF LookupFile, PendingRefs
    <3>3. i \in FileIds \cup {NoFile}
      BY <3>1, <3>2 DEF IsRef
    <3>4. body' = [body EXCEPT ![r] = ResolveRef(cache, body[r], p)] /\ Becomes(r, c)
            /\ UNCHANGED <<process, files, client, orig, up>>
      BY <2>6 DEF LookupFile
    <3>5. \A q \in conn[r].todo \ {p} : IsRef(ResolveRef(cache, body[r], p), q)
      BY <3>1, <3>2, ResolveKeepsRefs
    <3> HIDE DEF p, i
    <3>6. missed \in SUBSET FileIds
      BY <1>0, <3>3 DEF Conn
    <3> HIDE DEF missed
    <3>7. c \in Conn /\ c.pc = "lookup" /\ c.todo = conn[r].todo \ {p}
      <4>1. conn[r].todo \ {p} \in SUBSET (Nat \X Nat)
        BY <3>1
      <4>2. [conn[r] EXCEPT !.todo = conn[r].todo \ {p}] \in Conn
        BY <1>0, <4>1, ConnTodo
      <4>3. c \in Conn
        BY <3>6, <4>2, ConnMissed
      <4> QED BY <1>0, <3>2, <4>3 DEF Conn
    <3> HIDE DEF c
    <3>8. /\ conn' \in [Requests -> Conn]
          /\ conn'[r] = c
          /\ \A s \in Requests \ {r} : conn'[s] = conn[s]
      BY <1>0, <3>4, <3>7, BecomesConn DEF TypeOK
    <3> QED BY <3>4, <3>5, <3>7, <3>8 DEF TypeInv, TypeOK, PendingRefs
  <2>7. CASE Transform(r)
    <3> DEFINE c == [conn[r] EXCEPT !.pc = "dispatch"]
    <3>1. c.pc = "dispatch"
      BY <1>0 DEF Conn
    <3>2. Becomes(r, c) /\ body' = [body EXCEPT ![r] = Transformed(body[r])]
            /\ UNCHANGED <<process, files, client, orig, up>>
      BY <2>7 DEF Transform
    <3>3. c \in Conn
      BY <1>0, <1>a, ConnPc
    <3> HIDE DEF c
    <3>4. /\ conn' \in [Requests -> Conn]
          /\ conn'[r] = c
          /\ \A s \in Requests \ {r} : conn'[s] = conn[s]
      BY <1>0, <3>2, <3>3, BecomesConn DEF TypeOK
    <3> QED BY <3>1, <3>2, <3>3, <3>4 DEF TypeInv, TypeOK, PendingRefs
  <2>8. CASE Dispatch(r)
    <3> DEFINE c == [conn[r] EXCEPT !.pc = "do"]
    <3>0. c.pc = "do"
      BY <1>0 DEF Conn
    <3>1. c \in Conn /\ c.pc \notin {"read", "lookup"}
      BY <1>0, <1>a, <3>0, ConnPc
    <3>2. Becomes(r, c) /\ up' \in [Requests -> Up]
      BY <1>0, <2>8 DEF Dispatch, TypeOK, Up, UpStates
    <3> HIDE DEF c
    <3> QED BY <1>0, <2>8, <3>1, <3>2, HandlerTypeInv DEF Dispatch, TypeOK
  <2>9. CASE Relay(r)
    <3>1. PICK c \in Conn : Becomes(r, c) /\ c.pc \in {"done", "stream", "reading", "writing"}
      BY <1>0, <2>9, RelayStep
    <3>2. UNCHANGED <<process, files, client, bodies, up>>
      BY <2>9 DEF Relay, DoReturns, DoFails, CheckContext, ReadChunk, ReadEOF, ReadError,
         WriteChunk, WriteFails
    <3> QED BY <1>0, <3>1, <3>2, HandlerTypeInv DEF TypeOK
  <2> QED BY <1>3, <2>1, <2>2, <2>3, <2>4, <2>5, <2>6, <2>7, <2>8, <2>9 DEF Handler, Refuses
<1>4. ASSUME NEW r \in Requests, Upstream(r) PROVE TypeInv'
  <2>1. up' \in [Requests -> Up] /\ UNCHANGED <<process, files, client, conn, bodies>>
    BY <1>0, <1>4 DEF Upstream, UpstreamAnswers, UpstreamRefuses, UpstreamEnds, UpstreamBreaks,
       UpstreamSends, UpstreamStep, Up, UpStates, TypeOK
  <2> QED BY <2>1 DEF TypeInv, TypeOK, PendingRefs
<1>5. CASE UNCHANGED vars
  BY <1>5 DEF vars, TypeInv, TypeOK, PendingRefs
<1> QED BY <1>1, <1>2, <1>3, <1>4, <1>5 DEF Next

\* Every reachable state is well typed.
THEOREM TypeCorrect == Spec => []TypeOK
<1>1. Init => TypeInv
  BY InitTypeInv
<1>2. TypeInv /\ [Next]_vars => TypeInv'
  BY NextTypeInv
<1>3. TypeInv => TypeOK
  BY DEF TypeInv
<1> QED BY <1>1, <1>2, <1>3, PTL DEF Spec

-------------------------------------------------------------------------------
(* What the file cache promises claude.  An id is the property of one      *)
(* upload from the moment it is minted; until the handler has replied,     *)
(* nobody is told it; once told it stays in the cache of the process that  *)
(* told it.  Hence a reference can miss only if an earlier process told it.*)

Publishing(r) == conn[r].pc \in {"gauge", "reply"}

\* A handler runs in the process that accepted its connection.
OwnProcess ==
  \A r \in Requests :
    /\ conn[r].by <= gen
    /\ Active(r) => proc # "down" /\ conn[r].by = gen

\* What claude was told was minted, by a process that has been started.
ToldIds ==
  \A i \in FileIds : learned[i] <= gen /\ (known[i] # NoData => i \in minted)

\* The id of an upload that is being answered is its own, and still a secret.
UnpublishedIds ==
  \A r \in Requests : Publishing(r) =>
    /\ conn[r].id \in minted /\ known[conn[r].id] = NoData
    /\ cache[conn[r].id] = conn[r].upload
    /\ \A s \in Requests \ {r} : Publishing(s) => conn[s].id # conn[r].id

\* A body refers to files claude was told the id of.
KnownRefs ==
  \A r \in Requests :
    /\ conn[r].pc = "read" /\ conn[r].endpoint = "messages" =>
         \A i \in FileIdsIn(orig[r]) : known[i] # NoData
    /\ conn[r].pc = "lookup" => \A p \in conn[r].todo :
         BlockAt(body[r], p).source.id # NoFile => known[BlockAt(body[r], p).source.id] # NoData

MissedIds ==
  \A r \in Requests : \A i \in conn[r].missed :
    known[i] # NoData /\ i \in minted /\ learned[i] < conn[r].by

FilesInv ==
  /\ TypeInv /\ OwnProcess /\ ToldIds /\ UnpublishedIds
  /\ KnownIdsResolve /\ KnownRefs /\ MissedIds

\* A step of a handler that touches neither the cache nor what claude knows, and
\* neither enters the lookups nor an upload, keeps the invariant.
LEMMA QuietStep ==
  ASSUME FilesInv, TypeInv', NEW r \in Requests, NEW c \in Conn, Becomes(r, c), Active(r),
         c.pc \notin {"read", "lookup", "gauge", "reply"},
         c.by = conn[r].by, c.missed = conn[r].missed,
         UNCHANGED <<process, files, client, orig>>,
         \A s \in Requests \ {r} : body'[s] = body[s]
  PROVE  FilesInv'
<1>1. /\ conn'[r] = c
      /\ \A s \in Requests \ {r} : conn'[s] = conn[s]
  BY BecomesConn DEF FilesInv, TypeInv, TypeOK
<1>2. OwnProcess'
  BY <1>1 DEF FilesInv, OwnProcess, Active
<1>3. ToldIds' /\ KnownIdsResolve'
  BY DEF FilesInv, ToldIds, KnownIdsResolve
<1>4. UnpublishedIds'
  BY <1>1 DEF FilesInv, UnpublishedIds, Publishing
<1>5. KnownRefs'
  BY <1>1 DEF FilesInv, KnownRefs
<1>6. MissedIds'
  BY <1>1 DEF FilesInv, MissedIds
<1> QED BY <1>2, <1>3, <1>4, <1>5, <1>6 DEF FilesInv

LEMMA InitFilesInv == Init => FilesInv
<1> SUFFICES ASSUME Init PROVE FilesInv
  OBVIOUS
<1>1. TypeInv
  BY InitTypeInv
<1>2. \A r \in Requests : conn[r].pc = "idle" /\ conn[r].by = 0 /\ conn[r].missed = {}
  BY DEF Init, NewConn
<1> QED BY <1>1, <1>2 DEF Init, FilesInv, OwnProcess, ToldIds, UnpublishedIds, Publishing,
        KnownIdsResolve, KnownRefs, MissedIds, Active, Idle, EmptyCache

LEMMA NextFilesInv == FilesInv /\ [Next]_vars => FilesInv'
<1> SUFFICES ASSUME FilesInv, [Next]_vars PROVE FilesInv'
  OBVIOUS
<1>0. TypeInv /\ TypeInv' /\ TypeOK /\ PendingRefs /\ \A r \in Requests : conn[r] \in Conn
  BY NextTypeInv DEF FilesInv, TypeInv, TypeOK
<1>1. CASE Lifecycle
  <2>1. CASE NewProxy
    <3>1. \A r \in Requests : ~ Active(r)
      BY <2>1 DEF NewProxy, FilesInv, OwnProcess
    <3>2. gen' = gen + 1 /\ gen \in Nat /\ \A r \in Requests : conn[r].by \in Nat
      BY <1>0, <2>1 DEF NewProxy, TypeOK, Conn
    <3>3. \A i \in FileIds : learned[i] \in Nat /\ learned[i] < gen'
      BY <1>0, <3>2 DEF FilesInv, ToldIds, TypeOK
    <3>4. OwnProcess'
      BY <2>1, <3>1, <3>2 DEF NewProxy, FilesInv, OwnProcess, Active
    <3>5. ToldIds' /\ KnownIdsResolve'
      BY <2>1, <3>3 DEF NewProxy, FilesInv, ToldIds, KnownIdsResolve
    <3>6. UnpublishedIds'
      BY <2>1, <3>1 DEF NewProxy, UnpublishedIds, Publishing, Active, Idle
    <3>7. KnownRefs' /\ MissedIds'
      BY <2>1 DEF NewProxy, FilesInv, KnownRefs, MissedIds
    <3> QED BY <1>0, <3>4, <3>5, <3>6, <3>7 DEF FilesInv
  <2>2. CASE Start \/ Shutdown \/ Drained \/ GraceExpires
    BY <1>0, <2>2 DEF Start, Shutdown, Drained, GraceExpires, FilesInv, OwnProcess, ToldIds,
       UnpublishedIds, Publishing, KnownIdsResolve, KnownRefs, MissedIds, Active
  <2>3. CASE ProcessEnds
    <3>1. \A r \in Requests : /\ ~ Active(r)'
                              /\ conn'[r].by = conn[r].by /\ conn'[r].missed = conn[r].missed
      BY <1>0, <2>3 DEF ProcessEnds, Active, Idle, Conn
    <3>2. OwnProcess'
      BY <2>3, <3>1 DEF ProcessEnds, FilesInv, OwnProcess
    <3>3. ToldIds' /\ KnownIdsResolve'
      BY <2>3 DEF ProcessEnds, FilesInv, ToldIds, KnownIdsResolve
    <3>4. UnpublishedIds' /\ KnownRefs'
      BY <3>1 DEF UnpublishedIds, Publishing, KnownRefs, Active, Idle
    <3>5. MissedIds'
      BY <2>3, <3>1 DEF ProcessEnds, FilesInv, MissedIds
    <3> QED BY <1>0, <3>2, <3>3, <3>4, <3>5 DEF FilesInv
  <2> QED BY <1>1, <2>1, <2>2, <2>3 DEF Lifecycle
<1>2. ASSUME NEW r \in Requests, Client(r) PROVE FilesInv'
  <2>1. ASSUME NEW e, NEW d, NEW b, Connect(r, e, d, b),
               e = "messages" => \A i \in FileIdsIn(b) : known[i] # NoData
        PROVE  FilesInv'
    <3> DEFINE c == [conn[r] EXCEPT !.pc = "read", !.endpoint = e, !.upload = d,
                                    !.open = TRUE, !.by = gen]
    <3>1. c.pc = "read" /\ c.endpoint = e /\ c.by = gen /\ c.missed = conn[r].missed
      BY <1>0 DEF Conn
    <3>2. /\ proc = "serving" /\ conn[r].pc = "idle" /\ orig'[r] = b
          /\ UNCHANGED <<process, files, client>>
          /\ \A s \in Requests \ {r} : orig'[s] = orig[s] /\ body'[s] = body[s]
      BY <1>0, <2>1 DEF Connect, PendingRefs
    <3>3. conn'[r] = c /\ \A s \in Requests \ {r} : conn'[s] = conn[s]
      BY <1>0, <2>1 DEF Connect, Becomes, TypeOK
    <3> HIDE DEF c
    <3>4. gen \in Nat /\ conn[r].by \in Nat /\ conn[r].by <= gen
      BY <1>0 DEF TypeOK, Conn, FilesInv, OwnProcess
    <3>5. OwnProcess'
      BY <3>1, <3>2, <3>3, <3>4 DEF FilesInv, OwnProcess, Active
    <3>6. ToldIds' /\ KnownIdsResolve'
      BY <3>2 DEF FilesInv, ToldIds, KnownIdsResolve
    <3>7. UnpublishedIds'
      BY <3>1, <3>2, <3>3 DEF FilesInv, UnpublishedIds, Publishing
    <3>8. KnownRefs'
      BY <2>1, <3>1, <3>2, <3>3 DEF FilesInv, KnownRefs
    <3>9. \A i \in conn[r].missed : i \in FileIds
      BY <1>0 DEF Conn
    <3>10. MissedIds'
      <4>1. \A i \in conn[r].missed : learned[i] < gen
        BY <1>0, <3>4, <3>9 DEF FilesInv, MissedIds, TypeOK
      <4> QED BY <3>1, <3>2, <3>3, <4>1 DEF FilesInv, MissedIds
    <3> QED BY <1>0, <3>5, <3>6, <3>7, <3>8, <3>10 DEF FilesInv
  <2>2. CASE SendFile(r)
    BY <2>1, <2>2 DEF SendFile
  <2>3. CASE SendMessages(r)
    BY <2>1, <2>3 DEF SendMessages
  <2>4. CASE SendOther(r)
    BY <2>1, <2>4 DEF SendOther
  <2>5. ASSUME NEW c \in Conn, Becomes(r, c), c.pc = conn[r].pc, c.endpoint = conn[r].endpoint,
               c.todo = conn[r].todo, c.id = conn[r].id, c.upload = conn[r].upload,
               c.by = conn[r].by, c.missed = conn[r].missed,
               UNCHANGED <<process, files, client, bodies, up>>
        PROVE  FilesInv'
    <3>1. conn'[r] = c /\ \A s \in Requests \ {r} : conn'[s] = conn[s]
      BY <1>0, <2>5, BecomesConn DEF TypeOK
    <3>2. OwnProcess' /\ ToldIds' /\ KnownIdsResolve'
      BY <2>5, <3>1 DEF FilesInv, OwnProcess, ToldIds, KnownIdsResolve, Active
    <3>3. UnpublishedIds'
      BY <2>5, <3>1 DEF FilesInv, UnpublishedIds, Publishing
    <3>4. KnownRefs' /\ MissedIds'
      BY <2>5, <3>1 DEF FilesInv, KnownRefs, MissedIds
    <3> QED BY <1>0, <3>2, <3>3, <3>4 DEF FilesInv
  <2>6. CASE ClientLeaves(r)
    <3> DEFINE c == [conn[r] EXCEPT !.open = FALSE]
    <3>1. c \in Conn
      BY <1>0, ConnOpen
    <3>2. /\ c.pc = conn[r].pc /\ c.endpoint = conn[r].endpoint /\ c.todo = conn[r].todo
          /\ c.id = conn[r].id /\ c.upload = conn[r].upload
          /\ c.by = conn[r].by /\ c.missed = conn[r].missed
      BY <1>0 DEF Conn
    <3>3. Becomes(r, c) /\ UNCHANGED <<process, files, client, bodies, up>>
      BY <2>6 DEF ClientLeaves
    <3> HIDE DEF c
    <3> QED BY <2>5, <3>1, <3>2, <3>3
  <2>7. CASE CancelContext(r)
    <3> DEFINE c == [conn[r] EXCEPT !.cancelled = TRUE]
    <3>1. c \in Conn
      BY <1>0, ConnCancelled
    <3>2. /\ c.pc = conn[r].pc /\ c.endpoint = conn[r].endpoint /\ c.todo = conn[r].todo
          /\ c.id = conn[r].id /\ c.upload = conn[r].upload
          /\ c.by = conn[r].by /\ c.missed = conn[r].missed
      BY <1>0 DEF Conn
    <3>3. Becomes(r, c) /\ UNCHANGED <<process, files, client, bodies, up>>
      BY <2>7 DEF CancelContext
    <3> HIDE DEF c
    <3> QED BY <2>5, <3>1, <3>2, <3>3
  <2> QED BY <1>2, <2>2, <2>3, <2>4, <2>6, <2>7 DEF Client
<1>3. ASSUME NEW r \in Requests, Upstream(r) PROVE FilesInv'
  <2>1. UNCHANGED <<process, files, client, conn, bodies>>
    BY <1>3 DEF Upstream, UpstreamAnswers, UpstreamRefuses, UpstreamEnds, UpstreamBreaks,
       UpstreamSends, UpstreamStep
  <2> QED BY <1>0, <2>1 DEF FilesInv, OwnProcess, ToldIds, UnpublishedIds, Publishing,
          KnownIdsResolve, KnownRefs, MissedIds, Active
<1>4. CASE UNCHANGED vars
  BY <1>0, <1>4 DEF vars, FilesInv, OwnProcess, ToldIds, UnpublishedIds, Publishing,
     KnownIdsResolve, KnownRefs, MissedIds, Active
<1>5. ASSUME NEW r \in Requests, Handler(r) PROVE FilesInv'
  <2>0. /\ conn[r] \in Conn /\ proc # "down" /\ conn[r].by = gen /\ Active(r)
        /\ gen \in Nat
    <3>1. Active(r)
      <4>1. CASE Relay(r)
        BY <4>1 DEF Relay, DoReturns, DoFails, CheckContext, ReadChunk, ReadEOF, ReadError,
           WriteChunk, WriteFails, Active, Idle
      <4>2. CASE ReadBody(r) \/ Refuses(r) \/ LookupFile(r) \/ Transform(r) \/ Dispatch(r)
        BY <4>2, RefusesIs DEF ReadBody, LookupFile, Transform, Dispatch, Active, Idle
      <4>3. CASE StoreFile(r) \/ CountFile(r) \/ ReplyFile(r)
        BY <4>3 DEF StoreFile, CountFile, ReplyFile, Active, Idle
      <4> QED BY <1>5, <4>1, <4>2, <4>3 DEF Handler, Refuses
    <3> QED BY <1>0, <3>1 DEF FilesInv, OwnProcess, TypeOK
  <2>1. CASE ReadBody(r)
    <3>1. CASE conn[r].endpoint = "messages"
      <4> DEFINE refs == IF orig[r].json THEN FileRefs(orig[r]) ELSE {}
                 c == [conn[r] EXCEPT !.pc = "lookup", !.todo = refs]
      <4>1. conn[r].pc = "read" /\ orig[r] \in Bodies /\ body[r] = orig[r]
        BY <1>0, <2>1, <3>1 DEF ReadBody, PendingRefs
      <4>2. \A p \in refs : BlockAt(body[r], p).source.id # NoFile =>
                              known[BlockAt(body[r], p).source.id] # NoData
        BY <3>1, <4>1, FileRefsNameFileIds DEF FilesInv, KnownRefs
      <4>3. Becomes(r, c) /\ UNCHANGED <<process, files, client, bodies, up>>
        BY <2>1, <3>1 DEF ReadBody
      <4> HIDE DEF refs
      <4>4. /\ c.pc = "lookup" /\ c.todo = refs
            /\ c.by = conn[r].by /\ c.missed = conn[r].missed
        BY <1>0 DEF Conn
      <4>5. conn'[r] = c /\ \A s \in Requests \ {r} : conn'[s] = conn[s]
        BY <1>0, <4>3 DEF Becomes, TypeOK
      <4> HIDE DEF c
      <4>6. OwnProcess' /\ ToldIds' /\ KnownIdsResolve'
        BY <2>0, <4>3, <4>4, <4>5 DEF FilesInv, OwnProcess, ToldIds, KnownIdsResolve, Active
      <4>7. UnpublishedIds'
        BY <4>3, <4>4, <4>5 DEF FilesInv, UnpublishedIds, Publishing
      <4>8. KnownRefs' /\ MissedIds'
        BY <4>2, <4>3, <4>4, <4>5 DEF FilesInv, KnownRefs, MissedIds
      <4> QED BY <1>0, <4>6, <4>7, <4>8 DEF FilesInv
    <3>2. CASE conn[r].endpoint # "messages"
      <4>1. PICK c \in {Respond(conn[r], 400), [conn[r] EXCEPT !.pc = "mint"],
                        [conn[r] EXCEPT !.pc = "dispatch"]} : Becomes(r, c)
        BY <2>1, <3>2 DEF ReadBody
      <4>2. c \in Conn
        BY <2>0, ConnResponses, ConnPc DEF PCs
      <4>3. c.pc \in {"done", "mint", "dispatch"} /\ c.by = conn[r].by /\ c.missed = conn[r].missed
        <5>1. CASE c = Respond(conn[r], 400)
          BY <2>0, <5>1 DEF Conn, Respond
        <5>2. CASE c = [conn[r] EXCEPT !.pc = "mint"]
          BY <2>0, <5>2 DEF Conn
        <5>3. CASE c = [conn[r] EXCEPT !.pc = "dispatch"]
          BY <2>0, <5>3 DEF Conn
        <5> QED BY <5>1, <5>2, <5>3
      <4> QED BY <1>0, <2>0, <2>1, <4>1, <4>2, <4>3, QuietStep DEF ReadBody
    <3> QED BY <3>1, <3>2
  <2>2. CASE Refuses(r)
    <3>0. PICK s \in {400, 500, 502} : Becomes(r, Respond(conn[r], s))
      BY <2>2, RefusesIs
    <3> DEFINE c == Respond(conn[r], s)
    <3>1. c \in Conn /\ c.pc = "done"
      BY <2>0, ConnResponses
    <3>2. c.by = conn[r].by /\ c.missed = conn[r].missed
      BY <2>0 DEF Conn, Respond
    <3>3. Becomes(r, c) /\ UNCHANGED <<process, files, client, bodies, up>>
      BY <2>2, <3>0, RefusesIs
    <3> HIDE DEF c
    <3> QED BY <1>0, <2>0, <3>1, <3>2, <3>3, QuietStep
  <2>3. CASE StoreFile(r)
    <3>1. PICK i \in FileIds \ minted :
            /\ minted' = minted \cup {i}
            /\ cache' = [cache EXCEPT ![i] = conn[r].upload]
            /\ Becomes(r, [conn[r] EXCEPT !.pc = "gauge", !.id = i])
      BY <2>3 DEF StoreFile
    <3> DEFINE c == [conn[r] EXCEPT !.pc = "gauge", !.id = i]
    <3>2. /\ c.pc = "gauge" /\ c.id = i /\ c.upload = conn[r].upload
          /\ c.by = conn[r].by /\ c.missed = conn[r].missed
      BY <2>0 DEF Conn
    <3>3. conn'[r] = c /\ \A s \in Requests \ {r} : conn'[s] = conn[s]
      BY <1>0, <3>1 DEF Becomes, TypeOK
    <3> HIDE DEF c
    <3>4. UNCHANGED <<process, client, bodies>>
      BY <2>3 DEF StoreFile
    <3>5. known[i] = NoData /\ cache' [i] = conn[r].upload
            /\ \A k \in FileIds \ {i} : cache'[k] = cache[k]
      BY <1>0, <3>1 DEF FilesInv, ToldIds, TypeOK
    <3>6. OwnProcess' /\ ToldIds' /\ KnownIdsResolve'
      BY <2>0, <3>1, <3>2, <3>3, <3>4, <3>5
         DEF FilesInv, OwnProcess, ToldIds, KnownIdsResolve, Active
    <3>7. UnpublishedIds'
      <4>1. \A s \in Requests \ {r} : Publishing(s) => conn[s].id \in minted /\ conn[s].id # i
        BY <3>1 DEF FilesInv, UnpublishedIds
      <4>2. minted \subseteq FileIds
        BY <1>0 DEF TypeOK
      <4> QED BY <3>1, <3>2, <3>3, <3>4, <3>5, <4>1, <4>2 DEF FilesInv, UnpublishedIds, Publishing
    <3>8. KnownRefs' /\ MissedIds'
      BY <3>1, <3>2, <3>3, <3>4 DEF FilesInv, KnownRefs, MissedIds
    <3> QED BY <1>0, <3>6, <3>7, <3>8 DEF FilesInv
  <2>4. CASE CountFile(r)
    <3> DEFINE c == [conn[r] EXCEPT !.pc = "reply"]
    <3>1. /\ c.pc = "reply" /\ c.id = conn[r].id /\ c.upload = conn[r].upload
          /\ c.by = conn[r].by /\ c.missed = conn[r].missed
      BY <2>0 DEF Conn
    <3>2. conn'[r] = c /\ \A s \in Requests \ {r} : conn'[s] = conn[s]
      BY <1>0, <2>4 DEF CountFile, Becomes, TypeOK
    <3> HIDE DEF c
    <3>3. conn[r].pc = "gauge" /\ UNCHANGED <<process, cache, minted, client, bodies>>
      BY <2>4 DEF CountFile
    <3>4. OwnProcess' /\ ToldIds' /\ KnownIdsResolve'
      BY <2>0, <3>1, <3>2, <3>3 DEF FilesInv, OwnProcess, ToldIds, KnownIdsResolve, Active
    <3>5. UnpublishedIds'
      BY <3>1, <3>2, <3>3 DEF FilesInv, UnpublishedIds, Publishing
    <3>6. KnownRefs' /\ MissedIds'
      BY <3>1, <3>2, <3>3 DEF FilesInv, KnownRefs, MissedIds
    <3> QED BY <1>0, <3>4, <3>5, <3>6 DEF FilesInv
  <2>5. CASE ReplyFile(r)
    <3> DEFINE c == Respond(conn[r], 200)
               i == conn[r].id
    <3>1. c.pc = "done" /\ c.by = conn[r].by /\ c.missed = conn[r].missed
      BY <2>0 DEF Conn, Respond
    <3>2. conn'[r] = c /\ \A s \in Requests \ {r} : conn'[s] = conn[s]
      BY <1>0, <2>5 DEF ReplyFile, Becomes, TypeOK
    <3> HIDE DEF c
    <3>3. /\ i \in minted /\ i \in FileIds /\ known[i] = NoData /\ cache[i] = conn[r].upload
          /\ \A s \in Requests \ {r} : Publishing(s) => conn[s].id # i
      BY <1>0, <2>5 DEF ReplyFile, FilesInv, UnpublishedIds, Publishing, TypeOK
    <3>4. UNCHANGED <<process, files, bodies>>
      BY <2>5 DEF ReplyFile
    <3>5. /\ \A k \in FileIds \ {i} : known'[k] = known[k] /\ learned'[k] = learned[k]
          /\ known'[i] = NoData \/ (known'[i] = cache[i] /\ learned'[i] = gen)
          /\ learned'[i] = learned[i] \/ learned'[i] = gen
      BY <1>0, <2>5, <3>3 DEF ReplyFile, TypeOK
    <3> HIDE DEF i
    <3>6. OwnProcess'
      BY <2>0, <3>1, <3>2, <3>4 DEF FilesInv, OwnProcess, Active
    <3>7. ToldIds' /\ KnownIdsResolve'
      BY <2>0, <3>3, <3>4, <3>5 DEF FilesInv, ToldIds, KnownIdsResolve
    <3>8. \A k \in FileIds : known[k] # NoData =>
             k # i /\ known'[k] = known[k] /\ learned'[k] = learned[k]
      BY <3>3, <3>5
    <3>9. UnpublishedIds'
      <4>1. \A s \in Requests \ {r} : Publishing(s) => conn[s].id \in FileIds \ {i}
        BY <1>0, <3>3 DEF FilesInv, UnpublishedIds, TypeOK
      <4> QED BY <3>1, <3>2, <3>4, <3>5, <4>1 DEF FilesInv, UnpublishedIds, Publishing
    <3>10. KnownRefs'
      <4>1. ASSUME NEW s \in Requests, conn'[s].pc = "read", conn'[s].endpoint = "messages",
                   NEW k \in FileIdsIn(orig'[s])
            PROVE  known'[k] # NoData
        <5>1. s # r /\ conn[s].pc = "read" /\ conn[s].endpoint = "messages" /\ orig'[s] = orig[s]
          BY <3>1, <3>2, <3>4, <4>1
        <5>2. known[k] # NoData
          BY <4>1, <5>1 DEF FilesInv, KnownRefs
        <5>3. k \in FileIds
          BY <1>0, <4>1, <5>1, BodiesNameFileIds DEF PendingRefs
        <5> QED BY <3>8, <5>2, <5>3
      <4>2. ASSUME NEW s \in Requests, conn'[s].pc = "lookup", NEW p \in conn'[s].todo,
                   BlockAt(body'[s], p).source.id # NoFile
            PROVE  known'[BlockAt(body'[s], p).source.id] # NoData
        <5>1. s # r /\ conn[s].pc = "lookup" /\ p \in conn[s].todo /\ body'[s] = body[s]
          BY <3>1, <3>2, <3>4, <4>2
        <5>2. known[BlockAt(body[s], p).source.id] # NoData
          BY <4>2, <5>1 DEF FilesInv, KnownRefs
        <5>3. BlockAt(body[s], p).source.id \in FileIds
          BY <1>0, <4>2, <5>1 DEF PendingRefs, IsRef
        <5> QED BY <3>8, <5>1, <5>2, <5>3
      <4> QED BY <4>1, <4>2 DEF KnownRefs
    <3>11. MissedIds'
      <4>1. \A s \in Requests : conn'[s].missed = conn[s].missed /\ conn'[s].by = conn[s].by
              /\ conn[s].missed \subseteq FileIds
        BY <1>0, <3>1, <3>2 DEF Conn
      <4> QED BY <3>4, <3>8, <4>1 DEF FilesInv, MissedIds
    <3> QED BY <1>0, <3>6, <3>7, <3>9, <3>10, <3>11 DEF FilesInv
  <2>6. CASE LookupFile(r)
    <3> DEFINE p == FirstRef(conn[r].todo)
               i == BlockAt(body[r], p).source.id
               missed == IF i # NoFile /\ cache[i] = NoData
                         THEN conn[r].missed \cup {i} ELSE conn[r].missed
               c == [conn[r] EXCEPT !.todo = conn[r].todo \ {p}, !.missed = missed]
    <3>1. p \in conn[r].todo /\ conn[r].todo \in SUBSET (Nat \X Nat)
      BY <2>0, <2>6, FirstRefIn DEF LookupFile, Conn
    <3>2. conn[r].pc = "lookup" /\ \A q \in conn[r].todo : IsRef(body[r], q)
      BY <1>0, <2>6 DEF LookupFile, PendingRefs
    <3>3. Becomes(r, c) /\ body' = [body EXCEPT ![r] = ResolveRef(cache, body[r], p)]
            /\ UNCHANGED <<process, files, client, orig, up>>
      BY <2>6 DEF LookupFile
    <3>4. \A q \in conn[r].todo \ {p} :
            BlockAt(ResolveRef(cache, body[r], p), q) = BlockAt(body[r], q)
      BY <3>1, <3>2, ResolveKeepsRefs
    <3>5. \A q \in conn[r].todo : BlockAt(body[r], q).source.id # NoFile =>
                                     known[BlockAt(body[r], q).source.id] # NoData
      BY <3>2 DEF FilesInv, KnownRefs
    <3>6. i # NoFile /\ cache[i] = NoData =>
            i \in FileIds /\ known[i] # NoData /\ i \in minted /\ learned[i] < gen
      <4> SUFFICES ASSUME i # NoFile, cache[i] = NoData
                   PROVE  i \in FileIds /\ known[i] # NoData /\ i \in minted /\ learned[i] < gen
        OBVIOUS
      <4>1. i \in FileIds /\ known[i] # NoData
        BY <3>1, <3>2, <3>5 DEF IsRef
      <4> HIDE DEF i
      <4>2. i \in minted /\ learned[i] <= gen /\ learned[i] \in Nat
        BY <1>0, <4>1 DEF FilesInv, ToldIds, TypeOK
      <4>3. learned[i] # gen
        BY <2>0, <4>1 DEF FilesInv, KnownIdsResolve
      <4> QED BY <2>0, <4>1, <4>2, <4>3
    <3>7. body'[r] = ResolveRef(cache, body[r], p) /\ \A s \in Requests \ {r} : body'[s] = body[s]
      BY <1>0, <3>3 DEF PendingRefs
    <3> HIDE DEF p
    <3> HIDE DEF i
    <3>8. \A k \in missed : k \in conn[r].missed \/ (k = i /\ i # NoFile /\ cache[i] = NoData)
      OBVIOUS
    <3> HIDE DEF missed
    <3>9. /\ c.pc = "lookup" /\ c.todo = conn[r].todo \ {p} /\ c.missed = missed
          /\ c.by = conn[r].by
      BY <2>0, <3>2 DEF Conn
    <3>10. conn'[r] = c /\ \A s \in Requests \ {r} : conn'[s] = conn[s]
      BY <1>0, <3>3 DEF Becomes, TypeOK
    <3> HIDE DEF c
    <3>11. OwnProcess' /\ ToldIds' /\ KnownIdsResolve'
      BY <2>0, <3>3, <3>9, <3>10 DEF FilesInv, OwnProcess, ToldIds, KnownIdsResolve, Active
    <3>12. UnpublishedIds'
      BY <3>3, <3>9, <3>10 DEF FilesInv, UnpublishedIds, Publishing
    <3>13. KnownRefs'
      BY <3>3, <3>4, <3>5, <3>7, <3>9, <3>10 DEF FilesInv, KnownRefs
    <3>14. MissedIds'
      BY <2>0, <3>3, <3>6, <3>8, <3>9, <3>10 DEF FilesInv, MissedIds
    <3> QED BY <1>0, <3>11, <3>12, <3>13, <3>14 DEF FilesInv
  <2>7. CASE Transform(r)
    <3> DEFINE c == [conn[r] EXCEPT !.pc = "dispatch"]
    <3>1. c \in Conn
      BY <2>0, ConnPc DEF PCs
    <3>2. c.pc = "dispatch" /\ c.by = conn[r].by /\ c.missed = conn[r].missed
      BY <2>0 DEF Conn
    <3>3. Becomes(r, c) /\ UNCHANGED <<process, files, client, orig>>
            /\ \A s \in Requests \ {r} : body'[s] = body[s]
      BY <1>0, <2>7 DEF Transform, PendingRefs
    <3> HIDE DEF c
    <3> QED BY <1>0, <2>0, <3>1, <3>2, <3>3, QuietStep
  <2>8. CASE Dispatch(r)
    <3> DEFINE c == [conn[r] EXCEPT !.pc = "do"]
    <3>1. c \in Conn
      BY <2>0, ConnPc DEF PCs
    <3>2. c.pc = "do" /\ c.by = conn[r].by /\ c.missed = conn[r].missed
      BY <2>0 DEF Conn
    <3>3. Becomes(r, c) /\ UNCHANGED <<process, files, client, bodies>>
      BY <2>8 DEF Dispatch
    <3> HIDE DEF c
    <3> QED BY <1>0, <2>0, <3>1, <3>2, <3>3, QuietStep
  <2>9. CASE Relay(r)
    <3>1. PICK c \in Conn : /\ Becomes(r, c) /\ c.by = conn[r].by /\ c.missed = conn[r].missed
                            /\ c.pc \in {"done", "stream", "reading", "writing"}
      BY <2>0, <2>9, RelayStep
    <3>2. UNCHANGED <<process, files, client, bodies>>
      BY <2>9 DEF Relay, DoReturns, DoFails, CheckContext, ReadChunk, ReadEOF, ReadError,
         WriteChunk, WriteFails
    <3> QED BY <1>0, <2>0, <3>1, <3>2, QuietStep
  <2> QED BY <1>5, <2>1, <2>2, <2>3, <2>4, <2>5, <2>6, <2>7, <2>8, <2>9 DEF Handler, Refuses
<1> QED BY <1>1, <1>2, <1>3, <1>4, <1>5 DEF Next

\* No reachable state has an id that claude was told by the running process and
\* that the file cache of that process does not resolve to what claude uploaded.
THEOREM KnownIdsAlwaysResolve == Spec => []KnownIdsResolve
<1>1. Init => FilesInv
  BY InitFilesInv
<1>2. FilesInv /\ [Next]_vars => FilesInv'
  BY NextFilesInv
<1>3. FilesInv => KnownIdsResolve
  BY DEF FilesInv
<1> QED BY <1>1, <1>2, <1>3, PTL DEF Spec

\* A lookup misses only for an id that an earlier process minted.
THEOREM MissesOnlyAfterRestart == Spec => []MissOnlyAfterRestart
<1>1. Init => FilesInv
  BY InitFilesInv
<1>2. FilesInv /\ [Next]_vars => FilesInv'
  BY NextFilesInv
<1>3. FilesInv => MissOnlyAfterRestart
  BY DEF FilesInv, MissedIds, MissOnlyAfterRestart
<1> QED BY <1>1, <1>2, <1>3, PTL DEF Spec

-------------------------------------------------------------------------------
(* What the cache gives a request is what claude uploaded under the ids    *)
(* the request names.  An id is never minted twice, so an entry of the     *)
(* cache and what claude knows of its id agree, also after a restart.      *)

\* Every body is made of its own references and its own data.
LEMMA OwnSources ==
  ASSUME NEW ids, NEW data, NEW b, b.messages \in Seq(Turns(ids, data)),
         NEW more, InlineIn(b) \subseteq more
  PROVE  b.messages \in Seq(Turns(FileIdsIn(b), more))
<1> DEFINE own == FileIdsIn(b)
<1>1. ASSUME NEW x \in BlocksOf(b) \cup NestedIn(b), x \in PlainBlocks(ids, data)
      PROVE  x \in PlainBlocks(own, more)
  <2>1. CASE x.type = "text"
    BY <1>1, <2>1 DEF PlainBlocks
  <2>2. CASE x.type \in {"image", "document"}
    <3>1. x.source \in Sources(ids, data)
      BY <1>1, <2>2 DEF PlainBlocks
    <3>2. CASE x.source.type = "file"
      <4>1. HasFileSource(x)
        BY <2>2, <3>2 DEF HasFileSource
      <4>2. x.source.id \in own \cup {NoFile}
        BY <4>1, FileIdsInIs
      <4>3. x.source \in Sources(own, more)
        BY <3>1, <3>2, <4>2 DEF Sources
      <4> QED BY <1>1, <2>2, <4>3 DEF PlainBlocks
    <3>3. CASE x.source.type = "base64"
      <4>1. x.source.data \in more
        BY <2>2, <3>3 DEF InlineIn
      <4>2. x.source \in Sources(own, more)
        BY <3>1, <3>3, <4>1 DEF Sources
      <4> QED BY <1>1, <2>2, <4>2 DEF PlainBlocks
    <3> QED BY <3>1, <3>2, <3>3 DEF Sources
  <2> QED BY <1>1, <2>1, <2>2 DEF PlainBlocks
<1>2. ASSUME NEW x \in BlocksOf(b), x \in ToolResults(ids, data)
      PROVE  x \in ToolResults(own, more)
  <2>1. x.type = "tool_result" /\ x.content \in Seq(PlainBlocks(ids, data))
    BY <1>2 DEF ToolResults
  <2>2. \A j \in DOMAIN x.content : x.content[j] \in NestedIn(b)
    BY <2>1 DEF NestedIn, ToSet
  <2>3. \A j \in DOMAIN x.content : x.content[j] \in PlainBlocks(own, more)
    BY <1>1, <2>1, <2>2
  <2>4. x.content \in Seq(PlainBlocks(own, more))
    BY <2>1, <2>3
  <2> QED BY <1>2, <2>4 DEF ToolResults
<1>3. ASSUME NEW m \in ToSet(b.messages)
      PROVE  m \in Turns(own, more)
  <2>0. m \in Turns(ids, data)
    BY DEF ToSet
  <2>1. CASE m \in [role : {"user"}, content : Seq(UserBlocks(ids, data))]
    <3>1. m.content \in Seq(UserBlocks(ids, data))
      BY <2>1
    <3>2. \A j \in DOMAIN m.content : m.content[j] \in BlocksOf(b) /\ m.content[j] \in UserBlocks(ids, data)
      BY <3>1 DEF BlocksOf, ToSet
    <3>3. \A j \in DOMAIN m.content : m.content[j] \in UserBlocks(own, more)
      BY <1>1, <1>2, <3>2 DEF UserBlocks
    <3>4. m.content \in Seq(UserBlocks(own, more))
      BY <3>1, <3>3
    <3> QED BY <2>1, <3>4 DEF Turns
  <2>2. CASE m \in [role : {"assistant"}, content : Seq(AssistantBlocks(ids, data))]
    <3>1. m.content \in Seq(AssistantBlocks(ids, data))
      BY <2>2
    <3>2. \A j \in DOMAIN m.content :
            m.content[j] \in BlocksOf(b) /\ m.content[j] \in AssistantBlocks(ids, data)
      BY <3>1 DEF BlocksOf, ToSet
    <3>3. \A j \in DOMAIN m.content : m.content[j] \in AssistantBlocks(own, more)
      BY <1>1, <3>2 DEF AssistantBlocks
    <3>4. m.content \in Seq(AssistantBlocks(own, more))
      BY <3>1, <3>3
    <3> QED BY <2>2, <3>4 DEF Turns
  <2> QED BY <2>0, <2>1, <2>2 DEF Turns
<1> HIDE DEF own
<1>4. \A i \in 1 .. Len(b.messages) : b.messages[i] \in Turns(own, more)
  BY <1>3 DEF ToSet
<1> QED BY <1>4 DEF own

\* One substitution brings in nothing but what the store has under an id of the body.
LEMMA ResolveRefTurns ==
  ASSUME NEW ids, NEW data, NEW store, \A i \in ids : store[i] # NoData => store[i] \in data,
         NEW b, "messages" \in DOMAIN b, b.messages \in Seq(Turns(ids, data)),
         NEW p \in Nat \X Nat, IsRef(b, p)
  PROVE  /\ "messages" \in DOMAIN ResolveRef(store, b, p)
         /\ ResolveRef(store, b, p).messages \in Seq(Turns(ids, data))
<1> DEFINE m == b.messages[p[1]]
           n == [m EXCEPT !.content[p[2]] = Resolved(store, @)]
<1>1. /\ "messages" \in DOMAIN ResolveRef(store, b, p)
      /\ ResolveRef(store, b, p).messages = [b.messages EXCEPT ![p[1]] = n]
  BY DEF ResolveRef
<1>2. p[1] \in 1 .. Len(b.messages) /\ m \in Turns(ids, data) /\ p[2] \in DOMAIN m.content
  BY DEF IsRef
<1>3. n \in Turns(ids, data)
  <2> HIDE DEF m
  <2>1. CASE m \in [role : {"user"}, content : Seq(UserBlocks(ids, data))]
    <3>1. m.content \in Seq(UserBlocks(ids, data)) /\ m.content[p[2]] \in UserBlocks(ids, data)
      BY <1>2, <2>1
    <3>2. Resolved(store, m.content[p[2]]) \in UserBlocks(ids, data)
      BY <3>1, ResolvedBlocks
    <3>3. [m.content EXCEPT ![p[2]] = Resolved(store, @)] \in Seq(UserBlocks(ids, data))
      BY <1>2, <3>1, <3>2
    <3> QED BY <2>1, <3>3 DEF Turns
  <2>2. CASE m \in [role : {"assistant"}, content : Seq(AssistantBlocks(ids, data))]
    <3>1. m.content \in Seq(AssistantBlocks(ids, data)) /\ m.content[p[2]] \in AssistantBlocks(ids, data)
      BY <1>2, <2>2
    <3>2. Resolved(store, m.content[p[2]]) \in AssistantBlocks(ids, data)
      BY <3>1, ResolvedBlocks
    <3>3. [m.content EXCEPT ![p[2]] = Resolved(store, @)] \in Seq(AssistantBlocks(ids, data))
      BY <1>2, <3>1, <3>2
    <3> QED BY <2>2, <3>3 DEF Turns
  <2> QED BY <1>2, <2>1, <2>2 DEF Turns
<1> HIDE DEF n
<1> QED BY <1>1, <1>2, <1>3

\* Neither the wire model nor vision routing nor the effort brings in any data.
LEMMA TransformedTurns ==
  ASSUME NEW ids, NEW data, NEW b, "messages" \in DOMAIN b, b.messages \in Seq(Turns(ids, data))
  PROVE  /\ "messages" \in DOMAIN Transformed(b)
         /\ Transformed(b).messages \in Seq(Turns(ids, data))
<1> DEFINE w == RewriteModel(Cfg, b)
<1>1. "messages" \in DOMAIN w /\ w.messages = b.messages
  BY DEF RewriteModel
<1> HIDE DEF w
<1>2. CASE ShouldRoute(Cfg, w)
  <2>1. Transformed(b) = RouteVision(Cfg, w)
    BY <1>2 DEF Transformed, w
  <2>2. "messages" \in DOMAIN RouteVision(Cfg, w)
    BY <1>1 DEF RouteVision
  <2>3. RouteVision(Cfg, w).messages \in Seq(PlainTurns(ids, data))
    BY <1>1, <1>2, RoutedIsPlain
  <2>4. PlainTurns(ids, data) \subseteq Turns(ids, data)
    BY DEF PlainTurns, Turns, UserBlocks, AssistantBlocks
  <2> QED BY <2>1, <2>2, <2>3, <2>4
<1>3. CASE ~ ShouldRoute(Cfg, w)
  <2>1. PICK m : Transformed(b) = RunEffort(Cfg, w, m)
    BY <1>3 DEF Transformed, w
  <2>2. /\ "messages" \in DOMAIN RunEffort(Cfg, w, m)
        /\ RunEffort(Cfg, w, m).messages = w.messages
    BY <1>1 DEF RunEffort, ApplyRegime
  <2> QED BY <1>1, <2>1, <2>2
<1> QED BY <1>2, <1>3

\* An entry of the cache has the content claude knows its id by, once it knows it.
CacheAgrees ==
  \A i \in FileIds : cache[i] # NoData => i \in minted /\ (known[i] # NoData => known[i] = cache[i])

\* A body has the references claude sent, and as data what claude sent or uploaded
\* under them.
FaithfulBody(r) ==
  /\ orig[r] \in Bodies
  /\ \A i \in FileIdsIn(orig[r]) : known[i] # NoData
  /\ "messages" \in DOMAIN body[r]
  /\ body[r].messages \in Seq(Turns(FileIdsIn(orig[r]),
                                    InlineIn(orig[r]) \cup {known[i] : i \in FileIdsIn(orig[r])}))

BodiesFaithful == \A r \in Requests : conn[r].endpoint = "messages" => FaithfulBody(r)

SubstInv == FilesInv /\ CacheAgrees /\ BodiesFaithful

LEMMA InitSubstInv == Init => SubstInv
<1> SUFFICES ASSUME Init PROVE SubstInv
  OBVIOUS
<1>1. \A r \in Requests : conn[r].endpoint = "none"
  BY DEF Init, NewConn
<1> QED BY <1>1, InitFilesInv DEF Init, SubstInv, CacheAgrees, BodiesFaithful, EmptyCache

\* A body stays faithful when what claude knows of the files it refers to stays.
LEMMA StaysFaithful ==
  ASSUME NEW r \in Requests, FaithfulBody(r), orig'[r] = orig[r], body'[r] = body[r],
         \A i \in FileIds : known[i] # NoData => known'[i] = known[i]
  PROVE  FaithfulBody(r)'
<1>1. FileIdsIn(orig[r]) \subseteq FileIds
  BY BodiesNameFileIds DEF FaithfulBody
<1>2. \A i \in FileIdsIn(orig[r]) : known'[i] = known[i]
  BY <1>1 DEF FaithfulBody
<1>3. {known'[i] : i \in FileIdsIn(orig[r])} = {known[i] : i \in FileIdsIn(orig[r])}
  BY <1>2
<1> QED BY <1>2, <1>3 DEF FaithfulBody

\* A step that leaves the bodies and the files alone keeps the invariant.
LEMMA SubstQuiet ==
  ASSUME SubstInv, FilesInv', UNCHANGED <<cache, minted, known>>,
         \A s \in Requests : conn'[s].endpoint = "messages" =>
            conn[s].endpoint = "messages" /\ orig'[s] = orig[s] /\ body'[s] = body[s]
  PROVE  SubstInv'
<1>1. CacheAgrees'
  BY DEF SubstInv, CacheAgrees
<1>2. ASSUME NEW s \in Requests, conn'[s].endpoint = "messages"
      PROVE  FaithfulBody(s)'
  BY <1>2, StaysFaithful DEF SubstInv, BodiesFaithful
<1> QED BY <1>1, <1>2 DEF SubstInv, BodiesFaithful

\* No step of the relay changes the endpoint of its connection.
LEMMA RelayEndpoint ==
  ASSUME NEW r \in Requests, conn[r] \in Conn, Relay(r)
  PROVE  \E c : Becomes(r, c) /\ c.endpoint = conn[r].endpoint
<1>1. \A o : Return(conn[r], o).endpoint = conn[r].endpoint
  BY DEF Return, Conn
<1>2. \A pc : [conn[r] EXCEPT !.pc = pc].endpoint = conn[r].endpoint
  BY DEF Conn
<1>3. CASE DoReturns(r)
  <2> DEFINE c == [conn[r] EXCEPT !.pc = "stream", !.status = 200]
  <2>1. c.endpoint = conn[r].endpoint
    BY DEF Conn
  <2>2. Becomes(r, c)
    BY <1>3 DEF DoReturns
  <2> QED BY <2>1, <2>2
<1>4. CASE DoFails(r)
  <2> DEFINE c == [Respond(conn[r], 502) EXCEPT !.outcome = "unreachable"]
  <2>1. c.endpoint = conn[r].endpoint
    BY DEF Conn, Respond
  <2>2. Becomes(r, c)
    BY <1>4 DEF DoFails
  <2> QED BY <2>1, <2>2
<1>5. CASE CheckContext(r)
  BY <1>1, <1>2, <1>5 DEF CheckContext
<1>6. CASE ReadChunk(r)
  <2>1. PICK eof \in BOOLEAN :
          Becomes(r, [conn[r] EXCEPT !.pc = "writing", !.read = conn[r].read + 1,
                                     !.readEOF = eof])
    BY <1>6 DEF ReadChunk
  <2> DEFINE c == [conn[r] EXCEPT !.pc = "writing", !.read = conn[r].read + 1,
                                  !.readEOF = eof]
  <2>2. c.endpoint = conn[r].endpoint
    BY DEF Conn
  <2> QED BY <2>1, <2>2
<1>7. CASE ReadEOF(r) \/ ReadError(r) \/ WriteFails(r)
  BY <1>1, <1>7 DEF ReadEOF, ReadError, WriteFails
<1>8. CASE WriteChunk(r)
  <2> DEFINE c == IF conn[r].readEOF THEN Return(Received(conn[r]), "none")
                  ELSE [Received(conn[r]) EXCEPT !.pc = "stream"]
  <2>1. Received(conn[r]) \in Conn /\ Received(conn[r]).endpoint = conn[r].endpoint
    BY ConnReceived DEF Received, Conn
  <2>2. c.endpoint = conn[r].endpoint
    BY <2>1 DEF Return, Conn
  <2>3. Becomes(r, c)
    BY <1>8 DEF WriteChunk
  <2> HIDE DEF c
  <2> QED BY <2>2, <2>3
<1> QED BY <1>3, <1>4, <1>5, <1>6, <1>7, <1>8 DEF Relay

\* No step of a handler changes the endpoint it serves.
LEMMA HandlerEndpoint ==
  ASSUME conn \in [Requests -> Conn], NEW r \in Requests,
         Handler(r) \/ ClientLeaves(r) \/ CancelContext(r)
  PROVE  \A s \in Requests : conn'[s].endpoint = conn[s].endpoint
<1>1. conn[r] \in Conn
  OBVIOUS
<1>2. \A pc : [conn[r] EXCEPT !.pc = pc].endpoint = conn[r].endpoint
  BY <1>1 DEF Conn
<1>3. \A s : Respond(conn[r], s).endpoint = conn[r].endpoint
  BY <1>1 DEF Respond, Conn
<1>4. CASE ReadBody(r)
  <2>1. \A refs : [conn[r] EXCEPT !.pc = "lookup", !.todo = refs].endpoint = conn[r].endpoint
    BY <1>1 DEF Conn
  <2>2. PICK c \in {Respond(conn[r], 400), [conn[r] EXCEPT !.pc = "mint"],
                    [conn[r] EXCEPT !.pc = "lookup",
                                    !.todo = IF orig[r].json THEN FileRefs(orig[r]) ELSE {}],
                    [conn[r] EXCEPT !.pc = "dispatch"]} : Becomes(r, c)
    BY <1>4 DEF ReadBody
  <2>3. c.endpoint = conn[r].endpoint
    <3> DEFINE refs == IF orig[r].json THEN FileRefs(orig[r]) ELSE {}
    <3> HIDE DEF refs
    <3>1. c \in {Respond(conn[r], 400), [conn[r] EXCEPT !.pc = "mint"],
                 [conn[r] EXCEPT !.pc = "lookup", !.todo = refs],
                 [conn[r] EXCEPT !.pc = "dispatch"]}
      BY <2>2 DEF refs
    <3>2. CASE c = Respond(conn[r], 400)
      BY <1>3, <3>2
    <3>3. CASE c \in {[conn[r] EXCEPT !.pc = "mint"], [conn[r] EXCEPT !.pc = "dispatch"]}
      BY <1>2, <3>3
    <3>4. CASE c = [conn[r] EXCEPT !.pc = "lookup", !.todo = refs]
      BY <2>1, <3>4
    <3> QED BY <3>1, <3>2, <3>3, <3>4
  <2> QED BY <2>2, <2>3 DEF Becomes
<1>5. CASE Refuses(r)
  BY <1>3, <1>5, RefusesIs DEF Becomes
<1>6. CASE StoreFile(r)
  <2>1. PICK i : Becomes(r, [conn[r] EXCEPT !.pc = "gauge", !.id = i])
    BY <1>6 DEF StoreFile
  <2>2. [conn[r] EXCEPT !.pc = "gauge", !.id = i].endpoint = conn[r].endpoint
    BY <1>1 DEF Conn
  <2> QED BY <2>1, <2>2 DEF Becomes
<1>7. CASE CountFile(r)
  BY <1>2, <1>7 DEF CountFile, Becomes
<1>8. CASE ReplyFile(r)
  BY <1>3, <1>8 DEF ReplyFile, Becomes
<1>9. CASE LookupFile(r)
  <2> DEFINE p == FirstRef(conn[r].todo)
             i == BlockAt(body[r], p).source.id
             missed == IF i # NoFile /\ cache[i] = NoData
                       THEN conn[r].missed \cup {i} ELSE conn[r].missed
             c == [conn[r] EXCEPT !.todo = conn[r].todo \ {p}, !.missed = missed]
  <2>1. Becomes(r, c)
    BY <1>9 DEF LookupFile
  <2> HIDE DEF p, i, missed
  <2>2. c.endpoint = conn[r].endpoint
    BY <1>1 DEF Conn
  <2> QED BY <2>1, <2>2 DEF Becomes
<1>10. CASE Transform(r)
  BY <1>2, <1>10 DEF Transform, Becomes
<1>11. CASE Dispatch(r)
  BY <1>2, <1>11 DEF Dispatch, Becomes
<1>12. CASE Relay(r)
  <2>1. PICK c : Becomes(r, c) /\ c.endpoint = conn[r].endpoint
    BY <1>1, <1>12, RelayEndpoint
  <2> QED BY <2>1 DEF Becomes
<1>13. CASE ClientLeaves(r)
  BY <1>1, <1>13 DEF ClientLeaves, Becomes, Conn
<1>14. CASE CancelContext(r)
  BY <1>1, <1>14 DEF CancelContext, Becomes, Conn
<1> QED BY <1>4, <1>5, <1>6, <1>7, <1>8, <1>9, <1>10, <1>11, <1>12, <1>13, <1>14 DEF Handler, Refuses

LEMMA NextSubstInv == SubstInv /\ [Next]_vars => SubstInv'
<1> SUFFICES ASSUME SubstInv, [Next]_vars PROVE SubstInv'
  OBVIOUS
<1>0. /\ FilesInv /\ FilesInv' /\ TypeOK /\ PendingRefs
      /\ conn \in [Requests -> Conn] /\ \A r \in Requests : conn[r] \in Conn
  BY NextFilesInv DEF SubstInv, FilesInv, TypeInv, TypeOK
<1>1. CASE Lifecycle
  <2>1. CASE NewProxy
    <3>1. CacheAgrees'
      BY <2>1 DEF NewProxy, CacheAgrees, EmptyCache
    <3>2. ASSUME NEW s \in Requests, conn'[s].endpoint = "messages"
          PROVE  FaithfulBody(s)'
      BY <2>1, <3>2, StaysFaithful DEF NewProxy, SubstInv, BodiesFaithful
    <3> QED BY <1>0, <3>1, <3>2 DEF SubstInv, BodiesFaithful
  <2>2. CASE Start \/ Shutdown \/ Drained \/ GraceExpires
    <3>1. UNCHANGED <<cache, minted, known, conn, orig, body>>
      BY <2>2 DEF Start, Shutdown, Drained, GraceExpires
    <3> QED BY <1>0, <3>1, SubstQuiet
  <2>3. CASE ProcessEnds
    <3>1. UNCHANGED <<cache, minted, known, orig, body>>
      BY <2>3 DEF ProcessEnds
    <3>2. \A r \in Requests : conn'[r].endpoint = conn[r].endpoint
      BY <1>0, <2>3 DEF ProcessEnds, Conn
    <3> QED BY <1>0, <3>1, <3>2, SubstQuiet
  <2> QED BY <1>1, <2>1, <2>2, <2>3 DEF Lifecycle
<1>2. ASSUME NEW r \in Requests, Client(r) PROVE SubstInv'
  <2>1. ASSUME NEW e, NEW d, NEW b, Connect(r, e, d, b),
               e = "messages" => b \in Bodies /\ \A i \in FileIdsIn(b) : known[i] # NoData
        PROVE  SubstInv'
    <3> DEFINE c == [conn[r] EXCEPT !.pc = "read", !.endpoint = e, !.upload = d,
                                    !.open = TRUE, !.by = gen]
    <3>1. c.endpoint = e
      BY <1>0 DEF Conn
    <3>2. /\ orig'[r] = b /\ body'[r] = b
          /\ UNCHANGED <<cache, minted, known>>
          /\ \A s \in Requests \ {r} : orig'[s] = orig[s] /\ body'[s] = body[s]
      BY <1>0, <2>1 DEF Connect, PendingRefs
    <3>3. conn'[r] = c /\ \A s \in Requests \ {r} : conn'[s] = conn[s]
      BY <1>0, <2>1 DEF Connect, Becomes
    <3> HIDE DEF c
    <3>4. CacheAgrees'
      BY <3>2 DEF SubstInv, CacheAgrees
    <3>5. ASSUME e = "messages"
          PROVE  FaithfulBody(r)'
      <4>1. /\ b \in Bodies /\ \A i \in FileIdsIn(b) : known'[i] # NoData
        BY <2>1, <3>2, <3>5
      <4>2. "messages" \in DOMAIN b /\ b.messages \in Seq(Turns(FileIds, Data))
        BY <4>1, BodiesAssumption DEF MessageBodies
      <4> DEFINE more == InlineIn(b) \cup {known'[i] : i \in FileIdsIn(b)}
      <4>3. InlineIn(b) \subseteq more
        OBVIOUS
      <4> HIDE DEF more
      <4>4. b.messages \in Seq(Turns(FileIdsIn(b), more))
        BY <4>2, <4>3, OwnSources
      <4> QED BY <3>2, <4>1, <4>2, <4>4 DEF FaithfulBody, more
    <3>6. ASSUME NEW s \in Requests \ {r}, conn'[s].endpoint = "messages"
          PROVE  FaithfulBody(s)'
      BY <3>2, <3>3, <3>6, StaysFaithful DEF SubstInv, BodiesFaithful
    <3> QED BY <1>0, <3>1, <3>3, <3>4, <3>5, <3>6 DEF SubstInv, BodiesFaithful
  <2>2. CASE SendFile(r)
    BY <2>1, <2>2 DEF SendFile
  <2>3. CASE SendMessages(r)
    BY <2>1, <2>3 DEF SendMessages
  <2>4. CASE SendOther(r)
    BY <2>1, <2>4 DEF SendOther
  <2>5. CASE ClientLeaves(r) \/ CancelContext(r)
    <3>1. UNCHANGED <<cache, minted, known, orig, body>>
      BY <2>5 DEF ClientLeaves, CancelContext
    <3>2. \A s \in Requests : conn'[s].endpoint = conn[s].endpoint
      BY <1>0, <2>5, HandlerEndpoint
    <3> QED BY <1>0, <3>1, <3>2, SubstQuiet
  <2> QED BY <1>2, <2>2, <2>3, <2>4, <2>5 DEF Client
<1>3. ASSUME NEW r \in Requests, Upstream(r) PROVE SubstInv'
  <2>1. UNCHANGED <<process, files, client, conn, bodies>>
    BY <1>3 DEF Upstream, UpstreamAnswers, UpstreamRefuses, UpstreamEnds, UpstreamBreaks,
       UpstreamSends, UpstreamStep
  <2> QED BY <1>0, <2>1, SubstQuiet
<1>4. CASE UNCHANGED vars
  <2>1. UNCHANGED <<cache, minted, known, conn, orig, body>>
    BY <1>4 DEF vars
  <2> QED BY <1>0, <2>1, SubstQuiet
<1>5. ASSUME NEW r \in Requests, Handler(r) PROVE SubstInv'
  <2>0. \A s \in Requests : conn'[s].endpoint = conn[s].endpoint
    BY <1>0, <1>5, HandlerEndpoint
  <2>1. CASE ReadBody(r) \/ Refuses(r) \/ CountFile(r) \/ Dispatch(r) \/ Relay(r)
    <3>1. CASE Refuses(r)
      BY <1>0, <2>0, <3>1, RefusesIs, SubstQuiet DEF files, client, bodies
    <3>2. CASE ReadBody(r) \/ CountFile(r) \/ Dispatch(r) \/ Relay(r)
      <4>1. UNCHANGED <<cache, minted, known, orig, body>>
        BY <3>2 DEF ReadBody, CountFile, Dispatch, Relay, DoReturns, DoFails, CheckContext,
           ReadChunk, ReadEOF, ReadError, WriteChunk, WriteFails
      <4> QED BY <1>0, <2>0, <4>1, SubstQuiet
    <3> QED BY <2>1, <3>1, <3>2
  <2>2. CASE StoreFile(r)
    <3>1. PICK i \in FileIds \ minted :
            /\ minted' = minted \cup {i}
            /\ cache' = [cache EXCEPT ![i] = conn[r].upload]
      BY <2>2 DEF StoreFile
    <3>2. UNCHANGED <<known, orig, body>>
      BY <2>2 DEF StoreFile
    <3>3. known[i] = NoData /\ cache \in [FileIds -> Data \cup {NoData}]
      BY <1>0, <3>1 DEF FilesInv, ToldIds, TypeOK
    <3>4. CacheAgrees'
      BY <3>1, <3>2, <3>3 DEF SubstInv, CacheAgrees
    <3>5. ASSUME NEW s \in Requests, conn'[s].endpoint = "messages"
          PROVE  FaithfulBody(s)'
      BY <2>0, <3>2, <3>5, StaysFaithful DEF SubstInv, BodiesFaithful
    <3> QED BY <1>0, <3>4, <3>5 DEF SubstInv, BodiesFaithful
  <2>3. CASE ReplyFile(r)
    <3> DEFINE own == conn[r].id
    <3>1. known[own] = NoData /\ cache[own] = conn[r].upload /\ own \in minted
      BY <1>0, <2>3 DEF ReplyFile, FilesInv, UnpublishedIds, Publishing
    <3>2. known' = known \/ known' = [known EXCEPT ![own] = conn[r].upload]
      BY <2>3 DEF ReplyFile
    <3>3. UNCHANGED <<cache, minted, orig, body>>
      BY <2>3 DEF ReplyFile
    <3> HIDE DEF own
    <3>4. known \in [FileIds -> Data \cup {NoData}]
      BY <1>0 DEF TypeOK
    <3>5. \A i \in FileIds : known[i] # NoData => known'[i] = known[i]
      BY <3>1, <3>2, <3>4
    <3>6. CacheAgrees'
      <4> SUFFICES ASSUME NEW i \in FileIds, cache[i] # NoData
                   PROVE  i \in minted /\ (known'[i] # NoData => known'[i] = cache[i])
        BY <3>3 DEF CacheAgrees
      <4>1. i \in minted /\ (known[i] # NoData => known[i] = cache[i])
        BY DEF SubstInv, CacheAgrees
      <4> QED BY <3>1, <3>2, <3>4, <4>1
    <3>7. ASSUME NEW s \in Requests, conn'[s].endpoint = "messages"
          PROVE  FaithfulBody(s)'
      BY <2>0, <3>3, <3>5, <3>7, StaysFaithful DEF SubstInv, BodiesFaithful
    <3> QED BY <1>0, <3>6, <3>7 DEF SubstInv, BodiesFaithful
  <2>4. ASSUME UNCHANGED <<cache, minted, known, orig>>,
               \A s \in Requests \ {r} : body'[s] = body[s],
               FaithfulBody(r) =>
                 /\ "messages" \in DOMAIN body'[r]
                 /\ body'[r].messages \in
                      Seq(Turns(FileIdsIn(orig[r]),
                                InlineIn(orig[r]) \cup {known[i] : i \in FileIdsIn(orig[r])}))
        PROVE  SubstInv'
    <3>1. CacheAgrees'
      BY <2>4 DEF SubstInv, CacheAgrees
    <3>2. ASSUME conn'[r].endpoint = "messages"
          PROVE  FaithfulBody(r)'
      <4>1. FaithfulBody(r)
        BY <2>0, <3>2 DEF SubstInv, BodiesFaithful
      <4> QED BY <2>4, <4>1 DEF FaithfulBody
    <3>3. ASSUME NEW s \in Requests \ {r}, conn'[s].endpoint = "messages"
          PROVE  FaithfulBody(s)'
      BY <2>0, <2>4, <3>3, StaysFaithful DEF SubstInv, BodiesFaithful
    <3> QED BY <1>0, <3>1, <3>2, <3>3 DEF SubstInv, BodiesFaithful
  <2>5. CASE LookupFile(r)
    <3> DEFINE p == FirstRef(conn[r].todo)
               named == FileIdsIn(orig[r])
               more == InlineIn(orig[r]) \cup {known[i] : i \in named}
    <3>1. p \in Nat \X Nat /\ IsRef(body[r], p)
      <4>1. p \in conn[r].todo /\ conn[r].todo \in SUBSET (Nat \X Nat)
        BY <1>0, <2>5, FirstRefIn DEF LookupFile, Conn
      <4> QED BY <1>0, <2>5, <4>1 DEF LookupFile, PendingRefs
    <3>2. body' = [body EXCEPT ![r] = ResolveRef(cache, body[r], p)]
            /\ UNCHANGED <<cache, minted, known, orig>>
      BY <2>5 DEF LookupFile
    <3> HIDE DEF p
    <3>3. /\ body'[r] = ResolveRef(cache, body[r], p)
          /\ \A s \in Requests \ {r} : body'[s] = body[s]
      BY <1>0, <3>2 DEF PendingRefs
    <3>4. ASSUME FaithfulBody(r)
          PROVE  "messages" \in DOMAIN body'[r] /\ body'[r].messages \in Seq(Turns(named, more))
      <4>1. "messages" \in DOMAIN body[r] /\ body[r].messages \in Seq(Turns(named, more))
        BY <3>4 DEF FaithfulBody
      <4>2. \A i \in named : i \in FileIds /\ known[i] # NoData
        BY <3>4, BodiesNameFileIds DEF FaithfulBody
      <4>3. \A i \in named : cache[i] # NoData => cache[i] \in more
        BY <4>2 DEF SubstInv, CacheAgrees
      <4> HIDE DEF named, more
      <4>4. PICK b : b = body[r]
        OBVIOUS
      <4>5. /\ "messages" \in DOMAIN b /\ b.messages \in Seq(Turns(named, more))
            /\ IsRef(b, p)
        BY <3>1, <4>1, <4>4
      <4>6. /\ "messages" \in DOMAIN ResolveRef(cache, b, p)
            /\ ResolveRef(cache, b, p).messages \in Seq(Turns(named, more))
        BY <3>1, <4>3, <4>5, ResolveRefTurns
      <4> QED BY <3>3, <4>4, <4>6
    <3> QED BY <2>4, <3>2, <3>3, <3>4
  <2>6. CASE Transform(r)
    <3>1. body' = [body EXCEPT ![r] = Transformed(body[r])] /\ UNCHANGED <<cache, minted, known, orig>>
      BY <2>6 DEF Transform
    <3>2. /\ body'[r] = Transformed(body[r])
          /\ \A s \in Requests \ {r} : body'[s] = body[s]
      BY <1>0, <3>1 DEF PendingRefs
    <3> DEFINE named == FileIdsIn(orig[r])
               more == InlineIn(orig[r]) \cup {known[i] : i \in named}
    <3>3. ASSUME FaithfulBody(r)
          PROVE  "messages" \in DOMAIN body'[r] /\ body'[r].messages \in Seq(Turns(named, more))
      <4>1. "messages" \in DOMAIN body[r] /\ body[r].messages \in Seq(Turns(named, more))
        BY <3>3 DEF FaithfulBody
      <4> HIDE DEF named, more
      <4> QED BY <3>2, <4>1, TransformedTurns
    <3> QED BY <2>4, <3>1, <3>2, <3>3
  <2> QED BY <1>5, <2>1, <2>2, <2>3, <2>5, <2>6 DEF Handler, Refuses
<1> QED BY <1>1, <1>2, <1>3, <1>4, <1>5 DEF Next

\* Whatever other uploads, lookups and restarts run in between, every inline image
\* or document of a body was inline when claude sent it or is what claude uploaded
\* under an id it referred to.
THEOREM SubstitutionsAreFaithful == Spec => []SubstitutionFaithful
<1>1. Init => SubstInv
  BY InitSubstInv
<1>2. SubstInv /\ [Next]_vars => SubstInv'
  BY NextSubstInv
<1>3. SubstInv => SubstitutionFaithful
  <2> SUFFICES ASSUME SubstInv, NEW r \in Requests, conn[r].endpoint = "messages"
               PROVE  InlineIn(body[r]) \subseteq
                        InlineIn(orig[r]) \cup {known[i] : i \in FileIdsIn(orig[r])}
    BY Zenon DEF SubstitutionFaithful, InlineIn, NestedIn, BlocksOf
  <2> DEFINE named == FileIdsIn(orig[r])
             more == InlineIn(orig[r]) \cup {known[i] : i \in named}
  <2>1. body[r].messages \in Seq(Turns(named, more))
    BY DEF SubstInv, BodiesFaithful, FaithfulBody
  <2> HIDE DEF named, more
  <2>2. InlineIn(body[r]) \subseteq more
    BY <2>1, SourcesWithin
  <2> QED BY <2>2 DEF more, named
<1> QED BY <1>1, <1>2, <1>3, PTL DEF Spec

-------------------------------------------------------------------------------
(* The file store: each step of Proxy is a step of FileStore or none.       *)

Uploading(c) == c.pc \in {"mint", "gauge", "reply"}

\* An upload that was accepted has a content: an empty one is refused.
Uploads == \A r \in Requests : Uploading(conn[r]) => conn[r].upload \in Data

\* A step that changes neither what claude knows nor the cache of the running
\* process, and lets no reference miss, is none of the store.
LEMMA StoreStutters ==
  ASSUME UNCHANGED <<gen, cache, known, learned>>, (proc' # "down") <=> (proc # "down"),
         \A r \in Requests : conn'[r].missed = conn[r].missed
  PROVE  UNCHANGED Files!vars
<1>1. Held' = Held
  BY DEF Held
<1>2. [r \in Requests |-> conn'[r].missed] = [r \in Requests |-> conn[r].missed]
  OBVIOUS
<1>3. (proc' # "down") = (proc # "down")
  OBVIOUS
<1> QED BY <1>1, <1>2, <1>3 DEF Files!vars

\* What the steps of a handler do to the record of their connection, as far as the
\* store is concerned.
LEMMA HandlerMoves ==
  ASSUME Uploads, NEW r \in Requests, conn[r] \in Conn, Handler(r)
  PROVE  \E c : /\ Becomes(r, c)
                /\ Uploading(c) => c.upload \in Data
                /\ ~ LookupFile(r) => c.missed = conn[r].missed
<1> DEFINE Moves(c) == /\ Becomes(r, c)
                       /\ Uploading(c) => c.upload \in Data
                       /\ ~ LookupFile(r) => c.missed = conn[r].missed
<1>1. CASE ReadBody(r)
  <2>1. CASE conn[r].endpoint = "files" /\ conn[r].upload # NoData
    <3> DEFINE c == [conn[r] EXCEPT !.pc = "mint"]
    <3>1. Becomes(r, c)
      BY <1>1, <2>1 DEF ReadBody
    <3>2. c.upload \in Data /\ c.missed = conn[r].missed
      BY <2>1 DEF Conn
    <3> HIDE DEF c
    <3> QED BY <3>1, <3>2
  <2>2. CASE ~ (conn[r].endpoint = "files" /\ conn[r].upload # NoData)
    <3> DEFINE refs == IF orig[r].json THEN FileRefs(orig[r]) ELSE {}
    <3>1. PICK c \in {Respond(conn[r], 400), [conn[r] EXCEPT !.pc = "dispatch"],
                      [conn[r] EXCEPT !.pc = "lookup", !.todo = refs]} : Becomes(r, c)
      BY <1>1, <2>2 DEF ReadBody
    <3> HIDE DEF refs
    <3>2. c.pc \in {"done", "dispatch", "lookup"} /\ c.missed = conn[r].missed
      <4>1. CASE c = Respond(conn[r], 400)
        BY <4>1 DEF Conn, Respond
      <4>2. CASE c = [conn[r] EXCEPT !.pc = "dispatch"]
        BY <4>2 DEF Conn
      <4>3. CASE c = [conn[r] EXCEPT !.pc = "lookup", !.todo = refs]
        BY <4>3 DEF Conn
      <4> QED BY <3>1, <4>1, <4>2, <4>3
    <3> QED BY <3>1, <3>2 DEF Uploading
  <2> QED BY <2>1, <2>2
<1>2. CASE Refuses(r)
  <2>0. PICK s \in {400, 500, 502} : Becomes(r, Respond(conn[r], s))
    BY <1>2, RefusesIs
  <2> DEFINE c == Respond(conn[r], s)
  <2>1. Becomes(r, c)
    BY <2>0
  <2>2. c.pc = "done" /\ c.missed = conn[r].missed
    BY DEF Conn, Respond
  <2> HIDE DEF c
  <2> QED BY <2>1, <2>2 DEF Uploading
<1>3. CASE StoreFile(r)
  <2>1. PICK i \in FileIds : Becomes(r, [conn[r] EXCEPT !.pc = "gauge", !.id = i])
    BY <1>3 DEF StoreFile
  <2> DEFINE c == [conn[r] EXCEPT !.pc = "gauge", !.id = i]
  <2>2. c.upload = conn[r].upload /\ c.missed = conn[r].missed
    BY DEF Conn
  <2>3. conn[r].upload \in Data
    BY <1>3 DEF StoreFile, Uploads, Uploading
  <2> HIDE DEF c
  <2>4. Becomes(r, c)
    BY <2>1 DEF c
  <2> QED BY <2>2, <2>3, <2>4
<1>4. CASE CountFile(r)
  <2> DEFINE c == [conn[r] EXCEPT !.pc = "reply"]
  <2>1. Becomes(r, c)
    BY <1>4 DEF CountFile
  <2>2. c.upload = conn[r].upload /\ c.missed = conn[r].missed
    BY DEF Conn
  <2>3. conn[r].upload \in Data
    BY <1>4 DEF CountFile, Uploads, Uploading
  <2> HIDE DEF c
  <2> QED BY <2>1, <2>2, <2>3
<1>5. CASE ReplyFile(r)
  <2> DEFINE c == Respond(conn[r], 200)
  <2>1. Becomes(r, c)
    BY <1>5 DEF ReplyFile
  <2>2. c.pc = "done" /\ c.missed = conn[r].missed
    BY DEF Conn, Respond
  <2> HIDE DEF c
  <2> QED BY <2>1, <2>2 DEF Uploading
<1>6. CASE LookupFile(r)
  <2>1. PICK todo, missed :
          Becomes(r, [conn[r] EXCEPT !.todo = todo, !.missed = missed])
    BY <1>6 DEF LookupFile
  <2> DEFINE c == [conn[r] EXCEPT !.todo = todo, !.missed = missed]
  <2>2. c.pc = conn[r].pc /\ conn[r].pc = "lookup"
    BY <1>6 DEF Conn, LookupFile
  <2>3. Becomes(r, c)
    BY <2>1
  <2> HIDE DEF c
  <2> QED BY <1>6, <2>2, <2>3 DEF Uploading
<1>7. CASE Transform(r) \/ Dispatch(r)
  <2>1. PICK c \in {[conn[r] EXCEPT !.pc = "dispatch"], [conn[r] EXCEPT !.pc = "do"]} :
          Becomes(r, c)
    BY <1>7 DEF Transform, Dispatch
  <2>2. c.pc \in {"dispatch", "do"} /\ c.missed = conn[r].missed
    <3>1. CASE c = [conn[r] EXCEPT !.pc = "dispatch"]
      BY <3>1 DEF Conn
    <3>2. CASE c = [conn[r] EXCEPT !.pc = "do"]
      BY <3>2 DEF Conn
    <3> QED BY <2>1, <3>1, <3>2
  <2> QED BY <2>1, <2>2 DEF Uploading
<1>8. CASE Relay(r)
  <2>1. PICK c \in Conn : /\ Becomes(r, c) /\ c.missed = conn[r].missed
                          /\ c.pc \in {"done", "stream", "reading", "writing"}
    BY <1>8, RelayStep
  <2> QED BY <2>1 DEF Uploading
<1> QED BY <1>1, <1>2, <1>3, <1>4, <1>5, <1>6, <1>7, <1>8 DEF Handler, Refuses

\* What the steps of a client do to it.
LEMMA ClientMoves ==
  ASSUME Uploads, NEW r \in Requests, conn[r] \in Conn, Client(r)
  PROVE  /\ \E c : Becomes(r, c) /\ c.missed = conn[r].missed
                   /\ (Uploading(c) => c.upload \in Data)
         /\ UNCHANGED <<process, files, client>>
<1>1. ASSUME NEW e, NEW d, NEW b, Connect(r, e, d, b)
      PROVE  /\ \E c : Becomes(r, c) /\ c.missed = conn[r].missed
                       /\ (Uploading(c) => c.upload \in Data)
             /\ UNCHANGED <<process, files, client>>
  <2> DEFINE c == [conn[r] EXCEPT !.pc = "read", !.endpoint = e, !.upload = d,
                                  !.open = TRUE, !.by = gen]
  <2>1. c.pc = "read" /\ c.missed = conn[r].missed
    BY DEF Conn
  <2>2. Becomes(r, c) /\ UNCHANGED <<process, files, client>>
    BY <1>1 DEF Connect
  <2> HIDE DEF c
  <2> QED BY <2>1, <2>2 DEF Uploading
<1>2. CASE SendFile(r) \/ SendMessages(r) \/ SendOther(r)
  BY <1>1, <1>2 DEF SendFile, SendMessages, SendOther
<1>3. CASE ClientLeaves(r) \/ CancelContext(r)
  <2>1. PICK c \in {[conn[r] EXCEPT !.open = FALSE], [conn[r] EXCEPT !.cancelled = TRUE]} :
          Becomes(r, c)
    BY <1>3 DEF ClientLeaves, CancelContext
  <2>2. c.pc = conn[r].pc /\ c.upload = conn[r].upload /\ c.missed = conn[r].missed
    <3>1. CASE c = [conn[r] EXCEPT !.open = FALSE]
      BY <3>1 DEF Conn
    <3>2. CASE c = [conn[r] EXCEPT !.cancelled = TRUE]
      BY <3>2 DEF Conn
    <3> QED BY <2>1, <3>1, <3>2
  <2>3. UNCHANGED <<process, files, client>>
    BY <1>3 DEF ClientLeaves, CancelContext
  <2> QED BY <2>1, <2>2, <2>3 DEF Uploads, Uploading
<1> QED BY <1>2, <1>3 DEF Client

LEMMA NextUploads == TypeOK /\ Uploads /\ [Next]_vars => Uploads'
<1> SUFFICES ASSUME TypeOK, Uploads, [Next]_vars PROVE Uploads'
  OBVIOUS
<1>0. conn \in [Requests -> Conn] /\ \A r \in Requests : conn[r] \in Conn
  BY DEF TypeOK
<1>1. ASSUME NEW r \in Requests, NEW c, Becomes(r, c), Uploading(c) => c.upload \in Data
      PROVE  Uploads'
  <2>1. conn'[r] = c /\ \A s \in Requests \ {r} : conn'[s] = conn[s]
    BY <1>0, <1>1 DEF Becomes
  <2> QED BY <1>1, <2>1 DEF Uploads, Uploading
<1>2. CASE Lifecycle
  <2>1. CASE ProcessEnds
    <3>1. \A r \in Requests : conn'[r].upload = conn[r].upload /\ conn'[r].pc \in {"killed", conn[r].pc}
      BY <1>0, <2>1 DEF ProcessEnds, Conn
    <3> QED BY <3>1 DEF Uploads, Uploading
  <2>2. CASE NewProxy \/ Start \/ Shutdown \/ Drained \/ GraceExpires
    BY <2>2 DEF NewProxy, Start, Shutdown, Drained, GraceExpires, Uploads, Uploading
  <2> QED BY <1>2, <2>1, <2>2 DEF Lifecycle
<1>3. ASSUME NEW r \in Requests, Client(r) PROVE Uploads'
  BY <1>0, <1>1, <1>3, ClientMoves
<1>4. ASSUME NEW r \in Requests, Handler(r) PROVE Uploads'
  BY <1>0, <1>1, <1>4, HandlerMoves
<1>5. ASSUME NEW r \in Requests, Upstream(r) PROVE Uploads'
  <2>1. UNCHANGED conn
    BY <1>5 DEF Upstream, UpstreamAnswers, UpstreamRefuses, UpstreamEnds, UpstreamBreaks,
       UpstreamSends, UpstreamStep
  <2> QED BY <2>1 DEF Uploads, Uploading
<1>6. CASE UNCHANGED vars
  BY <1>6 DEF vars, Uploads, Uploading
<1> QED BY <1>2, <1>3, <1>4, <1>5, <1>6 DEF Next

\* Every step of the proxy is a step of the store or none.
LEMMA StoreStep == FilesInv /\ Uploads /\ [Next]_vars => [Files!Next]_(Files!vars)
<1> SUFFICES ASSUME FilesInv, Uploads, [Next]_vars PROVE Files!Next \/ UNCHANGED Files!vars
  OBVIOUS
<1>0. TypeOK /\ PendingRefs /\ \A r \in Requests : conn[r] \in Conn
  BY DEF FilesInv, TypeInv, TypeOK
<1>1. CASE Lifecycle
  <2>1. CASE NewProxy
    <3>1. Held = [i \in FileIds |-> NoData] /\ Held' = [i \in FileIds |-> NoData]
      BY <2>1 DEF NewProxy, Held, EmptyCache
    <3>2. Files!Open
      BY <2>1, <3>1 DEF NewProxy, Files!Open
    <3> QED BY <3>2 DEF Files!Next
  <2>2. CASE Start \/ Shutdown \/ Drained \/ GraceExpires
    BY <2>2, StoreStutters DEF Start, Shutdown, Drained, GraceExpires
  <2>3. CASE ProcessEnds
    <3>1. \A r \in Requests : conn'[r].missed = conn[r].missed
      BY <1>0, <2>3 DEF ProcessEnds, Conn
    <3>2. Held' = [i \in FileIds |-> NoData]
      BY <2>3 DEF ProcessEnds, Held
    <3>3. Files!Close
      BY <2>3, <3>1, <3>2 DEF ProcessEnds, Files!Close, Files!NoFiles
    <3> QED BY <3>3 DEF Files!Next
  <2> QED BY <1>1, <2>1, <2>2, <2>3 DEF Lifecycle
<1>2. ASSUME NEW r \in Requests, Client(r) PROVE UNCHANGED Files!vars
  <2>1. PICK c : Becomes(r, c) /\ c.missed = conn[r].missed
    BY <1>0, <1>2, ClientMoves
  <2>2. \A s \in Requests : conn'[s].missed = conn[s].missed
    BY <1>0, <2>1 DEF Becomes, TypeOK
  <2>3. UNCHANGED <<process, files, client>>
    BY <1>0, <1>2, ClientMoves
  <2> QED BY <2>2, <2>3, StoreStutters
<1>3. ASSUME NEW r \in Requests, Upstream(r) PROVE UNCHANGED Files!vars
  BY <1>3, StoreStutters DEF Upstream, UpstreamAnswers, UpstreamRefuses, UpstreamEnds,
     UpstreamBreaks, UpstreamSends, UpstreamStep
<1>4. CASE UNCHANGED vars
  BY <1>4, StoreStutters DEF vars
<1>5. ASSUME NEW r \in Requests, Handler(r) PROVE Files!Next \/ UNCHANGED Files!vars
  <2>0. Active(r) => proc # "down" /\ gen \in Nat
    BY <1>0 DEF FilesInv, OwnProcess, TypeOK
  <2>1. CASE StoreFile(r)
    <3>1. PICK i \in FileIds \ minted : cache' = [cache EXCEPT ![i] = conn[r].upload]
      BY <2>1 DEF StoreFile
    <3>2. UNCHANGED <<process, client>>
      BY <2>1 DEF StoreFile
    <3>3. known[i] = NoData
      BY <3>1 DEF FilesInv, ToldIds
    <3>4. Held' = Held
      BY <1>0, <3>1, <3>2, <3>3 DEF Held, TypeOK
    <3>5. \A s \in Requests : conn'[s].missed = conn[s].missed
      <4>1. ~ LookupFile(r)
        BY <2>1 DEF StoreFile, LookupFile
      <4> QED BY <1>0, <1>5, <4>1, HandlerMoves DEF Becomes, TypeOK
    <3>6. [s \in Requests |-> conn'[s].missed] = [s \in Requests |-> conn[s].missed]
      BY <3>5
    <3> QED BY <3>2, <3>4, <3>6 DEF Files!vars
  <2>2. CASE ReplyFile(r)
    <3> DEFINE i == conn[r].id
               d == conn[r].upload
    <3>1. conn[r].pc = "reply"
      BY <2>2 DEF ReplyFile
    <3>2. d \in Data /\ i \in FileIds /\ known[i] = NoData /\ cache[i] = d
      BY <1>0, <3>1 DEF FilesInv, UnpublishedIds, Publishing, Uploads, Uploading, TypeOK
    <3>3. proc # "down" /\ UNCHANGED <<process, files>>
      BY <2>0, <2>2, <3>1 DEF ReplyFile, Active, Idle
    <3>4. \A s \in Requests : conn'[s].missed = conn[s].missed
      <4>1. ~ LookupFile(r)
        BY <3>1 DEF LookupFile
      <4> QED BY <1>0, <1>5, <4>1, HandlerMoves DEF Becomes, TypeOK
    <3>5. CASE conn[r].open
      <4>1. known' = [known EXCEPT ![i] = d] /\ learned' = [learned EXCEPT ![i] = gen]
        BY <2>2, <3>5 DEF ReplyFile
      <4> HIDE DEF i, d
      <4>2. d # NoData
        BY <3>2, ProxyAssumption
      <4>3. Held' = [Held EXCEPT ![i] = d]
        BY <1>0, <3>2, <3>3, <4>1, <4>2 DEF Held, TypeOK
      <4>4. [s \in Requests |-> conn'[s].missed] = [s \in Requests |-> conn[s].missed]
        BY <3>4
      <4>5. Files!Upload(i, d)
        BY <3>2, <3>3, <4>1, <4>3, <4>4 DEF Files!Upload
      <4> QED BY <3>2, <4>5 DEF Files!Next
    <3>6. CASE ~ conn[r].open
      BY <2>2, <3>3, <3>4, <3>6, StoreStutters DEF ReplyFile
    <3> QED BY <3>5, <3>6
  <2>3. CASE LookupFile(r)
    <3> DEFINE p == FirstRef(conn[r].todo)
               i == BlockAt(body[r], p).source.id
               missed == IF i # NoFile /\ cache[i] = NoData
                         THEN conn[r].missed \cup {i} ELSE conn[r].missed
               c == [conn[r] EXCEPT !.todo = conn[r].todo \ {p}, !.missed = missed]
    <3>1. conn[r].pc = "lookup" /\ proc # "down" /\ gen \in Nat
      BY <2>0, <2>3 DEF LookupFile, Active, Idle
    <3>2. p \in conn[r].todo
      BY <1>0, <2>3, FirstRefIn DEF LookupFile, Conn
    <3>3. IsRef(body[r], p) /\ (i # NoFile => known[i] # NoData)
      BY <1>0, <3>1, <3>2 DEF PendingRefs, FilesInv, KnownRefs
    <3>4. Becomes(r, c) /\ UNCHANGED <<process, files, client>>
      BY <2>3 DEF LookupFile
    <3>5. i \in FileIds \cup {NoFile}
      BY <3>3 DEF IsRef
    <3> HIDE DEF p, i
    <3>6. c.missed = missed
      BY <1>0 DEF Conn
    <3>7. conn'[r].missed = missed /\ \A s \in Requests \ {r} : conn'[s] = conn[s]
      BY <1>0, <3>4, <3>6 DEF Becomes, TypeOK
    <3> HIDE DEF c
    <3>8. CASE i # NoFile /\ cache[i] = NoData
      <4>0. PICK k \in FileIds : k = i
        BY <3>5, <3>8
      <4>1. known[k] # NoData /\ learned[k] < gen
        <5>1. known[k] # NoData
          BY <3>3, <3>8, <4>0
        <5>2. learned[k] \in Nat /\ learned[k] <= gen
          BY <1>0 DEF FilesInv, ToldIds, TypeOK
        <5>3. learned[k] # gen
          BY <3>1, <3>8, <4>0, <5>1 DEF FilesInv, KnownIdsResolve
        <5> QED BY <3>1, <5>1, <5>2, <5>3
      <4>2. Held[k] = NoData /\ Held' = Held
        BY <3>4, <3>8, <4>0 DEF Held
      <4>3. [s \in Requests |-> conn'[s].missed]
              = [[s \in Requests |-> conn[s].missed] EXCEPT ![r] = @ \cup {k}]
        BY <3>7, <3>8, <4>0
      <4>4. Files!Miss(r, k)
        BY <3>1, <3>4, <4>1, <4>2, <4>3 DEF Files!Miss
      <4> QED BY <4>4 DEF Files!Next
    <3>9. CASE ~ (i # NoFile /\ cache[i] = NoData)
      <4>1. \A s \in Requests : conn'[s].missed = conn[s].missed
        BY <3>7, <3>9
      <4>2. UNCHANGED <<process, files, client>>
        BY <3>4
      <4> QED BY <4>1, <4>2, StoreStutters
    <3> QED BY <3>8, <3>9
  <2>4. CASE ~ (StoreFile(r) \/ ReplyFile(r) \/ LookupFile(r))
    <3>1. UNCHANGED <<process, cache, client>>
      BY <1>5, <2>4 DEF Handler, ReadBody, ReadFails, MintFails, DispatchFails, CountFile,
         Transform, Dispatch, Relay, DoReturns, DoFails, CheckContext, ReadChunk, ReadEOF,
         ReadError, WriteChunk, WriteFails
    <3>2. \A s \in Requests : conn'[s].missed = conn[s].missed
      BY <1>0, <1>5, <2>4, HandlerMoves DEF Becomes, TypeOK
    <3> QED BY <3>1, <3>2, StoreStutters
  <2> QED BY <2>1, <2>2, <2>3, <2>4
<1> QED BY <1>1, <1>2, <1>3, <1>4, <1>5 DEF Next

\* The proxy implements the store: what claude sees of its concurrent handlers,
\* under every interleaving and every end of a process, is an id that means its
\* upload until the launcher that told it ends.
THEOREM FileStoreImplemented == Spec => ImplementsFileStore
<1>1. Init => FilesInv /\ Uploads /\ Files!Init
  <2> SUFFICES ASSUME Init PROVE FilesInv /\ Uploads /\ Files!Init
    OBVIOUS
  <2>1. FilesInv
    BY InitFilesInv
  <2>2. \A r \in Requests : conn[r].pc = "idle" /\ conn[r].missed = {}
    BY DEF Init, NewConn
  <2>3. Uploads
    BY <2>2 DEF Uploads, Uploading
  <2>4. Held = [i \in FileIds |-> NoData]
    BY DEF Init, Held
  <2>5. Files!Init
    BY <2>2, <2>4 DEF Init, EmptyCache, Files!Init, Files!NoFiles
  <2> QED BY <2>1, <2>3, <2>5
<1>2. FilesInv /\ Uploads /\ [Next]_vars => (FilesInv /\ Uploads)'
  BY NextFilesInv, NextUploads DEF FilesInv, TypeInv
<1>3. FilesInv /\ Uploads /\ [Next]_vars => [Files!Next]_(Files!vars)
  BY StoreStep
<1> QED BY <1>1, <1>2, <1>3, PTL DEF Spec, ImplementsFileStore, Files!Spec

-------------------------------------------------------------------------------
(* The gauge of live entries.  An upload is counted after it is stored:     *)
(* the gauge lags behind the cache by the uploads between the two.          *)

Cached    == {i \in FileIds : cache[i] # NoData}
Uncounted == {r \in Requests : conn[r].pc = "gauge"}

GaugeInv ==
  /\ Cached \subseteq minted
  /\ IsFiniteSet(Cached) /\ IsFiniteSet(Uncounted)
  /\ proc # "down" => entries + Cardinality(Uncounted) = Cardinality(Cached)

\* A step that neither stores nor counts an upload.
LEMMA GaugeStutters ==
  ASSUME TypeOK, GaugeInv, NEW r \in Requests, NEW c, Becomes(r, c),
         UNCHANGED <<process, files>>, c.pc = "gauge" <=> conn[r].pc = "gauge"
  PROVE  GaugeInv'
<1>1. conn'[r] = c /\ \A s \in Requests \ {r} : conn'[s] = conn[s]
  BY DEF Becomes, TypeOK
<1>2. Uncounted' = Uncounted
  BY <1>1 DEF Uncounted
<1>3. Cached' = Cached
  BY DEF Cached
<1> QED BY <1>2, <1>3 DEF GaugeInv

\* Every other step of a handler is one of these.
LEMMA GaugeHandler ==
  ASSUME TypeOK, GaugeInv, NEW r \in Requests, Handler(r), ~ StoreFile(r), ~ CountFile(r)
  PROVE  GaugeInv'
<1>0. conn[r] \in Conn
  BY DEF TypeOK
<1>1. conn[r].pc # "gauge" /\ UNCHANGED <<process, files>>
  BY DEF Handler, ReadBody, ReadFails, MintFails, DispatchFails, StoreFile, CountFile,
     ReplyFile, LookupFile, Transform, Dispatch, Relay, DoReturns, DoFails, CheckContext,
     ReadChunk, ReadEOF, ReadError, WriteChunk, WriteFails
<1>2. \E c : Becomes(r, c) /\ c.pc # "gauge"
  <2>1. \A s : Respond(conn[r], s).pc # "gauge"
    BY <1>0 DEF Respond, Conn
  <2>2. \A pc \in {"mint", "dispatch", "do"} : [conn[r] EXCEPT !.pc = pc].pc # "gauge"
    BY <1>0 DEF Conn
  <2>3. \A todo : [conn[r] EXCEPT !.pc = "lookup", !.todo = todo].pc # "gauge"
    BY <1>0 DEF Conn
  <2>4. CASE ReadBody(r)
    <3> DEFINE refs == IF orig[r].json THEN FileRefs(orig[r]) ELSE {}
    <3>1. PICK c : /\ Becomes(r, c)
                   /\ \/ c = Respond(conn[r], 400)
                      \/ c = [conn[r] EXCEPT !.pc = "mint"]
                      \/ c = [conn[r] EXCEPT !.pc = "lookup", !.todo = refs]
                      \/ c = [conn[r] EXCEPT !.pc = "dispatch"]
      BY <2>4 DEF ReadBody
    <3> HIDE DEF refs
    <3>2. CASE c = Respond(conn[r], 400)
      BY <2>1, <3>1, <3>2
    <3>3. CASE c \in {[conn[r] EXCEPT !.pc = "mint"], [conn[r] EXCEPT !.pc = "dispatch"]}
      BY <2>2, <3>1, <3>3
    <3>4. CASE c = [conn[r] EXCEPT !.pc = "lookup", !.todo = refs]
      BY <2>3, <3>1, <3>4
    <3> QED BY <3>1, <3>2, <3>3, <3>4
  <2>5. CASE Refuses(r) \/ ReplyFile(r)
    BY <2>1, <2>5, RefusesIs DEF ReplyFile
  <2>6. CASE Transform(r) \/ Dispatch(r)
    BY <2>2, <2>6 DEF Transform, Dispatch
  <2>7. CASE LookupFile(r)
    <3>1. PICK todo, missed :
            Becomes(r, [conn[r] EXCEPT !.todo = todo, !.missed = missed])
      BY <2>7 DEF LookupFile
    <3>2. [conn[r] EXCEPT !.todo = todo, !.missed = missed].pc = "lookup"
      BY <1>0, <2>7 DEF LookupFile, Conn
    <3> QED BY <3>1, <3>2
  <2>8. CASE Relay(r)
    BY <1>0, <2>8, RelayStep
  <2> QED BY <2>4, <2>5, <2>6, <2>7, <2>8 DEF Handler, Refuses
<1>3. PICK c : Becomes(r, c) /\ c.pc # "gauge"
  BY <1>2
<1> QED BY <1>1, <1>3, GaugeStutters

LEMMA GaugeClient ==
  ASSUME TypeOK, GaugeInv, NEW r \in Requests, Client(r)
  PROVE  GaugeInv'
<1>0. conn[r] \in Conn
  BY DEF TypeOK
<1>1. UNCHANGED <<process, files>>
  BY DEF Client, SendFile, SendMessages, SendOther, Connect, ClientLeaves, CancelContext
<1>2. ASSUME NEW e, NEW d, NEW b, Connect(r, e, d, b) PROVE GaugeInv'
  <2> DEFINE c == [conn[r] EXCEPT !.pc = "read", !.endpoint = e, !.upload = d,
                                  !.open = TRUE, !.by = gen]
  <2>1. Becomes(r, c) /\ conn[r].pc = "idle" /\ c.pc = "read"
    BY <1>0, <1>2 DEF Connect, Conn
  <2> HIDE DEF c
  <2> QED BY <1>1, <2>1, GaugeStutters
<1>3. CASE SendFile(r) \/ SendMessages(r) \/ SendOther(r)
  BY <1>2, <1>3 DEF SendFile, SendMessages, SendOther
<1>4. CASE ClientLeaves(r) \/ CancelContext(r)
  <2>1. PICK c \in {[conn[r] EXCEPT !.open = FALSE], [conn[r] EXCEPT !.cancelled = TRUE]} :
          Becomes(r, c)
    BY <1>4 DEF ClientLeaves, CancelContext
  <2>2. c.pc = conn[r].pc
    BY <1>0, <2>1 DEF Conn
  <2> QED BY <1>1, <2>1, <2>2, GaugeStutters
<1> QED BY <1>3, <1>4 DEF Client

LEMMA NextGaugeInv == FilesInv /\ Uploads /\ GaugeInv /\ [Next]_vars => GaugeInv'
<1> SUFFICES ASSUME FilesInv, Uploads, GaugeInv, [Next]_vars PROVE GaugeInv'
  OBVIOUS
<1>0. TypeOK /\ OwnProcess /\ \A r \in Requests : conn[r] \in Conn
  BY DEF FilesInv, TypeInv, TypeOK
<1>1. CASE NewProxy
  <2>1. \A r \in Requests : conn[r].pc # "gauge"
    BY <1>0, <1>1 DEF NewProxy, OwnProcess, Active, Idle
  <2>2. Cached' = {} /\ Uncounted' = {} /\ entries' = 0
    BY <1>1, <2>1 DEF NewProxy, Cached, Uncounted, EmptyCache
  <2> QED BY <2>2, FS_EmptySet DEF GaugeInv
<1>2. CASE Start \/ Shutdown \/ Drained \/ GraceExpires
  BY <1>2 DEF Start, Shutdown, Drained, GraceExpires, GaugeInv, Cached, Uncounted
<1>3. CASE ProcessEnds
  <2>1. \A r \in Requests : conn'[r].pc # "gauge"
    BY <1>0, <1>3 DEF ProcessEnds, Active, Idle, Conn
  <2>2. Uncounted' = {} /\ Cached' = Cached /\ minted' = minted /\ proc' = "down"
    BY <1>3, <2>1 DEF ProcessEnds, Uncounted, Cached
  <2> QED BY <2>2, FS_EmptySet DEF GaugeInv
<1>4. ASSUME NEW r \in Requests, StoreFile(r) PROVE GaugeInv'
  <2>1. PICK i \in FileIds \ minted :
          /\ minted' = minted \cup {i}
          /\ cache' = [cache EXCEPT ![i] = conn[r].upload]
          /\ Becomes(r, [conn[r] EXCEPT !.pc = "gauge", !.id = i])
    BY <1>4 DEF StoreFile
  <2>2. /\ conn'[r].pc = "gauge" /\ conn[r].pc = "mint"
        /\ \A s \in Requests \ {r} : conn'[s] = conn[s]
    BY <1>0, <1>4, <2>1 DEF StoreFile, Becomes, TypeOK, Conn
  <2>3. conn[r].upload # NoData
    BY <2>2, ProxyAssumption DEF Uploads, Uploading
  <2>4. Cached' = Cached \cup {i} /\ i \notin Cached
    BY <1>0, <2>1, <2>3 DEF Cached, TypeOK, GaugeInv
  <2>5. Uncounted' = Uncounted \cup {r} /\ r \notin Uncounted
    BY <2>2 DEF Uncounted
  <2>6. /\ IsFiniteSet(Cached') /\ Cardinality(Cached') = Cardinality(Cached) + 1
        /\ IsFiniteSet(Uncounted') /\ Cardinality(Uncounted') = Cardinality(Uncounted) + 1
    BY <2>4, <2>5, FS_AddElement DEF GaugeInv
  <2>7. Cardinality(Cached) \in Nat /\ Cardinality(Uncounted) \in Nat /\ entries \in Nat
    BY <1>0, FS_CardinalityType DEF GaugeInv, TypeOK
  <2>8. UNCHANGED <<process, entries>>
    BY <1>4 DEF StoreFile
  <2> QED BY <2>1, <2>4, <2>6, <2>7, <2>8 DEF GaugeInv
<1>5. ASSUME NEW r \in Requests, CountFile(r) PROVE GaugeInv'
  <2>1. /\ conn'[r].pc = "reply" /\ conn[r].pc = "gauge"
        /\ \A s \in Requests \ {r} : conn'[s] = conn[s]
    BY <1>0, <1>5 DEF CountFile, Becomes, TypeOK, Conn
  <2>2. Uncounted' = Uncounted \ {r} /\ r \in Uncounted
    BY <2>1 DEF Uncounted
  <2>3. Cached' = Cached
    BY <1>5 DEF CountFile, Cached
  <2>4. IsFiniteSet(Uncounted') /\ Cardinality(Uncounted') = Cardinality(Uncounted) - 1
    BY <2>2, FS_RemoveElement DEF GaugeInv
  <2>5. Cardinality(Cached) \in Nat /\ Cardinality(Uncounted) \in Nat /\ entries \in Nat
    BY <1>0, FS_CardinalityType DEF GaugeInv, TypeOK
  <2>6. UNCHANGED <<process, minted>> /\ entries' = entries + 1
    BY <1>5 DEF CountFile
  <2> QED BY <2>3, <2>4, <2>5, <2>6 DEF GaugeInv
<1>6. ASSUME NEW r \in Requests, Handler(r) PROVE GaugeInv'
  BY <1>0, <1>4, <1>5, <1>6, GaugeHandler
<1>7. ASSUME NEW r \in Requests, Client(r) PROVE GaugeInv'
  BY <1>0, <1>7, GaugeClient
<1>8. ASSUME NEW r \in Requests, Upstream(r) PROVE GaugeInv'
  BY <1>8 DEF Upstream, UpstreamAnswers, UpstreamRefuses, UpstreamEnds, UpstreamBreaks,
     UpstreamSends, UpstreamStep, GaugeInv, Cached, Uncounted
<1>9. CASE UNCHANGED vars
  BY <1>9 DEF vars, GaugeInv, Cached, Uncounted
<1> QED BY <1>1, <1>2, <1>3, <1>6, <1>7, <1>8, <1>9 DEF Next, Lifecycle

\* The gauge claude_ds.files.cache.entries is the number of live entries whenever
\* no upload is between the cache and the counter, however many run at once.
THEOREM GaugeIsExact == Spec => []GaugeExact
<1> DEFINE Inv == FilesInv /\ Uploads /\ GaugeInv
<1>1. Init => Inv
  <2> SUFFICES ASSUME Init PROVE Inv
    OBVIOUS
  <2>1. \A r \in Requests : conn[r].pc = "idle"
    BY DEF Init, NewConn
  <2>2. Uploads
    BY <2>1 DEF Uploads, Uploading
  <2>3. Cached = {} /\ Uncounted = {} /\ proc = "down"
    BY <2>1 DEF Init, Cached, Uncounted, EmptyCache
  <2> QED BY <2>2, <2>3, InitFilesInv, FS_EmptySet DEF GaugeInv
<1>2. Inv /\ [Next]_vars => Inv'
  BY NextFilesInv, NextUploads, NextGaugeInv DEF FilesInv, TypeInv
<1>3. Inv => GaugeExact
  <2> SUFFICES ASSUME Inv, \A r \in Requests : conn[r].pc # "gauge", proc # "down"
               PROVE  entries = Cardinality({i \in FileIds : cache[i] # NoData})
    BY DEF GaugeExact
  <2>1. Uncounted = {}
    BY DEF Uncounted
  <2>2. Cardinality(Uncounted) = 0
    BY <2>1, FS_EmptySet
  <2>3. entries \in Nat /\ entries + Cardinality(Uncounted) = Cardinality(Cached)
    BY DEF GaugeInv, FilesInv, TypeInv, TypeOK
  <2> QED BY <2>2, <2>3 DEF Cached
<1> HIDE DEF Inv
<1> QED BY <1>1, <1>2, <1>3, PTL DEF Spec

-------------------------------------------------------------------------------
(* The relay of responses, for any number of requests, chunks and          *)
(* processes: status lines, disconnects and the drain of a shutdown.       *)

Unasked    == {"idle", "read", "mint", "gauge", "reply", "lookup", "dispatch"}
Unanswered == {"read", "mint", "gauge", "reply", "lookup", "dispatch", "do"}
Relaying   == {"stream", "reading", "writing"}

\* A connection c and the upstream service's side u of it.  The status line is
\* written once, at the end of the handler or before the first chunk; the client has
\* what was read as long as it is there; io.EOF comes with the last chunk only.
Flow(c, u) ==
  /\ c.pc = "idle" => c = NewConn
  /\ c.pc \in Unasked => u.state = "none"
  /\ c.pc \in Unanswered => c.status = 0 /\ c.read = 0 /\ c.got = 0
  /\ c.pc \in {"mint", "gauge", "reply"} => c.endpoint = "files"
  /\ c.pc \in {"lookup", "dispatch", "do"} \cup Relaying => c.endpoint # "files"
  /\ c.pc \in Relaying => c.status = 200 /\ c.read <= u.sent
  /\ c.pc \in {"stream", "reading"} => (c.open => c.got = c.read)
  /\ c.pc = "writing" => /\ c.open => c.got + 1 = c.read
                         /\ c.readEOF => u.state = "eof" /\ c.read = u.sent
  /\ c.pc = "done" => c.status # 0
  /\ c.cancelled \/ c.outcome \in Disconnects => ~ c.open

FlowInv == \A r \in Requests : Flow(conn[r], up[r])

\* A handler that was killed belongs to a process that has ended.
KilledInv ==
  \A r \in Requests : conn[r].pc = "killed" => proc = "down" \/ conn[r].by < gen

StreamInv == FilesInv /\ FlowInv /\ KilledInv

-------------------------------------------------------------------------------
(* Each step keeps the flow of the connection it is about. *)

LEMMA FlowMoves ==
  ASSUME TypeOK, FlowInv, NEW r \in Requests, NEW c, Becomes(r, c), Flow(c, up'[r]),
         \A s \in Requests \ {r} : up'[s] = up[s]
  PROVE  FlowInv'
<1>1. conn'[r] = c /\ \A s \in Requests \ {r} : conn'[s] = conn[s]
  BY DEF Becomes, TypeOK
<1> QED BY <1>1 DEF FlowInv

\* The part of a handler before the upstream service is asked.
LEMMA FrontFlow ==
  ASSUME TypeOK, FlowInv, NEW r \in Requests,
         ReadBody(r) \/ Refuses(r) \/ StoreFile(r) \/ CountFile(r) \/ ReplyFile(r)
           \/ LookupFile(r) \/ Transform(r) \/ Dispatch(r)
  PROVE  FlowInv'
<1>0. conn[r] \in Conn /\ up[r] \in Up /\ Flow(conn[r], up[r])
  BY DEF TypeOK, FlowInv
<1>1. CASE ReadBody(r)
  <2> DEFINE refs == IF orig[r].json THEN FileRefs(orig[r]) ELSE {}
  <2>1. up' = up /\ conn[r].pc = "read"
    BY <1>1 DEF ReadBody
  <2>2. CASE conn[r].endpoint = "files" /\ conn[r].upload = NoData
    <3>1. Becomes(r, Respond(conn[r], 400))
      BY <1>1, <2>2 DEF ReadBody
    <3>2. Flow(Respond(conn[r], 400), up[r])
      BY <1>0, <2>1 DEF Flow, Respond, Conn, Unasked, Unanswered, Relaying
    <3> QED BY <2>1, <3>1, <3>2, FlowMoves
  <2>3. CASE conn[r].endpoint = "files" /\ conn[r].upload # NoData
    <3>1. Becomes(r, [conn[r] EXCEPT !.pc = "mint"])
      BY <1>1, <2>3 DEF ReadBody
    <3>2. Flow([conn[r] EXCEPT !.pc = "mint"], up[r])
      BY <1>0, <2>1, <2>3 DEF Flow, Conn, Unasked, Unanswered, Relaying
    <3> QED BY <2>1, <3>1, <3>2, FlowMoves
  <2>4. CASE conn[r].endpoint = "messages"
    <3>1. Becomes(r, [conn[r] EXCEPT !.pc = "lookup", !.todo = refs])
      BY <1>1, <2>4 DEF ReadBody
    <3> HIDE DEF refs
    <3>2. Flow([conn[r] EXCEPT !.pc = "lookup", !.todo = refs], up[r])
      BY <1>0, <2>1, <2>4 DEF Flow, Conn, Unasked, Unanswered, Relaying
    <3> QED BY <2>1, <3>1, <3>2, FlowMoves
  <2>5. CASE conn[r].endpoint \notin {"files", "messages"}
    <3>1. Becomes(r, [conn[r] EXCEPT !.pc = "dispatch"])
      BY <1>1, <2>5 DEF ReadBody
    <3>2. Flow([conn[r] EXCEPT !.pc = "dispatch"], up[r])
      BY <1>0, <2>1, <2>5 DEF Flow, Conn, Unasked, Unanswered, Relaying
    <3> QED BY <2>1, <3>1, <3>2, FlowMoves
  <2> QED BY <2>2, <2>3, <2>4, <2>5
<1>2. CASE Refuses(r)
  <2>1. up' = up /\ conn[r].pc \in {"read", "mint", "dispatch"}
    BY <1>2, RefusesIs
  <2>2. PICK s \in {400, 500, 502} : Becomes(r, Respond(conn[r], s))
    BY <1>2, RefusesIs
  <2>3. Flow(Respond(conn[r], s), up[r])
    BY <1>0, <2>1 DEF Flow, Respond, Conn, Unasked, Unanswered, Relaying
  <2> QED BY <2>1, <2>2, <2>3, FlowMoves
<1>3. CASE StoreFile(r)
  <2>1. up' = up /\ conn[r].pc = "mint"
    BY <1>3 DEF StoreFile
  <2>2. PICK i \in FileIds : Becomes(r, [conn[r] EXCEPT !.pc = "gauge", !.id = i])
    BY <1>3 DEF StoreFile
  <2>3. Flow([conn[r] EXCEPT !.pc = "gauge", !.id = i], up[r])
    BY <1>0, <2>1 DEF Flow, Conn, Unasked, Unanswered, Relaying
  <2> QED BY <2>1, <2>2, <2>3, FlowMoves
<1>4. CASE CountFile(r)
  <2>1. Becomes(r, [conn[r] EXCEPT !.pc = "reply"]) /\ up' = up /\ conn[r].pc = "gauge"
    BY <1>4 DEF CountFile
  <2>2. Flow([conn[r] EXCEPT !.pc = "reply"], up[r])
    BY <1>0, <2>1 DEF Flow, Conn, Unasked, Unanswered, Relaying
  <2> QED BY <2>1, <2>2, FlowMoves
<1>5. CASE ReplyFile(r)
  <2>1. Becomes(r, Respond(conn[r], 200)) /\ up' = up /\ conn[r].pc = "reply"
    BY <1>5 DEF ReplyFile
  <2>2. Flow(Respond(conn[r], 200), up[r])
    BY <1>0, <2>1 DEF Flow, Respond, Conn, Unasked, Unanswered, Relaying
  <2> QED BY <2>1, <2>2, FlowMoves
<1>6. CASE LookupFile(r)
  <2>1. up' = up /\ conn[r].pc = "lookup"
    BY <1>6 DEF LookupFile
  <2>2. PICK todo, missed :
          Becomes(r, [conn[r] EXCEPT !.todo = todo, !.missed = missed])
    BY <1>6 DEF LookupFile
  <2>3. Flow([conn[r] EXCEPT !.todo = todo, !.missed = missed], up[r])
    BY <1>0, <2>1 DEF Flow, Conn, Unasked, Unanswered, Relaying
  <2> QED BY <2>1, <2>2, <2>3, FlowMoves
<1>7. CASE Transform(r)
  <2>1. Becomes(r, [conn[r] EXCEPT !.pc = "dispatch"]) /\ up' = up /\ conn[r].pc = "lookup"
    BY <1>7 DEF Transform
  <2>2. Flow([conn[r] EXCEPT !.pc = "dispatch"], up[r])
    BY <1>0, <2>1 DEF Flow, Conn, Unasked, Unanswered, Relaying
  <2> QED BY <2>1, <2>2, FlowMoves
<1>8. CASE Dispatch(r)
  <2>1. /\ Becomes(r, [conn[r] EXCEPT !.pc = "do"]) /\ conn[r].pc = "dispatch"
        /\ \A s \in Requests \ {r} : up'[s] = up[s]
    BY <1>8 DEF Dispatch, TypeOK
  <2>2. Flow([conn[r] EXCEPT !.pc = "do"], up'[r])
    BY <1>0, <2>1 DEF Flow, Conn, Unasked, Unanswered, Relaying
  <2> QED BY <2>1, <2>2, FlowMoves
<1> QED BY <1>1, <1>2, <1>3, <1>4, <1>5, <1>6, <1>7, <1>8

\* The relay of a response.
LEMMA RelayFlow ==
  ASSUME TypeOK, FlowInv, NEW r \in Requests, Relay(r)
  PROVE  FlowInv'
<1>0. /\ conn[r] \in Conn /\ up[r] \in Up /\ Flow(conn[r], up[r])
      /\ up' = up
  BY DEF TypeOK, FlowInv, Relay, DoReturns, DoFails, CheckContext, ReadChunk, ReadEOF,
     ReadError, WriteChunk, WriteFails
<1>1. CASE DoReturns(r)
  <2>1. Becomes(r, [conn[r] EXCEPT !.pc = "stream", !.status = 200]) /\ conn[r].pc = "do"
    BY <1>1 DEF DoReturns
  <2>2. Flow([conn[r] EXCEPT !.pc = "stream", !.status = 200], up[r])
    BY <1>0, <2>1 DEF Flow, Conn, Up, Unasked, Unanswered, Relaying
  <2> QED BY <1>0, <2>1, <2>2, FlowMoves
<1>2. CASE DoFails(r)
  <2> DEFINE c == [Respond(conn[r], 502) EXCEPT !.outcome = "unreachable"]
  <2>1. Becomes(r, c) /\ conn[r].pc = "do"
    BY <1>2 DEF DoFails
  <2>2. Flow(c, up[r])
    BY <1>0, <2>1 DEF Flow, Respond, Conn, Unasked, Unanswered, Relaying, Disconnects
  <2> HIDE DEF c
  <2> QED BY <1>0, <2>1, <2>2, FlowMoves
<1>3. CASE CheckContext(r) /\ conn[r].cancelled
  <2>1. Becomes(r, Return(conn[r], "client_cancel")) /\ conn[r].pc = "stream"
    BY <1>3 DEF CheckContext
  <2>2. Flow(Return(conn[r], "client_cancel"), up[r])
    BY <1>0, <1>3, <2>1 DEF Flow, Return, Conn, Unasked, Unanswered, Relaying
  <2> QED BY <1>0, <2>1, <2>2, FlowMoves
<1>4. CASE CheckContext(r) /\ ~ conn[r].cancelled
  <2>1. Becomes(r, [conn[r] EXCEPT !.pc = "reading"]) /\ conn[r].pc = "stream"
    BY <1>4 DEF CheckContext
  <2>2. Flow([conn[r] EXCEPT !.pc = "reading"], up[r])
    BY <1>0, <2>1 DEF Flow, Conn, Unasked, Unanswered, Relaying
  <2> QED BY <1>0, <2>1, <2>2, FlowMoves
<1>5. CASE ReadChunk(r)
  <2>1. conn[r].pc = "reading" /\ conn[r].read < up[r].sent
    BY <1>5 DEF ReadChunk
  <2>2. PICK eof \in BOOLEAN :
          /\ eof => up[r].state = "eof" /\ conn[r].read + 1 = up[r].sent
          /\ Becomes(r, [conn[r] EXCEPT !.pc = "writing", !.read = conn[r].read + 1,
                                        !.readEOF = eof])
    BY <1>5 DEF ReadChunk
  <2>3. Flow([conn[r] EXCEPT !.pc = "writing", !.read = conn[r].read + 1, !.readEOF = eof], up[r])
    BY <1>0, <2>1, <2>2 DEF Flow, Conn, Up, Unasked, Unanswered, Relaying
  <2> QED BY <1>0, <2>2, <2>3, FlowMoves
<1>6. CASE ReadEOF(r) \/ ReadError(r)
  <2>1. PICK o \in {"none", "read_error"} : Becomes(r, Return(conn[r], o))
    BY <1>6 DEF ReadEOF, ReadError
  <2>2. conn[r].pc = "reading"
    BY <1>6 DEF ReadEOF, ReadError
  <2>3. Flow(Return(conn[r], o), up[r])
    BY <1>0, <2>2 DEF Flow, Return, Conn, Unasked, Unanswered, Relaying, Disconnects
  <2> QED BY <1>0, <2>1, <2>3, FlowMoves
<1>7. CASE WriteChunk(r) /\ conn[r].readEOF
  <2>1. Becomes(r, Return(Received(conn[r]), "none")) /\ conn[r].pc = "writing"
    BY <1>7 DEF WriteChunk
  <2>2. Flow(Return(Received(conn[r]), "none"), up[r])
    BY <1>0, <2>1 DEF Flow, Return, Received, Conn, Unasked, Unanswered, Relaying, Disconnects
  <2> QED BY <1>0, <2>1, <2>2, FlowMoves
<1>8. CASE WriteChunk(r) /\ ~ conn[r].readEOF
  <2>1. Becomes(r, [Received(conn[r]) EXCEPT !.pc = "stream"]) /\ conn[r].pc = "writing"
    BY <1>8 DEF WriteChunk
  <2>2. Flow([Received(conn[r]) EXCEPT !.pc = "stream"], up[r])
    BY <1>0, <2>1 DEF Flow, Received, Conn, Unasked, Unanswered, Relaying
  <2> QED BY <1>0, <2>1, <2>2, FlowMoves
<1>9. CASE WriteFails(r)
  <2>1. Becomes(r, Return(conn[r], "client_eof")) /\ conn[r].pc = "writing" /\ ~ conn[r].open
    BY <1>9 DEF WriteFails
  <2>2. Flow(Return(conn[r], "client_eof"), up[r])
    BY <1>0, <2>1 DEF Flow, Return, Conn, Unasked, Unanswered, Relaying
  <2> QED BY <1>0, <2>1, <2>2, FlowMoves
<1> QED BY <1>1, <1>2, <1>3, <1>4, <1>5, <1>6, <1>7, <1>8, <1>9 DEF Relay

\* The client: a connection that is opened was idle, and one that is left stays so.
LEMMA ClientFlow ==
  ASSUME TypeOK, FlowInv, NEW r \in Requests, Client(r)
  PROVE  FlowInv'
<1>0. conn[r] \in Conn /\ up[r] \in Up /\ Flow(conn[r], up[r])
  BY DEF TypeOK, FlowInv
<1>1. ASSUME NEW e, NEW d, NEW b, Connect(r, e, d, b) PROVE FlowInv'
  <2> DEFINE c == [conn[r] EXCEPT !.pc = "read", !.endpoint = e, !.upload = d,
                                  !.open = TRUE, !.by = gen]
  <2>1. Becomes(r, c) /\ up' = up /\ conn[r].pc = "idle"
    BY <1>1 DEF Connect
  <2>2. conn[r] = NewConn
    BY <1>0, <2>1 DEF Flow
  <2>3. Flow(c, up[r])
    BY <1>0, <2>1, <2>2 DEF Flow, NewConn, Unasked, Unanswered, Relaying, Disconnects
  <2> HIDE DEF c
  <2> QED BY <2>1, <2>3, FlowMoves
<1>2. CASE SendFile(r) \/ SendMessages(r) \/ SendOther(r)
  BY <1>1, <1>2 DEF SendFile, SendMessages, SendOther
<1>3. CASE ClientLeaves(r)
  <2>1. Becomes(r, [conn[r] EXCEPT !.open = FALSE]) /\ up' = up /\ conn[r].pc # "idle"
    BY <1>3 DEF ClientLeaves, Active, Idle
  <2>2. Flow([conn[r] EXCEPT !.open = FALSE], up[r])
    BY <1>0, <2>1 DEF Flow, Conn, Unasked, Unanswered, Relaying
  <2> QED BY <2>1, <2>2, FlowMoves
<1>4. CASE CancelContext(r)
  <2>1. /\ Becomes(r, [conn[r] EXCEPT !.cancelled = TRUE]) /\ up' = up
        /\ conn[r].pc # "idle" /\ ~ conn[r].open
    BY <1>4 DEF CancelContext, Active, Idle
  <2>2. Flow([conn[r] EXCEPT !.cancelled = TRUE], up[r])
    BY <1>0, <2>1 DEF Flow, Conn, Unasked, Unanswered, Relaying
  <2> QED BY <2>1, <2>2, FlowMoves
<1> QED BY <1>2, <1>3, <1>4 DEF Client

\* The upstream service sends nothing after the end of the response.
LEMMA UpstreamFlow ==
  ASSUME TypeOK, FlowInv, NEW r \in Requests, Upstream(r)
  PROVE  FlowInv'
<1>0. conn[r] \in Conn /\ up[r] \in Up /\ Flow(conn[r], up[r])
  BY DEF TypeOK, FlowInv
<1>1. PICK u \in Up :
               /\ up' = [up EXCEPT ![r] = u] /\ UNCHANGED conn
               /\ up[r].state \in {"pending", "open"}
               /\ up[r].sent <= u.sent
  <2>1. ASSUME NEW from \in {"pending", "open"}, NEW to \in UpStates, UpstreamStep(r, from, to)
        PROVE  /\ [up[r] EXCEPT !.state = to] \in Up
               /\ up' = [up EXCEPT ![r] = [up[r] EXCEPT !.state = to]] /\ UNCHANGED conn
               /\ up[r].state \in {"pending", "open"}
               /\ up[r].sent <= [up[r] EXCEPT !.state = to].sent
    BY <1>0, <2>1 DEF UpstreamStep, Up
  <2>2. CASE UpstreamAnswers(r) \/ UpstreamRefuses(r) \/ UpstreamEnds(r) \/ UpstreamBreaks(r)
    BY <2>1, <2>2 DEF UpstreamAnswers, UpstreamRefuses, UpstreamEnds, UpstreamBreaks, UpStates
  <2>3. CASE UpstreamSends(r)
    <3>1. /\ [up[r] EXCEPT !.sent = up[r].sent + 1] \in Up
          /\ up' = [up EXCEPT ![r] = [up[r] EXCEPT !.sent = up[r].sent + 1]] /\ UNCHANGED conn
          /\ up[r].state = "open"
          /\ up[r].sent <= [up[r] EXCEPT !.sent = up[r].sent + 1].sent
      BY <1>0, <2>3 DEF UpstreamSends, Up
    <3> QED BY <3>1
  <2> QED BY <2>2, <2>3 DEF Upstream
<1>2. Flow(conn[r], u)
  BY <1>0, <1>1 DEF Flow, Up, Conn, Unasked, Unanswered, Relaying
<1>3. conn' = conn /\ up'[r] = u /\ \A s \in Requests \ {r} : up'[s] = up[s]
  BY <1>1 DEF TypeOK
<1> QED BY <1>2, <1>3 DEF FlowInv

-------------------------------------------------------------------------------
(* The invariant. *)

\* A step of a handler or of its client is one of its own connection.  It kills no
\* handler, and it leaves a status line that is out as it is.
LEMMA OneConnMoves ==
  ASSUME TypeOK, FlowInv, NEW r \in Requests, Client(r) \/ Handler(r)
  PROVE  /\ UNCHANGED process
         /\ \E c : /\ Becomes(r, c) /\ c.pc # "killed"
                   /\ conn[r].status # 0 => c.status = conn[r].status
<1> DEFINE Fits(c) == c.pc # "killed" /\ (conn[r].status # 0 => c.status = conn[r].status)
<1>0. conn[r] \in Conn /\ Flow(conn[r], up[r])
  BY DEF TypeOK, FlowInv
<1>1. UNCHANGED process
  BY DEF Client, SendFile, SendMessages, SendOther, Connect, ClientLeaves, CancelContext,
     Handler, ReadBody, ReadFails, MintFails, DispatchFails, StoreFile, CountFile, ReplyFile,
     LookupFile, Transform, Dispatch, Relay, DoReturns, DoFails, CheckContext, ReadChunk,
     ReadEOF, ReadError, WriteChunk, WriteFails
<1>2. CASE conn[r].status = 0
  <2> SUFFICES \E c : Becomes(r, c) /\ c.pc # "killed"
    BY <1>1, <1>2
  <2>1. ASSUME NEW e, NEW d, NEW b, Connect(r, e, d, b)
        PROVE  \E c : Becomes(r, c) /\ c.pc # "killed"
    <3>1. [conn[r] EXCEPT !.pc = "read", !.endpoint = e, !.upload = d,
                          !.open = TRUE, !.by = gen].pc # "killed"
      BY <1>0 DEF Conn
    <3> QED BY <2>1, <3>1 DEF Connect
  <2>2. CASE SendFile(r) \/ SendMessages(r) \/ SendOther(r)
    BY <2>1, <2>2 DEF SendFile, SendMessages, SendOther
  <2>3. CASE ClientLeaves(r) \/ CancelContext(r)
    <3>1. conn[r].pc # "killed"
      BY <2>3 DEF ClientLeaves, CancelContext, Active, Idle
    <3>2. /\ [conn[r] EXCEPT !.open = FALSE].pc # "killed"
          /\ [conn[r] EXCEPT !.cancelled = TRUE].pc # "killed"
      BY <1>0, <3>1 DEF Conn
    <3> QED BY <2>3, <3>2 DEF ClientLeaves, CancelContext
  <2>4. CASE Handler(r) /\ ~ Relay(r)
    <3>1. \A s : Respond(conn[r], s).pc # "killed"
      BY <1>0 DEF Respond, Conn
    <3>2. \A pc \in {"mint", "dispatch", "reply", "do"} : [conn[r] EXCEPT !.pc = pc].pc # "killed"
      BY <1>0 DEF Conn
    <3>3. \A todo : [conn[r] EXCEPT !.pc = "lookup", !.todo = todo].pc # "killed"
      BY <1>0 DEF Conn
    <3>4. \A i : [conn[r] EXCEPT !.pc = "gauge", !.id = i].pc # "killed"
      BY <1>0 DEF Conn
    <3>5. CASE ReadBody(r)
      BY <3>1, <3>2, <3>3, <3>5 DEF ReadBody
    <3>6. CASE Refuses(r) \/ ReplyFile(r)
      BY <3>1, <3>6, RefusesIs DEF ReplyFile
    <3>7. CASE StoreFile(r)
      BY <3>4, <3>7 DEF StoreFile
    <3>8. CASE CountFile(r) \/ Transform(r) \/ Dispatch(r)
      BY <3>2, <3>8 DEF CountFile, Transform, Dispatch
    <3>9. CASE LookupFile(r)
      <4>1. PICK todo, missed :
              Becomes(r, [conn[r] EXCEPT !.todo = todo, !.missed = missed])
        BY <3>9 DEF LookupFile
      <4>2. [conn[r] EXCEPT !.todo = todo, !.missed = missed].pc = "lookup"
        BY <1>0, <3>9 DEF LookupFile, Conn
      <4> QED BY <4>1, <4>2
    <3> QED BY <2>4, <3>5, <3>6, <3>7, <3>8, <3>9 DEF Handler, Refuses
  <2>5. CASE Relay(r)
    BY <1>0, <2>5, RelayStep
  <2> QED BY <2>2, <2>3, <2>4, <2>5 DEF Client
<1>3. CASE conn[r].status # 0
  <2>1. conn[r].pc \notin Unanswered \cup {"idle"}
    BY <1>0, <1>3 DEF Flow, NewConn
  <2>2. CASE Client(r)
    <3>1. ClientLeaves(r) \/ CancelContext(r)
      BY <2>1, <2>2 DEF Client, SendFile, SendMessages, SendOther, Connect
    <3>2. conn[r].pc # "killed"
      BY <3>1 DEF ClientLeaves, CancelContext, Active, Idle
    <3>3. Fits([conn[r] EXCEPT !.open = FALSE]) /\ Fits([conn[r] EXCEPT !.cancelled = TRUE])
      BY <1>0, <3>2 DEF Conn
    <3> QED BY <1>1, <3>1, <3>3 DEF ClientLeaves, CancelContext
  <2>3. CASE Handler(r)
    <3>1. /\ Relay(r) /\ ~ DoReturns(r) /\ ~ DoFails(r)
      BY <2>1, <2>3 DEF Handler, ReadBody, ReadFails, MintFails, DispatchFails, StoreFile,
         CountFile, ReplyFile, LookupFile, Transform, Dispatch, DoReturns, DoFails, Unanswered
    <3>2. \A o : Fits(Return(conn[r], o)) /\ Fits(Return(Received(conn[r]), o))
      BY <1>0 DEF Return, Received, Conn
    <3>3. Fits([conn[r] EXCEPT !.pc = "reading"]) /\ Fits([Received(conn[r]) EXCEPT !.pc = "stream"])
      BY <1>0 DEF Received, Conn
    <3>4. \A n, eof : Fits([conn[r] EXCEPT !.pc = "writing", !.read = n, !.readEOF = eof])
      BY <1>0 DEF Conn
    <3> HIDE DEF Fits
    <3>5. \E c : Becomes(r, c) /\ Fits(c)
      <4>1. CASE CheckContext(r)
        BY <3>2, <3>3, <4>1 DEF CheckContext
      <4>2. CASE ReadChunk(r)
        BY <3>4, <4>2 DEF ReadChunk
      <4>3. CASE ReadEOF(r) \/ ReadError(r) \/ WriteFails(r)
        BY <3>2, <4>3 DEF ReadEOF, ReadError, WriteFails
      <4>4. CASE WriteChunk(r)
        BY <3>2, <3>3, <4>4 DEF WriteChunk
      <4> QED BY <3>1, <4>1, <4>2, <4>3, <4>4 DEF Relay
    <3> QED BY <1>1, <3>5 DEF Fits
  <2> QED BY <2>2, <2>3
<1> QED BY <1>2, <1>3

LEMMA InitStreamInv == Init => StreamInv
<1> SUFFICES ASSUME Init PROVE StreamInv
  OBVIOUS
<1>1. FilesInv
  BY InitFilesInv
<1>2. FlowInv /\ KilledInv
  BY DEF Init, FlowInv, KilledInv, Flow, NewConn, NewUp, Unasked, Unanswered, Relaying, Disconnects
<1> QED BY <1>1, <1>2 DEF StreamInv

LEMMA NextStreamInv == StreamInv /\ [Next]_vars => StreamInv'
<1> SUFFICES ASSUME StreamInv, [Next]_vars PROVE StreamInv'
  OBVIOUS
<1>0. /\ FilesInv /\ FlowInv /\ KilledInv /\ TypeOK /\ OwnProcess
      /\ \A r \in Requests : conn[r] \in Conn
  BY DEF StreamInv, FilesInv, TypeInv, TypeOK
<1>1. FilesInv'
  BY <1>0, NextFilesInv
<1>2. FlowInv' /\ KilledInv'
  <2>1. CASE ProcessEnds
    <3>1. \A r \in Requests :
            conn'[r] = IF Active(r) THEN [conn[r] EXCEPT !.pc = "killed"] ELSE conn[r]
      BY <2>1 DEF ProcessEnds
    <3>2. \A r \in Requests :
            Flow(conn[r], up[r]) => Flow([conn[r] EXCEPT !.pc = "killed"], up[r])
      BY <1>0 DEF Flow, Conn, Unasked, Unanswered, Relaying
    <3>3. FlowInv'
      BY <1>0, <2>1, <3>1, <3>2 DEF FlowInv, ProcessEnds
    <3>4. KilledInv'
      BY <2>1 DEF KilledInv, ProcessEnds
    <3> QED BY <3>3, <3>4
  <2>2. CASE NewProxy
    BY <1>0, <2>2 DEF NewProxy, FlowInv, KilledInv, OwnProcess, TypeOK, Conn
  <2>3. CASE Start \/ Shutdown \/ Drained \/ GraceExpires
    BY <1>0, <2>3 DEF Start, Shutdown, Drained, GraceExpires, FlowInv, KilledInv
  <2>4. ASSUME NEW r \in Requests, Client(r) \/ Handler(r) PROVE FlowInv' /\ KilledInv'
    <3>1. FlowInv'
      BY <1>0, <2>4, ClientFlow, FrontFlow, RelayFlow DEF Handler, Refuses
    <3>2. UNCHANGED process /\ \E c : Becomes(r, c) /\ c.pc # "killed"
      BY <1>0, <2>4, OneConnMoves
    <3>3. PICK c : Becomes(r, c) /\ c.pc # "killed"
      BY <3>2
    <3>4. KilledInv'
      BY <1>0, <3>2, <3>3 DEF KilledInv, Becomes, TypeOK
    <3> QED BY <3>1, <3>4
  <2>5. ASSUME NEW r \in Requests, Upstream(r) PROVE FlowInv' /\ KilledInv'
    <3>1. UNCHANGED <<process, conn>>
      BY <2>5 DEF Upstream, UpstreamAnswers, UpstreamRefuses, UpstreamEnds, UpstreamBreaks,
         UpstreamSends, UpstreamStep
    <3> QED BY <1>0, <2>5, <3>1, UpstreamFlow DEF KilledInv
  <2>6. CASE UNCHANGED vars
    BY <1>0, <2>6 DEF vars, FlowInv, KilledInv
  <2> QED BY <2>1, <2>2, <2>3, <2>4, <2>5, <2>6 DEF Next, Lifecycle
<1> QED BY <1>1, <1>2 DEF StreamInv

-------------------------------------------------------------------------------
(* What follows for every connection. *)

LEMMA StreamInvHolds == Spec => []StreamInv
<1>1. Init => StreamInv
  BY InitStreamInv
<1>2. StreamInv /\ [Next]_vars => StreamInv'
  BY NextStreamInv
<1> QED BY <1>1, <1>2, PTL DEF Spec

\* What is recorded as a disconnect of the client is one, whatever ended the relay.
THEOREM DisconnectsAreReal == Spec => []NoFalseDisconnect
<1>1. StreamInv => NoFalseDisconnect
  BY DEF StreamInv, FlowInv, Flow, NoFalseDisconnect
<1> QED BY <1>1, StreamInvHolds, PTL

\* No failure writes a second status line over one that is out.
THEOREM StatusIsFinal == Spec => StatusWrittenOnce
<1>1. ASSUME StreamInv, [Next]_vars, NEW r \in Requests, conn[r].status # 0
      PROVE  conn'[r].status = conn[r].status
  <2>0. TypeOK /\ FlowInv /\ \A s \in Requests : conn[s] \in Conn
    BY <1>1 DEF StreamInv, FilesInv, TypeInv, TypeOK
  <2>1. CASE ProcessEnds
    BY <2>0, <2>1 DEF ProcessEnds, Conn
  <2>2. CASE NewProxy \/ Start \/ Shutdown \/ Drained \/ GraceExpires \/ UNCHANGED vars
    BY <2>2 DEF NewProxy, Start, Shutdown, Drained, GraceExpires, vars
  <2>3. ASSUME NEW s \in Requests, Client(s) \/ Handler(s)
        PROVE  conn'[r].status = conn[r].status
    <3>1. PICK c : Becomes(s, c) /\ (conn[s].status # 0 => c.status = conn[s].status)
      BY <2>0, <2>3, OneConnMoves
    <3> QED BY <1>1, <2>0, <3>1 DEF Becomes, TypeOK
  <2>4. ASSUME NEW s \in Requests, Upstream(s) PROVE conn'[r].status = conn[r].status
    BY <2>4 DEF Upstream, UpstreamAnswers, UpstreamRefuses, UpstreamEnds, UpstreamBreaks,
       UpstreamSends, UpstreamStep
  <2> QED BY <1>1, <2>1, <2>2, <2>3, <2>4 DEF Next, Lifecycle
<1>2. StreamInv /\ [Next]_vars =>
        [\A r \in Requests : conn[r].status # 0 => conn'[r].status = conn[r].status]_vars
  BY <1>1
<1> QED BY <1>2, StreamInvHolds, PTL DEF Spec, StatusWrittenOnce

\* A Shutdown that returns in time leaves no connection of its process unanswered.
THEOREM DrainIsLossless == Spec => DrainLosesNothing
<1>1. ASSUME StreamInv, Drained, NEW r \in Requests, conn[r].by = gen
      PROVE  conn[r].status # 0 \/ ~ conn[r].open
  <2>1. conn[r].pc \in {"idle", "done", "killed"} /\ proc = "draining"
    BY <1>1 DEF Drained, Active, Idle
  <2>2. gen \in Nat /\ Flow(conn[r], up[r])
    BY <1>1 DEF StreamInv, FilesInv, TypeInv, TypeOK, FlowInv
  <2>3. conn[r].pc # "killed"
    BY <1>1, <2>1, <2>2 DEF StreamInv, KilledInv
  <2> QED BY <2>1, <2>2, <2>3 DEF Flow, NewConn
<1>2. StreamInv /\ [Next]_vars =>
        [Drained => \A r \in Requests :
           conn[r].by = gen => conn[r].status # 0 \/ ~ conn[r].open]_vars
  BY <1>1
<1> QED BY <1>2, StreamInvHolds, PTL DEF Spec, DrainLosesNothing

-------------------------------------------------------------------------------
(* The relay: each step of Proxy is a step of Relay or none. *)

\* What Relay sees of the proxy.
Sent     == [r \in Requests |-> up[r].sent]
Complete == [r \in Requests |-> up[r].state = "eof"]
Has      == [r \in Requests |-> conn[r].got]
Present  == [r \in Requests |-> conn[r].pc = "idle" \/ conn[r].open]
Ended    == [r \in Requests |-> RelayEnd(conn[r])]

LEMMA RelayView == UNCHANGED <<Sent, Complete, Has, Present, Ended>> => UNCHANGED Streams!vars
BY DEF Streams!vars, Sent, Complete, Has, Present, Ended

\* A step of connection r from c to d.
LEMMA RelayMoves ==
  ASSUME TypeOK, NEW r \in Requests, NEW d, Becomes(r, d)
  PROVE  /\ Has' = [Has EXCEPT ![r] = d.got]
         /\ Present' = [Present EXCEPT ![r] = (d.pc = "idle" \/ d.open)]
         /\ Ended' = [Ended EXCEPT ![r] = RelayEnd(d)]
<1>1. conn'[r] = d /\ \A s \in Requests \ {r} : conn'[s] = conn[s]
  BY DEF Becomes, TypeOK
<1>2. Has' = [Has EXCEPT ![r] = d.got]
  BY <1>1 DEF Has
<1>3. Present' = [Present EXCEPT ![r] = (d.pc = "idle" \/ d.open)]
  BY <1>1 DEF Present
<1>4. Ended' = [Ended EXCEPT ![r] = RelayEnd(d)]
  BY <1>1 DEF Ended
<1> QED BY <1>2, <1>3, <1>4

\* A step that moves no chunk, ends no relay and lets no client leave.
LEMMA RelayStutters ==
  ASSUME TypeOK, NEW r \in Requests, NEW d, Becomes(r, d), UNCHANGED <<Sent, Complete>>,
         d.got = conn[r].got, RelayEnd(d) = RelayEnd(conn[r]),
         (d.pc = "idle" \/ d.open) <=> (conn[r].pc = "idle" \/ conn[r].open)
  PROVE  UNCHANGED Streams!vars
<1>1. conn'[r] = d /\ \A s \in Requests \ {r} : conn'[s] = conn[s]
  BY DEF Becomes, TypeOK
<1>2. Has' = Has
  BY <1>1 DEF Has
<1>3. \A s \in Requests : (conn'[s].pc = "idle" \/ conn'[s].open) = (conn[s].pc = "idle" \/ conn[s].open)
  BY <1>1
<1>4. Present' = Present
  BY <1>3 DEF Present
<1>5. Ended' = Ended
  BY <1>1 DEF Ended
<1> QED BY <1>2, <1>4, <1>5, RelayView

\* Before the upstream service has answered, a handler relays nothing.
LEMMA FrontStutters ==
  ASSUME TypeOK, FlowInv, NEW r \in Requests, Handler(r), ~ Relay(r)
  PROVE  UNCHANGED Streams!vars
<1> DEFINE Same(d) == d.got = conn[r].got /\ d.open = conn[r].open
                      /\ d.pc # "idle" /\ RelayEnd(d) = "no"
<1>0. conn[r] \in Conn /\ Flow(conn[r], up[r])
  BY DEF TypeOK, FlowInv
<1>1. conn[r].pc \in Unanswered
  BY DEF Handler, ReadBody, ReadFails, MintFails, DispatchFails, StoreFile, CountFile,
     ReplyFile, LookupFile, Transform, Dispatch, Unanswered
<1>2. conn[r].pc # "idle" /\ RelayEnd(conn[r]) = "no"
  BY <1>1 DEF RelayEnd, Unanswered
<1>3. UNCHANGED <<Sent, Complete>>
  <2>1. CASE Dispatch(r)
    <3>1. up[r].state = "none"
      BY <1>0, <2>1 DEF Dispatch, Flow, Unasked
    <3>2. \A s \in Requests : up'[s].sent = up[s].sent /\ (up'[s].state = "eof") = (up[s].state = "eof")
      BY <2>1, <3>1 DEF Dispatch, TypeOK, Up
    <3> QED BY <3>2 DEF Sent, Complete
  <2>2. CASE ~ Dispatch(r)
    BY <2>2 DEF Handler, ReadBody, ReadFails, MintFails, DispatchFails, StoreFile, CountFile,
       ReplyFile, LookupFile, Transform, Sent, Complete
  <2> QED BY <2>1, <2>2
<1>4. \E d : Becomes(r, d) /\ Same(d)
  <2>1. \A s \in {400, 500, 502} : Same(Respond(conn[r], s))
    BY <1>0 DEF Respond, RelayEnd, Conn
  <2>2. \A pc \in {"mint", "dispatch", "reply", "do"} : Same([conn[r] EXCEPT !.pc = pc])
    BY <1>0 DEF RelayEnd, Conn
  <2>3. \A todo : Same([conn[r] EXCEPT !.pc = "lookup", !.todo = todo])
    BY <1>0 DEF RelayEnd, Conn
  <2>4. \A i : Same([conn[r] EXCEPT !.pc = "gauge", !.id = i])
    BY <1>0 DEF RelayEnd, Conn
  <2>5. conn[r].endpoint = "files" => Same(Respond(conn[r], 200))
    BY <1>0 DEF Respond, RelayEnd, Conn
  <2>6. conn[r].pc = "lookup" => \A t, m : Same([conn[r] EXCEPT !.todo = t, !.missed = m])
    BY <1>0 DEF RelayEnd, Conn
  <2> HIDE DEF Same
  <2>7. CASE ReadBody(r)
    BY <2>1, <2>2, <2>3, <2>7 DEF ReadBody
  <2>8. CASE Refuses(r)
    BY <2>1, <2>8, RefusesIs
  <2>9. CASE StoreFile(r)
    BY <2>4, <2>9 DEF StoreFile
  <2>10. CASE CountFile(r) \/ Transform(r) \/ Dispatch(r)
    BY <2>2, <2>10 DEF CountFile, Transform, Dispatch
  <2>11. CASE ReplyFile(r)
    <3>1. conn[r].endpoint = "files"
      BY <1>0, <2>11 DEF ReplyFile, Flow
    <3> QED BY <2>5, <2>11, <3>1 DEF ReplyFile
  <2>12. CASE LookupFile(r)
    <3>1. PICK t, m : Becomes(r, [conn[r] EXCEPT !.todo = t, !.missed = m])
      BY <2>12 DEF LookupFile
    <3> QED BY <2>6, <2>12, <3>1 DEF LookupFile
  <2> QED BY <2>7, <2>8, <2>9, <2>10, <2>11, <2>12 DEF Handler, Refuses
<1>5. PICK d : Becomes(r, d) /\ Same(d)
  BY <1>4
<1> QED BY <1>2, <1>3, <1>5, RelayStutters

\* The relay of a response delivers, finishes or cuts, or does none of these.
LEMMA RelaySteps ==
  ASSUME TypeOK, FlowInv, NEW r \in Requests, Relay(r)
  PROVE  Streams!Next \/ UNCHANGED Streams!vars
<1>0. /\ conn[r] \in Conn /\ up[r] \in Up /\ Flow(conn[r], up[r])
      /\ UNCHANGED <<Sent, Complete>>
  BY DEF TypeOK, FlowInv, Relay, DoReturns, DoFails, CheckContext, ReadChunk, ReadEOF,
     ReadError, WriteChunk, WriteFails, Sent, Complete
<1>1. CASE DoReturns(r)
  <2> DEFINE d == [conn[r] EXCEPT !.pc = "stream", !.status = 200]
  <2>1. Becomes(r, d) /\ conn[r].pc = "do"
    BY <1>1 DEF DoReturns
  <2>2. d.got = conn[r].got /\ d.open = conn[r].open /\ d.pc # "idle"
        /\ RelayEnd(d) = RelayEnd(conn[r])
    BY <1>0, <2>1 DEF Conn, RelayEnd
  <2> HIDE DEF d
  <2> QED BY <1>0, <2>1, <2>2, RelayStutters
<1>2. CASE DoFails(r)
  <2> DEFINE d == [Respond(conn[r], 502) EXCEPT !.outcome = "unreachable"]
  <2>1. Becomes(r, d) /\ conn[r].pc = "do"
    BY <1>2 DEF DoFails
  <2>2. d.got = conn[r].got /\ d.open = conn[r].open /\ d.pc # "idle"
        /\ RelayEnd(d) = RelayEnd(conn[r])
    BY <1>0, <2>1 DEF Conn, Respond, RelayEnd
  <2> HIDE DEF d
  <2> QED BY <1>0, <2>1, <2>2, RelayStutters
<1>3. ASSUME NEW pc \in {"reading", "stream"}, conn[r].pc \in Relaying,
             Becomes(r, [conn[r] EXCEPT !.pc = pc])
      PROVE  UNCHANGED Streams!vars
  <2> DEFINE d == [conn[r] EXCEPT !.pc = pc]
  <2>1. d.got = conn[r].got /\ d.open = conn[r].open /\ d.pc # "idle"
        /\ RelayEnd(d) = RelayEnd(conn[r]) /\ conn[r].pc # "idle"
    BY <1>0, <1>3 DEF Conn, RelayEnd, Relaying
  <2> HIDE DEF d
  <2> QED BY <1>0, <1>3, <2>1, RelayStutters DEF d
<1>4. ASSUME NEW o \in Outcomes \ {"none"}, conn[r].pc \in Relaying,
             Becomes(r, Return(conn[r], o))
      PROVE  Streams!Cut(r)
  <2> DEFINE d == Return(conn[r], o)
  <2>1. d.got = conn[r].got /\ d.open = conn[r].open /\ d.pc = "done"
        /\ RelayEnd(d) = "cut" /\ RelayEnd(conn[r]) = "no" /\ conn[r].pc # "idle"
    BY <1>0, <1>4 DEF Conn, Flow, Return, RelayEnd, Relaying
  <2> HIDE DEF d
  <2>2. /\ Has' = [Has EXCEPT ![r] = d.got]
        /\ Present' = [Present EXCEPT ![r] = (d.pc = "idle" \/ d.open)]
        /\ Ended' = [Ended EXCEPT ![r] = RelayEnd(d)]
    BY <1>4, RelayMoves DEF d
  <2>3. Has' = Has /\ Ended[r] = "no" /\ Ended' = [Ended EXCEPT ![r] = "cut"]
    BY <2>1, <2>2 DEF Has, Ended
  <2>4. (d.pc = "idle" \/ d.open) = (conn[r].pc = "idle" \/ conn[r].open)
    BY <2>1
  <2>5. Present' = Present
    BY <2>2, <2>4 DEF Present
  <2> QED BY <1>0, <2>3, <2>5 DEF Streams!Cut, Sent, Complete, Has, Present, Ended
<1>5. CASE CheckContext(r)
  <2>1. conn[r].pc \in Relaying /\ "client_cancel" \in Outcomes \ {"none"}
    BY <1>5 DEF CheckContext, Relaying, Outcomes, Disconnects
  <2>2. CASE conn[r].cancelled
    <3>1. Streams!Cut(r)
      BY <1>4, <1>5, <2>1, <2>2 DEF CheckContext
    <3> QED BY <3>1 DEF Streams!Next
  <2>3. CASE ~ conn[r].cancelled
    BY <1>3, <1>5, <2>1, <2>3 DEF CheckContext
  <2> QED BY <2>2, <2>3
<1>6. CASE ReadError(r) \/ WriteFails(r)
  <2>1. PICK o \in {"read_error", "client_eof"} : Becomes(r, Return(conn[r], o))
    BY <1>6 DEF ReadError, WriteFails
  <2>2. conn[r].pc \in Relaying /\ o \in Outcomes \ {"none"}
    BY <1>6 DEF ReadError, WriteFails, Relaying, Outcomes, Disconnects
  <2>3. Streams!Cut(r)
    BY <1>4, <2>1, <2>2
  <2> QED BY <2>3 DEF Streams!Next
<1>7. CASE ReadChunk(r)
  <2>1. PICK eof \in BOOLEAN :
          Becomes(r, [conn[r] EXCEPT !.pc = "writing", !.read = conn[r].read + 1,
                                     !.readEOF = eof])
    BY <1>7 DEF ReadChunk
  <2> DEFINE d == [conn[r] EXCEPT !.pc = "writing", !.read = conn[r].read + 1, !.readEOF = eof]
  <2>2. d.got = conn[r].got /\ d.open = conn[r].open /\ d.pc # "idle"
        /\ RelayEnd(d) = RelayEnd(conn[r]) /\ conn[r].pc # "idle"
    BY <1>0, <1>7 DEF ReadChunk, Conn, RelayEnd
  <2> HIDE DEF d
  <2> QED BY <1>0, <2>1, <2>2, RelayStutters DEF d
<1>8. CASE ReadEOF(r)
  <2> DEFINE d == Return(conn[r], "none")
  <2>1. Becomes(r, d) /\ conn[r].pc = "reading" /\ up[r].state = "eof"
    BY <1>8 DEF ReadEOF
  <2>2. d.got = conn[r].got /\ d.open = conn[r].open /\ d.pc = "done"
        /\ RelayEnd(d) = "complete" /\ RelayEnd(conn[r]) = "no" /\ conn[r].pc # "idle"
    BY <1>0, <2>1 DEF Conn, Flow, Return, RelayEnd, Relaying
  <2>3. conn[r].got = up[r].sent \/ ~ conn[r].open
    BY <1>0, <1>8 DEF ReadEOF, Flow
  <2> HIDE DEF d
  <2>4. /\ Has' = [Has EXCEPT ![r] = d.got]
        /\ Present' = [Present EXCEPT ![r] = (d.pc = "idle" \/ d.open)]
        /\ Ended' = [Ended EXCEPT ![r] = RelayEnd(d)]
    BY <2>1, RelayMoves
  <2>5. Has' = Has /\ Ended[r] = "no" /\ Ended' = [Ended EXCEPT ![r] = "complete"]
    BY <2>2, <2>4 DEF Has, Ended
  <2>6. (d.pc = "idle" \/ d.open) = (conn[r].pc = "idle" \/ conn[r].open)
    BY <2>2
  <2>7. Present' = Present
    BY <2>4, <2>6 DEF Present
  <2>8. Complete[r] /\ (Has[r] = Sent[r] \/ ~ Present[r])
    BY <2>1, <2>2, <2>3 DEF Complete, Has, Sent, Present
  <2>9. Streams!Finish(r)
    BY <1>0, <2>5, <2>7, <2>8 DEF Streams!Finish, Sent, Complete, Has, Present, Ended
  <2> QED BY <2>9 DEF Streams!Next
<1>9. CASE WriteChunk(r)
  <2> DEFINE d == IF conn[r].readEOF THEN Return(Received(conn[r]), "none")
                  ELSE [Received(conn[r]) EXCEPT !.pc = "stream"]
  <2>1. Becomes(r, d) /\ conn[r].pc = "writing"
    BY <1>9 DEF WriteChunk
  <2>2. /\ d.open = conn[r].open /\ d.pc # "idle" /\ conn[r].pc # "idle"
        /\ d.got = IF conn[r].open THEN conn[r].got + 1 ELSE conn[r].got
        /\ RelayEnd(conn[r]) = "no"
        /\ RelayEnd(d) = IF conn[r].readEOF THEN "complete" ELSE "no"
    BY <1>0, <2>1 DEF Conn, Flow, Return, Received, RelayEnd, Relaying
  <2>3. /\ conn[r].open => conn[r].got + 1 = conn[r].read
        /\ conn[r].readEOF => up[r].state = "eof" /\ conn[r].read = up[r].sent
        /\ conn[r].read <= up[r].sent
    BY <1>0, <2>1 DEF Flow, Relaying
  <2> HIDE DEF d
  <2>4. /\ Has' = [Has EXCEPT ![r] = d.got]
        /\ Present' = [Present EXCEPT ![r] = (d.pc = "idle" \/ d.open)]
        /\ Ended' = [Ended EXCEPT ![r] = RelayEnd(d)]
    BY <2>1, RelayMoves
  <2>5. (d.pc = "idle" \/ d.open) = (conn[r].pc = "idle" \/ conn[r].open)
    BY <2>2
  <2>6. Present' = Present /\ Ended[r] = "no"
    BY <2>2, <2>4, <2>5 DEF Present, Ended
  <2>7. CASE conn[r].open
    <3>1. Present[r] /\ Has[r] < Sent[r] /\ Has' = [Has EXCEPT ![r] = Has[r] + 1]
      BY <1>0, <2>2, <2>3, <2>4, <2>7 DEF Present, Has, Sent, Conn, Up
    <3>2. Ended' = Ended \/ Ended' = [Ended EXCEPT ![r] = "complete"]
      BY <2>2, <2>4 DEF Ended
    <3>3. Ended'[r] = "complete" => Complete[r] /\ Has'[r] = Sent[r]
      BY <1>0, <2>2, <2>3, <2>4, <2>7 DEF Ended, Complete, Has, Sent
    <3>4. Streams!Deliver(r)
      BY <1>0, <2>6, <3>1, <3>2, <3>3
         DEF Streams!Deliver, Sent, Complete, Has, Present, Ended
    <3> QED BY <3>4 DEF Streams!Next
  <2>8. CASE ~ conn[r].open /\ conn[r].readEOF
    <3>1. Has' = Has /\ Ended' = [Ended EXCEPT ![r] = "complete"]
      BY <2>2, <2>4, <2>8 DEF Has
    <3>2. Complete[r] /\ ~ Present[r]
      BY <2>2, <2>3, <2>8 DEF Complete, Present
    <3>3. Streams!Finish(r)
      BY <1>0, <2>6, <3>1, <3>2 DEF Streams!Finish, Sent, Complete, Has, Present, Ended
    <3> QED BY <3>3 DEF Streams!Next
  <2>9. CASE ~ conn[r].open /\ ~ conn[r].readEOF
    BY <1>0, <2>1, <2>2, <2>9, RelayStutters
  <2> QED BY <2>7, <2>8, <2>9
<1> QED BY <1>1, <1>2, <1>5, <1>6, <1>7, <1>8, <1>9 DEF Relay

\* A client that leaves is seen to leave; its other steps are not of the relay.
LEMMA ClientSteps ==
  ASSUME TypeOK, FlowInv, NEW r \in Requests, Client(r)
  PROVE  Streams!Next \/ UNCHANGED Streams!vars
<1>0. conn[r] \in Conn /\ Flow(conn[r], up[r])
  BY DEF TypeOK, FlowInv
<1>1. UNCHANGED <<Sent, Complete>>
  BY DEF Client, SendFile, SendMessages, SendOther, Connect, ClientLeaves, CancelContext,
     Sent, Complete
<1>2. ASSUME NEW e, NEW f, NEW b, Connect(r, e, f, b) PROVE UNCHANGED Streams!vars
  <2> DEFINE d == [conn[r] EXCEPT !.pc = "read", !.endpoint = e, !.upload = f,
                                  !.open = TRUE, !.by = gen]
  <2>1. Becomes(r, d) /\ conn[r].pc = "idle"
    BY <1>2 DEF Connect
  <2>2. d.got = conn[r].got /\ d.open /\ RelayEnd(d) = RelayEnd(conn[r])
    BY <1>0, <2>1 DEF Conn, RelayEnd
  <2> HIDE DEF d
  <2> QED BY <1>1, <2>1, <2>2, RelayStutters
<1>3. CASE SendFile(r) \/ SendMessages(r) \/ SendOther(r)
  BY <1>2, <1>3 DEF SendFile, SendMessages, SendOther
<1>4. CASE CancelContext(r)
  <2> DEFINE d == [conn[r] EXCEPT !.cancelled = TRUE]
  <2>1. Becomes(r, d)
    BY <1>4 DEF CancelContext
  <2>2. d.got = conn[r].got /\ d.open = conn[r].open /\ d.pc = conn[r].pc
        /\ RelayEnd(d) = RelayEnd(conn[r])
    BY <1>0 DEF Conn, RelayEnd
  <2> HIDE DEF d
  <2> QED BY <1>1, <2>1, <2>2, RelayStutters
<1>5. CASE ClientLeaves(r)
  <2> DEFINE d == [conn[r] EXCEPT !.open = FALSE]
  <2>1. Becomes(r, d) /\ conn[r].open /\ conn[r].pc # "idle"
    BY <1>5 DEF ClientLeaves, Active, Idle
  <2>2. d.got = conn[r].got /\ ~ d.open /\ d.pc # "idle" /\ RelayEnd(d) = RelayEnd(conn[r])
    BY <1>0, <2>1 DEF Conn, RelayEnd
  <2> HIDE DEF d
  <2>3. /\ Has' = [Has EXCEPT ![r] = d.got]
        /\ Present' = [Present EXCEPT ![r] = (d.pc = "idle" \/ d.open)]
        /\ Ended' = [Ended EXCEPT ![r] = RelayEnd(d)]
    BY <2>1, RelayMoves
  <2>4. Has' = Has /\ Ended' = Ended
    BY <2>2, <2>3 DEF Has, Ended
  <2>5. (d.pc = "idle" \/ d.open) = FALSE
    BY <2>2
  <2>6. Present[r] /\ Present' = [Present EXCEPT ![r] = FALSE]
    BY <2>1, <2>3, <2>5 DEF Present
  <2>7. Streams!Leave(r)
    BY <1>1, <2>4, <2>6 DEF Streams!Leave, Sent, Complete, Has, Present, Ended
  <2> QED BY <2>7 DEF Streams!Next
<1> QED BY <1>3, <1>4, <1>5 DEF Client

\* The upstream service sends a chunk, ends the response well, or is not seen.
LEMMA UpstreamSteps ==
  ASSUME TypeOK, NEW r \in Requests, Upstream(r)
  PROVE  Streams!Next \/ UNCHANGED Streams!vars
<1>0. up[r] \in Up /\ DOMAIN up = Requests
  BY DEF TypeOK
<1>1. UNCHANGED <<Has, Present, Ended>>
  BY DEF Upstream, UpstreamAnswers, UpstreamRefuses, UpstreamEnds, UpstreamBreaks,
     UpstreamSends, UpstreamStep, Has, Present, Ended
<1>2. CASE UpstreamAnswers(r) \/ UpstreamRefuses(r) \/ UpstreamBreaks(r)
  <2>1. \A s \in Requests : up'[s].sent = up[s].sent /\ (up'[s].state = "eof") = (up[s].state = "eof")
    BY <1>0, <1>2 DEF UpstreamAnswers, UpstreamRefuses, UpstreamBreaks, UpstreamStep, TypeOK, Up
  <2>2. UNCHANGED <<Sent, Complete>>
    BY <2>1 DEF Sent, Complete
  <2> QED BY <1>1, <2>2, RelayView
<1>3. CASE UpstreamEnds(r)
  <2>1. /\ up[r].state = "open" /\ up'[r].state = "eof" /\ up'[r].sent = up[r].sent
        /\ \A s \in Requests \ {r} : up'[s] = up[s]
    BY <1>0, <1>3 DEF UpstreamEnds, UpstreamStep, Up
  <2>2. Sent' = Sent /\ ~ Complete[r]
    BY <2>1 DEF Sent, Complete
  <2>3. Complete' = [Complete EXCEPT ![r] = TRUE]
    BY <2>1 DEF Complete
  <2>4. Streams!Complete(r)
    BY <1>1, <2>2, <2>3 DEF Streams!Complete, Sent, Complete, Has, Present, Ended
  <2> QED BY <2>4 DEF Streams!Next
<1>4. CASE UpstreamSends(r)
  <2>1. /\ up[r].state = "open" /\ up'[r].state = "open" /\ up'[r].sent = up[r].sent + 1
        /\ \A s \in Requests \ {r} : up'[s] = up[s]
    BY <1>0, <1>4 DEF UpstreamSends, Up
  <2>2. Sent' = [Sent EXCEPT ![r] = Sent[r] + 1] /\ ~ Complete[r]
    BY <2>1 DEF Sent, Complete
  <2>3. \A s \in Requests : (up'[s].state = "eof") = (up[s].state = "eof")
    BY <2>1
  <2>4. Complete' = Complete
    BY <2>3 DEF Complete
  <2>5. Streams!Send(r)
    BY <1>1, <2>2, <2>4 DEF Streams!Send, Sent, Complete, Has, Present, Ended
  <2> QED BY <2>5 DEF Streams!Next
<1> QED BY <1>2, <1>3, <1>4 DEF Upstream

\* The handlers a process takes with it have ended no relay.
LEMMA EndStutters ==
  ASSUME TypeOK, ProcessEnds
  PROVE  UNCHANGED Streams!vars
<1>0. \A r \in Requests : conn[r] \in Conn
  BY DEF TypeOK
<1>1. UNCHANGED <<Sent, Complete>>
  BY DEF ProcessEnds, Sent, Complete
<1>2. ASSUME NEW r \in Requests
      PROVE  /\ conn'[r].got = conn[r].got
             /\ (conn'[r].pc = "idle" \/ conn'[r].open) = (conn[r].pc = "idle" \/ conn[r].open)
             /\ RelayEnd(conn'[r]) = RelayEnd(conn[r])
  <2>1. conn[r] \in Conn
    BY <1>0
  <2>2. CASE Active(r)
    <3>1. conn'[r] = [conn[r] EXCEPT !.pc = "killed"]
      BY <2>2 DEF ProcessEnds
    <3>2. conn[r].pc \notin Idle
      BY <2>2 DEF Active
    <3> QED BY <2>1, <3>1, <3>2 DEF Conn, RelayEnd, Idle
  <2>3. CASE ~ Active(r)
    BY <2>3 DEF ProcessEnds
  <2> QED BY <2>2, <2>3
<1>3. Has' = Has
  BY <1>2 DEF Has
<1>4. Present' = Present
  BY <1>2 DEF Present
<1>5. Ended' = Ended
  BY <1>2 DEF Ended
<1> QED BY <1>1, <1>3, <1>4, <1>5, RelayView

\* The proxy implements the relay: whatever the order of its reads and writes, of
\* the looks at the context, of a client that leaves and of a service that breaks
\* off, the client has a prefix of the response, and a relay that is taken for
\* complete was.
THEOREM RelayImplemented == Spec => ImplementsRelay
<1>1. Init => StreamInv /\ Streams!Init
  <2> SUFFICES ASSUME Init PROVE StreamInv /\ Streams!Init
    OBVIOUS
  <2>1. \A r \in Requests : conn[r] = NewConn /\ up[r] = NewUp
    BY DEF Init
  <2>2. \A r \in Requests : /\ up[r].sent = 0 /\ (up[r].state = "eof") = FALSE
                           /\ conn[r].got = 0 /\ RelayEnd(conn[r]) = "no"
                           /\ (conn[r].pc = "idle" \/ conn[r].open) = TRUE
    BY <2>1 DEF NewConn, NewUp, RelayEnd
  <2> QED BY <2>2, InitStreamInv DEF Streams!Init
<1>2. StreamInv /\ [Next]_vars => StreamInv'
  BY NextStreamInv
<1>3. StreamInv /\ [Next]_vars => [Streams!Next]_(Streams!vars)
  <2> SUFFICES ASSUME StreamInv, [Next]_vars PROVE Streams!Next \/ UNCHANGED Streams!vars
    OBVIOUS
  <2>0. TypeOK /\ FlowInv
    BY DEF StreamInv, FilesInv, TypeInv
  <2>1. CASE NewProxy \/ Start \/ Shutdown \/ Drained \/ GraceExpires \/ UNCHANGED vars
    <3>1. UNCHANGED <<conn, up>>
      BY <2>1 DEF NewProxy, Start, Shutdown, Drained, GraceExpires, vars
    <3> QED BY <3>1 DEF Streams!vars
  <2>2. CASE ProcessEnds
    BY <2>0, <2>2, EndStutters
  <2>3. ASSUME NEW r \in Requests, Client(r) \/ Handler(r) \/ Upstream(r)
        PROVE  Streams!Next \/ UNCHANGED Streams!vars
    BY <2>0, <2>3, ClientSteps, FrontStutters, RelaySteps, UpstreamSteps
  <2> QED BY <2>1, <2>2, <2>3 DEF Next, Lifecycle
<1> QED BY <1>1, <1>2, <1>3, PTL DEF Spec, ImplementsRelay, Streams!Spec
=================================================================================
