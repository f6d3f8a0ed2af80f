---------------------------- MODULE UploadFetcher ----------------------------
(***************************************************************************)
(* GTMSessionUploadFetcher, which carries the picture of an item to the    *)
(* bucket: one request that opens a session of the resumable protocol,     *)
(* then the bytes in chunks.  A chunk that fails is not repeated: a query  *)
(* asks the server how much it has, and the next chunk starts there.       *)
(*                                                                         *)
(* The server and the network are not under src/; they are modelled from   *)
(* the headers the fetcher sends and reads.  A request may be lost, its    *)
(* answer may be lost, the connection may break in the middle of a chunk,  *)
(* and a chunk the fetcher has given up may still arrive later.            *)
(*                                                                         *)
(* Bytes are counted from 0.  Of what the server holds only two things are *)
(* kept: how many bytes, and whether each of them is the one that belongs  *)
(* there.                                                                  *)
(***************************************************************************)
EXTENDS Naturals, FiniteSets

CONSTANTS
    FullLength,   \* the bytes of the picture
    ChunkSize,    \* the most bytes put into one chunk
    Granularity,  \* the server wants offsets that are multiples of this
    Slack,        \* a remainder shorter than this joins the last chunk
    MaxRetries,   \* bound: repetitions of the first request
    MaxStrays     \* bound: chunks given up by the fetcher, still on their way

ASSUME UploadAssumption ==
    /\ FullLength \in Nat \ {0}
    /\ ChunkSize \in Nat \ {0}
    /\ Granularity \in Nat \ {0}
    /\ Slack \in Nat
    /\ MaxRetries \in Nat
    /\ MaxStrays \in Nat

VARIABLES
    at,        \* what the fetcher is doing
    offset,    \* currentOffset, or the offset of the chunk being prepared
    retries,   \* how often the first request was repeated
    wire,      \* the fetcher in flight: its request, or the answer, on the way
    reply,     \* the answer on the way
    handler,   \* is the client's completion handler still held?
    location,  \* is the address of the session known?
    addressed, \* does the chunk in preparation carry that address?
    stopped,   \* userStoppedFetching
    cancelling,\* the "cancel" command on its way to the server
    final,     \* the final callback put on the callback queue
    strays,    \* offsets of abandoned chunks the network still carries
    session,   \* the server: no session, "active", "final" or "cancelled"
    received,  \* the server: bytes received
    intact     \* the server: each byte received is the one that belongs there

clientVars == <<at, offset, retries, handler, location, addressed, stopped, final>>
serverVars == <<session, received, intact>>
fetcherVars == <<clientVars, serverVars, wire, reply, strays, cancelling>>

-----------------------------------------------------------------------------
\* The chunk size the server's granularity allows.
AllowedSize ==
    IF ChunkSize < Granularity THEN Granularity
    ELSE ChunkSize - (ChunkSize % Granularity)

Rounded(o) == o - (o % Granularity)

\* The chunk takes all that is left: it would fit, or nearly.
IsFinalChunk(o) ==
    \/ AllowedSize >= FullLength - o
    \/ FullLength - o < AllowedSize + Slack

\* Variant for the runs: the bytes are cut where the headers should point, and the reverse.
ChunkCutRounded(o) ==
    LET a == Rounded(o) IN
    [ offset   |-> o,
      from     |-> a,
      length   |-> IF IsFinalChunk(o) THEN FullLength - o ELSE AllowedSize,
      finalize |-> IsFinalChunk(o) ]

\* The chunk sent from offset o.  The headers announce the rounded offset; the
\* bytes are cut from the offset as it is.
ChunkAt(o) ==
    LET a == Rounded(o) IN
    [ offset   |-> a,
      from     |-> o,
      length   |-> IF IsFinalChunk(a) THEN FullLength - a ELSE AllowedSize,
      finalize |-> IsFinalChunk(a) ]

\* "Range invalid for upload data."
RangeInvalid(c) == c.from + c.length > FullLength

\* An answer: the status of the session, what it has received, and whether the
\* HTTP status is one of success.
Reply == [ok : BOOLEAN, status : {"none", "active", "final", "cancelled"},
          received : 0..FullLength]

NoReply == [ok |-> FALSE, status |-> "none", received |-> 0]

States ==
    {"idle", "start", "wait", "prepare", "chunk", "query", "done"}

FetcherInit ==
    /\ at = "idle"
    /\ offset = 0
    /\ retries = 0
    /\ wire = "none"
    /\ reply = NoReply
    /\ handler = FALSE
    /\ location = FALSE
    /\ addressed = FALSE
    /\ stopped = FALSE
    /\ cancelling = FALSE
    /\ final = "none"
    /\ strays = {}
    /\ session = "none"
    /\ received = 0
    /\ intact = TRUE

-----------------------------------------------------------------------------
\* A new fetcher in flight sends its request.
Send(state) ==
    /\ at' = state
    /\ wire' = "request"
    /\ reply' = NoReply
    /\ addressed' = FALSE

\* invokeFinalCallbackWithData: the handler is put on the callback queue once,
\* then released.
Finish(result, forgetLocation) ==
    /\ at' = "done"
    /\ wire' = "none"
    /\ reply' = NoReply
    /\ final' = IF handler THEN result ELSE final
    /\ handler' = FALSE
    /\ location' = (location /\ ~forgetLocation)
    /\ addressed' = FALSE
    /\ UNCHANGED <<offset, retries, stopped, strays, serverVars>>

\* uploadNextChunkWithOffset: the request is made, with the address known now,
\* and the bytes are cut; a block on the main queue begins the fetch later.
Prepare(o, known) ==
    /\ at' = "prepare"
    /\ offset' = o
    /\ wire' = "none"
    /\ reply' = NoReply
    /\ location' = known
    /\ addressed' = known
    /\ UNCHANGED <<retries, handler, stopped, final, strays, serverVars>>

\* sendQueryForUploadOffset, the offset of the fetcher set to o.  A query made
\* without the address does not begin, and fails.
Query(o) ==
    /\ at' = "query"
    /\ wire' = IF location THEN "request" ELSE "none"
    /\ reply' = NoReply
    /\ addressed' = FALSE
    /\ offset' = o
    /\ UNCHANGED <<retries, handler, location, stopped, final, serverVars>>

\* The handler of the task is held from here on.
BeginFetch ==
    /\ at = "idle"
    /\ Send("start")
    /\ handler' = TRUE
    /\ UNCHANGED <<offset, retries, location, stopped, final, strays,
                   serverVars>>

\* Variant for the runs: the interval is not compared with the longest.
StartRetriedForEver ==
    /\ at = "start"
    /\ at' = "wait"
    /\ wire' = "none"
    /\ reply' = NoReply
    /\ UNCHANGED <<offset, retries, handler, location, addressed, stopped, final,
                   strays, serverVars>>

\* An error of the first request that is worth a retry, while the interval is
\* below the longest allowed.
StartRetried ==
    /\ at = "start"
    /\ retries < MaxRetries
    /\ at' = "wait"
    /\ wire' = "none"
    /\ reply' = NoReply
    /\ UNCHANGED <<offset, retries, handler, location, addressed, stopped, final,
                   strays, serverVars>>

RetryTimerFired ==
    /\ at = "wait"
    /\ Send("start")
    /\ retries' = retries + 1
    /\ UNCHANGED <<offset, handler, location, stopped, final, strays,
                   serverVars>>

\* Any other error, or the last one.
StartFailed ==
    /\ at = "start"
    /\ Finish("error", TRUE)

\* beginChunkFetches: an answer without the address of a session is a premature
\* failure.
BeginChunkFetches ==
    /\ at = "start"
    /\ wire = "reply"
    /\ IF reply.status = "active"
       THEN Prepare(0, TRUE)
       ELSE Finish("error", TRUE)

\* The block that begins the chunk's fetch.  It does not ask whether the
\* fetcher was stopped: only a request made without the address cannot begin.
BeginChunkFetcher ==
    /\ at = "prepare"
    /\ IF RangeInvalid(ChunkAt(offset)) \/ ~addressed
       THEN Finish("error", RangeInvalid(ChunkAt(offset)))
       ELSE /\ Send("chunk")
            /\ UNCHANGED <<offset, retries, handler, location, stopped, final,
                           strays, serverVars>>

\* A chunk given up on the way out may still arrive.
Abandon ==
    IF at = "chunk" /\ wire = "request"
    THEN strays' \in {strays} \cup
             {S \in {strays \cup {offset}} : Cardinality(S) <= MaxStrays}
    ELSE UNCHANGED strays

\* The retry block turns an error worth a retry into a query.
ChunkRetried ==
    /\ at = "chunk"
    /\ Abandon
    /\ Query(0)

ChunkFailed ==
    /\ at = "chunk"
    /\ Finish("error", FALSE)

\* chunkFetcher:finishedWithData:error: for a chunk that was answered.
ChunkAnswered ==
    /\ at = "chunk"
    /\ wire = "reply"
    /\ \/ ~reply.ok /\ reply.status = "active" /\ ChunkAt(offset).length > 0
          /\ Query(offset) /\ UNCHANGED strays
       \/ ~reply.ok /\ (reply.status # "active" \/ ChunkAt(offset).length = 0)
          /\ Finish("error", FALSE)
       \/ reply.ok /\ reply.status = "final" /\ Finish("ok", TRUE)
       \/ reply.ok /\ reply.status = "cancelled" /\ Finish("error", TRUE)
       \/ reply.ok /\ reply.status = "active"
          /\ Prepare(offset + ChunkAt(offset).length, location)

\* Variant for the runs: a query that fails is repeated.
QueryRepeated ==
    /\ at = "query"
    /\ Query(offset)
    /\ UNCHANGED strays

\* A query that fails is not repeated.
QueryFailed ==
    /\ at = "query"
    /\ Finish("error", FALSE)

\* queryFetcher:finishedWithData:error: an active session that has every byte
\* is handed to the chunk's handler, which takes it for a chunk of no length.
QueryAnswered ==
    /\ at = "query"
    /\ wire = "reply"
    /\ \/ reply.status = "cancelled" /\ Finish("error", FALSE)
       \/ reply.status = "final" /\ Finish("ok", TRUE)
       \/ reply.status = "active"
          /\ Prepare(IF reply.received >= FullLength THEN offset
                     ELSE reply.received, location)

\* stopFetching runs on another queue than the callbacks, in three steps.
\* First destroyChunkFetcher, which cancels a chunk that has begun: not one in
\* preparation, nor a query.
DestroyChunkFetcher ==
    /\ Abandon
    /\ IF at = "chunk"
       THEN at' = "done" /\ wire' = "none" /\ reply' = NoReply
       ELSE UNCHANGED <<at, wire, reply>>
    /\ UNCHANGED <<offset, retries, handler, location, addressed, stopped, final,
                   cancelling, serverVars>>

\* Variant for the runs: the address of the session is kept.
CancelKeepsLocation ==
    /\ cancelling' = location
    /\ UNCHANGED <<at, offset, retries, handler, location, addressed, stopped,
                   final, wire, reply, strays, serverVars>>

\* Then the server is told that there will be no more, if its address is known,
\* and the address is forgotten.
CancelUpload ==
    /\ cancelling' = location
    /\ location' = FALSE
    /\ UNCHANGED <<at, offset, retries, handler, addressed, stopped, final, wire,
                   reply, strays, serverVars>>

\* At last the first request or its timer is cancelled, and no callback of the
\* fetcher itself will run any more.
StopFirstRequest ==
    /\ stopped' = TRUE
    /\ handler' = FALSE
    /\ IF at \in {"start", "wait"}
       THEN at' = "done" /\ wire' = "none" /\ reply' = NoReply
       ELSE UNCHANGED <<at, wire, reply>>
    /\ UNCHANGED <<offset, retries, location, addressed, final, strays,
                   cancelling, serverVars>>

\* The final callback is dropped if the fetcher was stopped meanwhile.
DropFinal ==
    /\ final # "none"
    /\ stopped
    /\ final' = "none"
    /\ UNCHANGED <<at, offset, retries, handler, location, addressed, stopped,
                   wire, reply, strays, serverVars>>

-----------------------------------------------------------------------------
\* The server reads the first k bytes of chunk c.
Takes(c, k) ==
    /\ session = "active"
    /\ c.offset = received
    /\ received' = received + k
    /\ intact' = (intact /\ (k > 0 => c.from = received))

\* All of it, and the command that goes with it.
TakesWhole(c) ==
    /\ Takes(c, c.length)
    /\ session' = IF c.finalize THEN "final" ELSE session

\* The connection breaks on the way.
TakesPart(c) ==
    /\ \E k \in 0..c.length : Takes(c, k)
    /\ UNCHANGED session

\* A chunk that does not start where the server stands, or for a session that
\* has ended.
Refuses(c) ==
    /\ ~(session = "active" /\ c.offset = received)
    /\ UNCHANGED serverVars

Answers(ok) ==
    /\ wire' = "reply"
    /\ reply' = [ok |-> ok, status |-> session', received |-> received']

ServerStarts ==
    /\ at = "start"
    /\ wire = "request"
    /\ session' \in {"active", "none"}
    /\ UNCHANGED <<received, intact, clientVars, strays>>
    /\ Answers(TRUE)

ServerAnswersQuery ==
    /\ at = "query"
    /\ wire = "request"
    /\ UNCHANGED <<serverVars, clientVars, strays>>
    /\ Answers(TRUE)

ServerReceivesChunk ==
    /\ at = "chunk"
    /\ wire = "request"
    /\ \/ TakesWhole(ChunkAt(offset)) /\ Answers(TRUE)
       \/ Refuses(ChunkAt(offset)) /\ Answers(FALSE)
       \/ Refuses(ChunkAt(offset)) /\ session # "active" /\ Answers(TRUE)
    /\ UNCHANGED <<clientVars, strays>>

ServerReceivesPart ==
    /\ at = "chunk"
    /\ wire = "request"
    /\ TakesPart(ChunkAt(offset))
    /\ wire' = "none"
    /\ UNCHANGED <<clientVars, reply, strays>>

\* A request or an answer is lost; the fetcher learns of it by a timeout.
Lose ==
    /\ wire # "none"
    /\ wire' = "none"
    /\ reply' = NoReply
    /\ UNCHANGED <<clientVars, serverVars, strays>>

StrayArrives(o) ==
    /\ o \in strays
    /\ TakesWhole(ChunkAt(o)) \/ TakesPart(ChunkAt(o)) \/ Refuses(ChunkAt(o))
    /\ strays' = strays \ {o}
    /\ UNCHANGED <<clientVars, wire, reply>>

\* The server hears that there will be no more bytes.
ServerCancels ==
    /\ cancelling
    /\ cancelling' = FALSE
    /\ session' = IF session = "active" THEN "cancelled" ELSE session
    /\ UNCHANGED <<clientVars, received, intact, wire, reply, strays>>

-----------------------------------------------------------------------------
FetcherStep ==
    /\ \/ StartRetried \/ RetryTimerFired \/ StartFailed \/ BeginChunkFetches
       \/ BeginChunkFetcher
       \/ ChunkRetried \/ ChunkFailed \/ ChunkAnswered
       \/ QueryFailed \/ QueryAnswered
       \/ DropFinal
    /\ UNCHANGED cancelling

ServerStep ==
    \/ ServerCancels
    \/ /\ \/ ServerStarts \/ ServerAnswersQuery
          \/ ServerReceivesChunk \/ ServerReceivesPart
          \/ Lose
          \/ \E o \in strays : StrayArrives(o)
       /\ UNCHANGED cancelling
=============================================================================
