------------------------- MODULE StorageUploadProofs -------------------------
(***************************************************************************)
(* Proofs about StorageUpload, for every length of the picture, of a chunk *)
(* and of the granularity, and any number of chunks given up.              *)
(***************************************************************************)
EXTENDS StorageUpload, TLAPS

\* Where the fetcher believes the server to stand, now or of late, the server
\* stands or has passed.
OffsetsArePassed ==
    /\ at \in {"prepare", "chunk", "query"} => offset <= received
    /\ \A o \in strays : o <= received

\* An answer on the way tells of the past.
RepliesAreTrue ==
    /\ reply.received <= received
    /\ reply.status = "final" => session = "final"
    /\ at = "chunk" /\ reply.ok /\ reply.status = "active" =>
           offset + ChunkAt(offset).length <= received

\* A session becomes final with the last byte, and not before the first chunk.
FinalIsWhole ==
    /\ session = "final" => received = FullLength
    /\ at \in {"idle", "start", "wait"} => session # "final" /\ strays = {}

\* A repetition of the first request is counted before it is sent.
RetriesCounted == at = "wait" => retries < MaxRetries

\* The address comes with the answer to the first request.  An upload that was
\* called off has forgotten it, and has no first request to learn it from again.
AddressForgotten ==
    /\ at \in {"idle", "start", "wait"} => ~location /\ ~CalledOff
    /\ CalledOff => ~location

\* Wherever the outcome of the fetch has come, "ok" is the truth.
OutcomeIsTrue ==
    /\ final = "ok" => Stored
    /\ result = "ok" => Stored
    /\ \A i \in 1..Len(blocks) : blocks[i] = "ok" => Stored
    /\ finishing = "fire" => result \in Results

\* The inductive invariant.
Inv ==
    /\ TypeOK
    /\ OffsetsArePassed
    /\ RepliesAreTrue
    /\ FinalIsWhole
    /\ RetriesCounted
    /\ AddressForgotten
    /\ PrefixIsIntact
    /\ OutcomeIsTrue

-----------------------------------------------------------------------------
(* Offsets and chunks.                                                     *)

LEMMA Remainder ==
    ASSUME NEW o \in Nat
    PROVE  o % Granularity \in Nat /\ o % Granularity <= o
BY UploadAssumption

LEMMA RoundedBelow ==
    ASSUME NEW o \in Nat
    PROVE  Rounded(o) \in Nat /\ Rounded(o) <= o
BY Remainder DEF Rounded

LEMMA AllowedSizeIsNat == AllowedSize \in Nat
<1>1. ChunkSize \in Nat
  BY UploadAssumption
<1>2. ChunkSize % Granularity \in Nat /\ ChunkSize % Granularity <= ChunkSize
  BY <1>1, Remainder
<1>3. QED
  BY <1>1, <1>2, UploadAssumption DEF AllowedSize

\* A chunk stays within the picture when its bytes are cut where its headers
\* point, and one that ends the upload ends with the picture.
LEMMA ChunkFits ==
    ASSUME NEW o \in 0..FullLength
    PROVE  /\ ChunkAt(o).length \in Nat
           /\ ChunkAt(o).offset \in Nat
           /\ ChunkAt(o).offset <= o
           /\ ChunkAt(o).from = o
           /\ ChunkAt(o).offset + ChunkAt(o).length <= FullLength
           /\ ChunkAt(o).finalize =>
                  ChunkAt(o).offset + ChunkAt(o).length = FullLength
<1>1. Rounded(o) \in Nat /\ Rounded(o) <= o
  BY RoundedBelow
<1>2. QED
  BY <1>1, AllowedSizeIsNat, UploadAssumption DEF ChunkAt, IsFinalChunk


-----------------------------------------------------------------------------
(* The server.                                                             *)

\* What the server does with a chunk that starts where it once stood: it takes
\* bytes that belong there, or nothing.
LEMMA ChunkTaken ==
    ASSUME NEW o \in 0..FullLength, o <= received,
           received \in 0..FullLength, intact = TRUE,
           TakesWhole(ChunkAt(o)) \/ TakesPart(ChunkAt(o))
    PROVE  /\ session = "active"
           /\ received' \in 0..FullLength
           /\ received <= received'
           /\ intact' = TRUE
           /\ session' \in {"active", "final"}
           /\ session' = "final" => received' = FullLength
           /\ TakesWhole(ChunkAt(o)) =>
                  received' = o + ChunkAt(o).length
<1> DEFINE c == ChunkAt(o)
<1>1. /\ c.length \in Nat /\ c.offset \in Nat /\ c.offset <= o /\ c.from = o
      /\ c.offset + c.length <= FullLength
      /\ c.finalize => c.offset + c.length = FullLength
  BY ChunkFits
<1>2. session = "active" /\ c.offset = received
  BY DEF TakesWhole, TakesPart, Takes
<1>3. o = received /\ c.from = received
  BY <1>1, <1>2, UploadAssumption
<1>4. \A k : Takes(c, k) => received' = received + k /\ intact' = TRUE
  <2> SUFFICES ASSUME NEW k, Takes(c, k)
               PROVE  received' = received + k /\ intact' = TRUE
    OBVIOUS
  <2>1. received' = received + k
    BY DEF Takes
  <2>2. intact' = (intact /\ (k > 0 => c.from = received))
    BY DEF Takes
  <2>3. QED
    BY <1>3, <2>1, <2>2
<1>5. CASE TakesWhole(c)
  <2>1. received' = received + c.length /\ intact' = TRUE
    BY <1>4, <1>5 DEF TakesWhole
  <2>2. session' = IF c.finalize THEN "final" ELSE session
    BY <1>5 DEF TakesWhole
  <2>3. QED
    BY <1>1, <1>2, <1>3, <2>1, <2>2, UploadAssumption
<1>6. CASE TakesPart(c)
  <2>1. PICK k \in 0..c.length : Takes(c, k)
    BY <1>6 DEF TakesPart
  <2>2. received' = received + k /\ intact' = TRUE
    BY <1>4, <2>1
  <2>3. session' = session
    BY <1>6 DEF TakesPart
  <2>4. TakesWhole(c) => received' = received + c.length
    BY <1>4 DEF TakesWhole
  <2>5. QED
    BY <1>1, <1>2, <1>3, <2>2, <2>3, <2>4, UploadAssumption
<1>7. QED
  BY <1>5, <1>6

\* Steps of the server and of the network: the server only moves on, and what
\* has ended stays as it is.
LEMMA ServerMovesOn ==
    ASSUME Inv,
           received' \in 0..FullLength, received <= received',
           intact' = TRUE,
           session' \in {"none", "active", "final", "cancelled"},
           session = "final" => session' = "final",
           session' = "final" => received' = FullLength,
           at \in {"idle", "start", "wait"} => session' # "final",
           CalledOff' => CalledOff,
           wire' \in {"none", "request", "reply"}, reply' \in Reply, RepliesAreTrue',
           strays' \subseteq strays, cancelling' \in BOOLEAN,
           UNCHANGED <<clientVars, taskVars>>
    PROVE  Inv'
<1>1. UNCHANGED <<at, offset, retries, handler, location, addressed, stopped, final>>
  BY DEF clientVars
<1>2. UNCHANGED <<cancel, finishing, result, observers, blocks, told>>
  BY DEF taskVars
<1>3. TypeOK'
  BY <1>1, <1>2 DEF Inv, TypeOK
<1>4. OffsetsArePassed'
  <2>1. received \in Nat /\ received' \in Nat /\ offset \in Nat
        /\ \A o \in strays : o \in Nat
    BY UploadAssumption DEF Inv, TypeOK
  <2>2. QED
    BY <1>1, <2>1 DEF Inv, OffsetsArePassed
<1>5. FinalIsWhole'
  BY <1>1 DEF Inv, FinalIsWhole
<1>6. RetriesCounted' /\ AddressForgotten' /\ PrefixIsIntact'
  BY <1>1 DEF Inv, RetriesCounted, AddressForgotten, CalledOff, PrefixIsIntact
<1>7. Stored => Stored'
  BY DEF Stored
<1>8. OutcomeIsTrue'
  BY <1>1, <1>2, <1>7 DEF Inv, OutcomeIsTrue
<1>9. QED
  BY <1>3, <1>4, <1>5, <1>6, <1>8 DEF Inv

\* An answer made of the server's state as it is then.
LEMMA AnswersAreTrue ==
    ASSUME NEW ok \in BOOLEAN, Answers(ok),
           session' \in {"none", "active", "final", "cancelled"},
           received' \in 0..FullLength,
           at' = "chunk" /\ ok /\ session' = "active" =>
               offset' + ChunkAt(offset').length <= received'
    PROVE  /\ wire' \in {"none", "request", "reply"}
           /\ reply' \in Reply
           /\ RepliesAreTrue'
<1>1. wire' = "reply" /\ reply' = [ok |-> ok, status |-> session', received |-> received']
  BY DEF Answers
<1>2. received' <= received'
  BY UploadAssumption
<1>3. ChunkAt(offset)' = ChunkAt(offset')
  BY DEF ChunkAt, Rounded, IsFinalChunk, AllowedSize
<1>4. QED
  BY <1>1, <1>2, <1>3 DEF Reply, RepliesAreTrue

LEMMA ServerStartsKeeps ==
    ASSUME Inv, ServerStarts, UNCHANGED <<cancelling, taskVars>>
    PROVE  Inv'
<1>1. /\ at = "start" /\ session' \in {"active", "none"} /\ Answers(TRUE)
      /\ UNCHANGED <<received, intact, clientVars, strays>>
  BY DEF ServerStarts
<1>2. session # "final" /\ received \in 0..FullLength /\ received <= received
      /\ intact = TRUE /\ cancelling \in BOOLEAN
  BY <1>1, UploadAssumption DEF Inv, TypeOK, FinalIsWhole, PrefixIsIntact
<1>3. at' = "start"
  BY <1>1 DEF clientVars
<1>4. wire' \in {"none", "request", "reply"} /\ reply' \in Reply /\ RepliesAreTrue'
  BY <1>1, <1>2, <1>3, AnswersAreTrue
<1>5. CalledOff' => CalledOff
  BY <1>1 DEF CalledOff
<1>6. QED
  BY <1>1, <1>2, <1>4, <1>5, ServerMovesOn

LEMMA ServerAnswersQueryKeeps ==
    ASSUME Inv, ServerAnswersQuery, UNCHANGED <<cancelling, taskVars>>
    PROVE  Inv'
<1>1. /\ at = "query" /\ Answers(TRUE)
      /\ UNCHANGED <<session, received, intact, clientVars, strays>>
  BY DEF ServerAnswersQuery, serverVars
<1>2. /\ received \in 0..FullLength /\ received <= received
      /\ session \in {"none", "active", "final", "cancelled"}
      /\ intact = TRUE /\ cancelling \in BOOLEAN
      /\ session = "final" => received = FullLength
  BY UploadAssumption DEF Inv, TypeOK, FinalIsWhole, PrefixIsIntact
<1>3. at' = "query"
  BY <1>1 DEF clientVars
<1>4. wire' \in {"none", "request", "reply"} /\ reply' \in Reply /\ RepliesAreTrue'
  BY <1>1, <1>2, <1>3, AnswersAreTrue
<1>5. CalledOff' => CalledOff
  BY <1>1 DEF CalledOff
<1>6. QED
  BY <1>1, <1>2, <1>4, <1>5, ServerMovesOn

\* What holds of the chunk in flight and of any stray.
LEMMA ChunkOnTheWay ==
    ASSUME Inv, NEW o, (o = offset /\ at = "chunk") \/ o \in strays
    PROVE  /\ o \in 0..FullLength /\ o <= received
           /\ received \in 0..FullLength /\ received <= received
           /\ intact = TRUE /\ cancelling \in BOOLEAN
           /\ session \in {"none", "active", "final", "cancelled"}
           /\ session = "final" => received = FullLength
           /\ at \notin {"idle", "start", "wait"}
<1>1. intact = TRUE /\ cancelling \in BOOLEAN
  BY DEF Inv, TypeOK, PrefixIsIntact
<1>2. o \in 0..FullLength /\ o <= received
  BY DEF Inv, TypeOK, OffsetsArePassed
<1>3. /\ received \in 0..FullLength /\ received <= received
      /\ session \in {"none", "active", "final", "cancelled"}
  BY UploadAssumption DEF Inv, TypeOK
<1>4. /\ session = "final" => received = FullLength
      /\ at \notin {"idle", "start", "wait"}
  BY DEF Inv, FinalIsWhole
<1>5. QED
  BY <1>1, <1>2, <1>3, <1>4

LEMMA ServerReceivesChunkKeeps ==
    ASSUME Inv, ServerReceivesChunk, UNCHANGED <<cancelling, taskVars>>
    PROVE  Inv'
<1>1. at = "chunk" /\ UNCHANGED <<clientVars, strays>>
  BY DEF ServerReceivesChunk
<1>2. at' = "chunk" /\ offset' = offset
  BY <1>1 DEF clientVars
<1>3. CASE TakesWhole(ChunkAt(offset)) /\ Answers(TRUE)
  <2>1. /\ session = "active" /\ received' \in 0..FullLength /\ received <= received'
        /\ intact' = TRUE /\ session' \in {"active", "final"}
        /\ session' = "final" => received' = FullLength
        /\ received' = offset + ChunkAt(offset).length
    BY <1>1, <1>3, ChunkOnTheWay, ChunkTaken
  <2>2. received' <= received'
    BY <2>1, UploadAssumption
  <2>3. wire' \in {"none", "request", "reply"} /\ reply' \in Reply /\ RepliesAreTrue'
    BY <1>2, <1>3, <2>1, <2>2, AnswersAreTrue
  <2>4. CalledOff' => CalledOff
    BY <2>1 DEF CalledOff
  <2>5. QED
    BY <1>1, <2>1, <2>3, <2>4, ChunkOnTheWay, ServerMovesOn
<1>4. CASE Refuses(ChunkAt(offset)) /\ Answers(FALSE)
  <2>1. UNCHANGED <<session, received, intact>>
    BY <1>4 DEF Refuses, serverVars
  <2>2. wire' \in {"none", "request", "reply"} /\ reply' \in Reply /\ RepliesAreTrue'
    BY <1>1, <1>4, <2>1, ChunkOnTheWay, AnswersAreTrue
  <2>3. CalledOff' => CalledOff
    BY <2>1 DEF CalledOff
  <2>4. QED
    BY <1>1, <2>1, <2>2, <2>3, ChunkOnTheWay, ServerMovesOn
<1>5. CASE Refuses(ChunkAt(offset)) /\ session # "active" /\ Answers(TRUE)
  <2>1. UNCHANGED <<session, received, intact>>
    BY <1>5 DEF Refuses, serverVars
  <2>2. wire' \in {"none", "request", "reply"} /\ reply' \in Reply /\ RepliesAreTrue'
    BY <1>1, <1>5, <2>1, ChunkOnTheWay, AnswersAreTrue
  <2>3. CalledOff' => CalledOff
    BY <2>1 DEF CalledOff
  <2>4. QED
    BY <1>1, <2>1, <2>2, <2>3, ChunkOnTheWay, ServerMovesOn
<1>6. QED
  BY <1>3, <1>4, <1>5 DEF ServerReceivesChunk

\* While the reply on the way is true, it stays true when the server moves on.
LEMMA OldReplyIsTrue ==
    ASSUME Inv, UNCHANGED <<reply, clientVars>>,
           received' \in 0..FullLength, received <= received',
           session = "final" => session' = "final"
    PROVE  reply' \in Reply /\ RepliesAreTrue'
<1>1. reply' = reply /\ at' = at /\ offset' = offset
  BY DEF clientVars
<1>2. reply \in Reply /\ reply.received \in Nat /\ received \in Nat
      /\ received' \in Nat /\ offset \in 0..FullLength
  BY UploadAssumption DEF Inv, TypeOK, Reply
<1>3. ChunkAt(offset).length \in Nat
  BY <1>2, ChunkFits
<1>4. ChunkAt(offset)' = ChunkAt(offset)
  BY <1>1 DEF ChunkAt, Rounded, IsFinalChunk, AllowedSize
<1>5. QED
  BY <1>1, <1>2, <1>3, <1>4 DEF Inv, RepliesAreTrue

LEMMA ServerReceivesPartKeeps ==
    ASSUME Inv, ServerReceivesPart, UNCHANGED <<cancelling, taskVars>>
    PROVE  Inv'
<1>1. /\ at = "chunk" /\ TakesPart(ChunkAt(offset)) /\ wire' = "none"
      /\ UNCHANGED <<clientVars, reply, strays>>
  BY DEF ServerReceivesPart
<1>2. /\ session = "active" /\ received' \in 0..FullLength /\ received <= received'
      /\ intact' = TRUE /\ session' \in {"active", "final"}
      /\ session' = "final" => received' = FullLength
  BY <1>1, ChunkOnTheWay, ChunkTaken
<1>3. reply' \in Reply /\ RepliesAreTrue'
  BY <1>1, <1>2, OldReplyIsTrue
<1>4. CalledOff' => CalledOff
  BY <1>2 DEF CalledOff
<1>5. QED
  BY <1>1, <1>2, <1>3, <1>4, ChunkOnTheWay, ServerMovesOn

LEMMA LoseKeeps ==
    ASSUME Inv, Lose, UNCHANGED <<cancelling, taskVars>>
    PROVE  Inv'
BY UploadAssumption
   DEF Lose, Inv, TypeOK, OffsetsArePassed, RepliesAreTrue, FinalIsWhole,
       RetriesCounted, AddressForgotten, CalledOff, PrefixIsIntact, OutcomeIsTrue, Stored,
       Reply, NoReply, clientVars, serverVars, taskVars

LEMMA StrayArrivesKeeps ==
    ASSUME Inv, NEW o \in strays, StrayArrives(o), UNCHANGED <<cancelling, taskVars>>
    PROVE  Inv'
<1>1. strays' \subseteq strays /\ UNCHANGED <<clientVars, wire, reply>>
  BY DEF StrayArrives
<1>2. wire' \in {"none", "request", "reply"}
  BY <1>1 DEF Inv, TypeOK
<1>3. CASE TakesWhole(ChunkAt(o)) \/ TakesPart(ChunkAt(o))
  <2>1. /\ session = "active" /\ received' \in 0..FullLength /\ received <= received'
        /\ intact' = TRUE /\ session' \in {"active", "final"}
        /\ session' = "final" => received' = FullLength
    BY <1>3, ChunkOnTheWay, ChunkTaken
  <2>2. reply' \in Reply /\ RepliesAreTrue'
    BY <1>1, <2>1, OldReplyIsTrue
  <2>3. CalledOff' => CalledOff
    BY <2>1 DEF CalledOff
  <2>4. QED
    BY <1>1, <1>2, <2>1, <2>2, <2>3, ChunkOnTheWay, ServerMovesOn
<1>4. CASE Refuses(ChunkAt(o))
  <2>1. UNCHANGED <<session, received, intact>>
    BY <1>4 DEF Refuses, serverVars
  <2>2. reply' \in Reply /\ RepliesAreTrue'
    BY <1>1, <2>1, ChunkOnTheWay, OldReplyIsTrue
  <2>3. CalledOff' => CalledOff
    BY <2>1 DEF CalledOff
  <2>4. QED
    BY <1>1, <1>2, <2>1, <2>2, <2>3, ChunkOnTheWay, ServerMovesOn
<1>5. QED
  BY <1>3, <1>4 DEF StrayArrives

LEMMA ServerCancelsKeeps ==
    ASSUME Inv, ServerCancels, UNCHANGED taskVars
    PROVE  Inv'
<1>1. /\ cancelling' = FALSE
      /\ session' = IF session = "active" THEN "cancelled" ELSE session
      /\ UNCHANGED <<clientVars, received, intact, wire, reply, strays>>
  BY DEF ServerCancels
<1>2. /\ received \in 0..FullLength /\ received <= received
      /\ wire \in {"none", "request", "reply"}
      /\ session \in {"none", "active", "final", "cancelled"}
      /\ intact = TRUE
      /\ session = "final" => received = FullLength
      /\ at \in {"idle", "start", "wait"} => session # "final"
  BY UploadAssumption DEF Inv, TypeOK, FinalIsWhole, PrefixIsIntact
<1>3. reply' \in Reply /\ RepliesAreTrue'
  BY <1>1, <1>2, OldReplyIsTrue
<1>4. CalledOff' => CalledOff
  <2>1. cancelling
    BY DEF ServerCancels
  <2>2. QED
    BY <2>1 DEF CalledOff
<1>5. QED
  BY <1>1, <1>2, <1>3, <1>4, ServerMovesOn

LEMMA ServerKeeps ==
    ASSUME Inv, ServerStep, UNCHANGED taskVars
    PROVE  Inv'
<1>1. CASE ServerCancels
  BY <1>1, ServerCancelsKeeps
<1>2. CASE ServerStarts /\ UNCHANGED cancelling
  BY <1>2, ServerStartsKeeps
<1>3. CASE ServerAnswersQuery /\ UNCHANGED cancelling
  BY <1>3, ServerAnswersQueryKeeps
<1>4. CASE ServerReceivesChunk /\ UNCHANGED cancelling
  BY <1>4, ServerReceivesChunkKeeps
<1>5. CASE ServerReceivesPart /\ UNCHANGED cancelling
  BY <1>5, ServerReceivesPartKeeps
<1>6. CASE Lose /\ UNCHANGED cancelling
  BY <1>6, LoseKeeps
<1>7. CASE (\E o \in strays : StrayArrives(o)) /\ UNCHANGED cancelling
  BY <1>7, StrayArrivesKeeps
<1>8. QED
  BY <1>1, <1>2, <1>3, <1>4, <1>5, <1>6, <1>7 DEF ServerStep

-----------------------------------------------------------------------------
(* What the actions of the fetcher are made of.                            *)

LEMMA NoReplyIsReply == NoReply \in Reply
BY UploadAssumption DEF NoReply, Reply

\* The upload ends, well only if the server has the whole picture.
LEMMA FinishKeeps ==
    ASSUME Inv, NEW r \in Results, NEW forget \in BOOLEAN, Finish(r, forget),
           r = "ok" => Stored,
           UNCHANGED <<cancelling, taskVars>>
    PROVE  Inv'
<1>1. location' \in BOOLEAN /\ (location' => location)
  BY DEF Inv, TypeOK, Finish
<1>2. final' \in Results \cup {"none"} /\ (final' = "ok" => Stored)
  BY DEF Inv, TypeOK, OutcomeIsTrue, Finish
<1>3. /\ at' = "done" /\ wire' = "none" /\ reply' = NoReply /\ handler' = FALSE
      /\ addressed' = FALSE
      /\ UNCHANGED <<offset, retries, stopped, strays, serverVars>>
  BY DEF Finish
<1>4. TypeOK'
  <2>1. reply' \in Reply /\ handler' \in BOOLEAN
    BY <1>3, NoReplyIsReply
  <2>2. QED
    BY <1>1, <1>2, <1>3, <2>1, UploadAssumption
       DEF Inv, TypeOK, States, serverVars, taskVars
<1>5. Stored' = Stored
  BY <1>3 DEF Stored, serverVars
<1>6. OutcomeIsTrue'
  BY <1>2, <1>5 DEF Inv, OutcomeIsTrue, taskVars
<1>7. AddressForgotten'
  BY <1>1, <1>3 DEF Inv, AddressForgotten, CalledOff, serverVars
<1>8. OffsetsArePassed' /\ RepliesAreTrue' /\ FinalIsWhole' /\ RetriesCounted' /\ PrefixIsIntact'
  BY <1>3, UploadAssumption
     DEF Inv, TypeOK, OffsetsArePassed, RepliesAreTrue, FinalIsWhole,
         RetriesCounted, PrefixIsIntact, NoReply, serverVars
<1>9. QED
  BY <1>4, <1>6, <1>7, <1>8 DEF Inv

\* A chunk is prepared where the server stands or has passed.
LEMMA PrepareKeeps ==
    ASSUME Inv, NEW o \in Nat, NEW known \in BOOLEAN, Prepare(o, known),
           o <= received, CalledOff => ~known,
           UNCHANGED <<cancelling, taskVars>>
    PROVE  Inv'
BY UploadAssumption
   DEF Prepare, Inv, TypeOK, OffsetsArePassed, RepliesAreTrue, FinalIsWhole,
       RetriesCounted, AddressForgotten, CalledOff, PrefixIsIntact, OutcomeIsTrue, Stored,
       Reply, NoReply, States, serverVars, taskVars

\* So is a query.
LEMMA QueryKeeps ==
    ASSUME Inv, at = "chunk", NEW o \in Nat, Query(o), o <= received,
           strays' = strays \/ strays' = strays \cup {offset},
           UNCHANGED <<cancelling, taskVars>>
    PROVE  Inv'
<1>1. /\ at' = "query" /\ wire' \in {"none", "request"} /\ reply' = NoReply
      /\ offset' = o /\ addressed' = FALSE
      /\ UNCHANGED <<retries, handler, location, stopped, final, serverVars>>
  BY DEF Query
<1>2. strays' \subseteq strays \cup {offset}
  OBVIOUS
<1>3. TypeOK'
  <2>1. strays' \subseteq 0..FullLength /\ offset' \in 0..FullLength
    BY <1>1, <1>2, UploadAssumption DEF Inv, TypeOK
  <2>2. reply' \in Reply /\ at' \in States /\ wire' \in {"none", "request", "reply"}
    BY <1>1, NoReplyIsReply DEF States
  <2>3. QED
    BY <1>1, <2>1, <2>2 DEF Inv, TypeOK, serverVars, taskVars
<1>4. OffsetsArePassed'
  BY <1>1, <1>2 DEF Inv, OffsetsArePassed, serverVars
<1>5. RepliesAreTrue' /\ FinalIsWhole' /\ RetriesCounted' /\ AddressForgotten' /\ PrefixIsIntact'
  BY <1>1, UploadAssumption
     DEF Inv, TypeOK, RepliesAreTrue, FinalIsWhole, RetriesCounted, AddressForgotten, CalledOff,
         PrefixIsIntact, NoReply, serverVars
<1>6. OutcomeIsTrue'
  BY <1>1 DEF Inv, OutcomeIsTrue, Stored, serverVars, taskVars
<1>7. QED
  BY <1>3, <1>4, <1>5, <1>6 DEF Inv

-----------------------------------------------------------------------------
(* The fetcher.                                                            *)

\* The first request is sent.
LEMMA FirstRequestKeeps ==
    ASSUME Inv, at \in {"idle", "wait"}, Send("start"), retries' \in 0..MaxRetries,
           handler' \in BOOLEAN,
           UNCHANGED <<offset, location, stopped, final, strays, serverVars>>,
           UNCHANGED <<cancelling, taskVars>>
    PROVE  Inv'
<1>1. /\ at' = "start" /\ wire' = "request" /\ reply' = NoReply /\ addressed' = FALSE
      /\ UNCHANGED <<session, received, intact>>
      /\ UNCHANGED <<cancel, finishing, result, observers, blocks, told>>
  BY DEF Send, serverVars, taskVars
<1>2. TypeOK'
  BY <1>1, NoReplyIsReply DEF Inv, TypeOK, States
<1>3. RepliesAreTrue'
  BY <1>1, UploadAssumption DEF Inv, TypeOK, RepliesAreTrue, NoReply
<1>4. OffsetsArePassed' /\ FinalIsWhole' /\ RetriesCounted' /\ PrefixIsIntact'
  BY <1>1 DEF Inv, OffsetsArePassed, FinalIsWhole, RetriesCounted, PrefixIsIntact
<1>5. AddressForgotten'
  BY <1>1 DEF Inv, AddressForgotten, CalledOff
<1>6. OutcomeIsTrue'
  BY <1>1 DEF Inv, OutcomeIsTrue, Stored
<1>7. QED
  BY <1>2, <1>3, <1>4, <1>5, <1>6 DEF Inv

\* The steps of the first request.
LEMMA StartKeeps ==
    ASSUME Inv, StartRetried \/ RetryTimerFired \/ StartFailed \/ BeginChunkFetches,
           UNCHANGED <<cancelling, taskVars>>
    PROVE  Inv'
<1>1. CASE StartRetried
  BY <1>1, UploadAssumption
     DEF StartRetried, Inv, TypeOK, OffsetsArePassed, RepliesAreTrue,
         FinalIsWhole, RetriesCounted, AddressForgotten, CalledOff, PrefixIsIntact,
         OutcomeIsTrue, Stored, Reply, NoReply, States, serverVars, taskVars
<1>2. CASE RetryTimerFired
  <2>1. /\ at = "wait" /\ Send("start") /\ retries' = retries + 1
        /\ UNCHANGED <<offset, handler, location, stopped, final, strays, serverVars>>
    BY <1>2 DEF RetryTimerFired
  <2>2. retries' \in 0..MaxRetries
    BY <2>1, UploadAssumption DEF Inv, TypeOK, RetriesCounted
  <2>3. handler' \in BOOLEAN
    BY <2>1 DEF Inv, TypeOK
  <2>4. QED
    BY <2>1, <2>2, <2>3, FirstRequestKeeps
<1>3. CASE StartFailed
  BY <1>3, FinishKeeps DEF StartFailed, Results
<1>4. CASE BeginChunkFetches
  <2>1. CASE reply.status = "active"
    <3>1. Prepare(0, TRUE)
      BY <1>4, <2>1 DEF BeginChunkFetches
    <3>2. 0 <= received
      BY UploadAssumption DEF Inv, TypeOK
    <3>3. ~CalledOff
      BY <1>4 DEF BeginChunkFetches, Inv, AddressForgotten
    <3>4. QED
      BY <3>1, <3>2, <3>3, PrepareKeeps
  <2>2. CASE reply.status # "active"
    BY <1>4, <2>2, FinishKeeps DEF BeginChunkFetches, Results
  <2>3. QED
    BY <2>1, <2>2
<1>5. QED
  BY <1>1, <1>2, <1>3, <1>4

\* A chunk is begun where it was prepared, if its request has the address.
LEMMA BeginChunkFetcherKeeps ==
    ASSUME Inv, BeginChunkFetcher, UNCHANGED <<cancelling, taskVars>>
    PROVE  Inv'
<1>1. CASE RangeInvalid(ChunkAt(offset)) \/ ~addressed
  <2>1. Finish("error", RangeInvalid(ChunkAt(offset)))
    BY <1>1 DEF BeginChunkFetcher
  <2>2. RangeInvalid(ChunkAt(offset)) \in BOOLEAN
    BY DEF RangeInvalid
  <2>3. QED
    BY <2>1, <2>2, FinishKeeps DEF Results
<1>2. CASE ~(RangeInvalid(ChunkAt(offset)) \/ ~addressed)
  <2>1. /\ at = "prepare" /\ at' = "chunk" /\ wire' = "request" /\ reply' = NoReply
        /\ addressed' = FALSE
        /\ UNCHANGED <<offset, retries, handler, location, stopped, final,
                       strays, serverVars>>
    BY <1>2 DEF BeginChunkFetcher, Send
  <2>2. CalledOff' = CalledOff
    BY <2>1 DEF CalledOff, serverVars
  <2>3. TypeOK'
    BY <2>1, NoReplyIsReply DEF Inv, TypeOK, States, serverVars, taskVars
  <2>4. OffsetsArePassed' /\ FinalIsWhole' /\ RetriesCounted' /\ PrefixIsIntact'
    BY <2>1
       DEF Inv, OffsetsArePassed, FinalIsWhole, RetriesCounted, PrefixIsIntact,
           serverVars
  <2>5. RepliesAreTrue' /\ AddressForgotten'
    BY <2>1, <2>2, UploadAssumption
       DEF Inv, TypeOK, RepliesAreTrue, AddressForgotten, CalledOff, NoReply, serverVars
  <2>6. OutcomeIsTrue'
    BY <2>1 DEF Inv, OutcomeIsTrue, Stored, serverVars, taskVars
  <2>7. QED
    BY <2>3, <2>4, <2>5, <2>6 DEF Inv
<1>3. QED
  BY <1>1, <1>2

\* The offset of the next chunk or query is one the server has passed.
LEMMA ChunkKeeps ==
    ASSUME Inv, ChunkRetried \/ ChunkFailed \/ ChunkAnswered,
           UNCHANGED <<cancelling, taskVars>>
    PROVE  Inv'
<1>1. received \in Nat /\ offset \in 0..FullLength
  BY UploadAssumption DEF Inv, TypeOK
<1>2. CASE ChunkRetried
  <2>1. /\ at = "chunk" /\ Query(0)
        /\ strays' = strays \/ strays' = strays \cup {offset}
    BY <1>2 DEF ChunkRetried, Abandon
  <2>2. QED
    BY <1>1, <2>1, QueryKeeps
<1>3. CASE ChunkFailed
  BY <1>3, FinishKeeps DEF ChunkFailed, Results
<1>4. CASE ChunkAnswered
  <2>1. CASE Query(offset) /\ UNCHANGED strays
    <3>1. at = "chunk" /\ offset <= received /\ offset \in Nat
      BY <1>1, <1>4, UploadAssumption DEF ChunkAnswered, Inv, OffsetsArePassed
    <3>2. QED
      BY <2>1, <3>1, QueryKeeps
  <2>2. CASE Finish("error", FALSE)
    BY <2>2, FinishKeeps DEF Results
  <2>3. CASE reply.ok /\ reply.status = "final" /\ Finish("ok", TRUE)
    <3>1. Stored
      BY <2>3 DEF Inv, RepliesAreTrue, FinalIsWhole, PrefixIsIntact, Stored
    <3>2. QED
      BY <2>3, <3>1, FinishKeeps DEF Results
  <2>4. CASE Finish("error", TRUE)
    BY <2>4, FinishKeeps DEF Results
  <2>5. CASE /\ reply.ok /\ reply.status = "active"
             /\ Prepare(offset + ChunkAt(offset).length, location)
    <3>1. offset + ChunkAt(offset).length <= received
      BY <1>4, <2>5 DEF ChunkAnswered, Inv, RepliesAreTrue
    <3>2. offset + ChunkAt(offset).length \in Nat
      BY <1>1, ChunkFits
    <3>3. location \in BOOLEAN /\ (CalledOff => ~location)
      BY DEF Inv, TypeOK, AddressForgotten, CalledOff
    <3>4. QED
      BY <2>5, <3>1, <3>2, <3>3, PrepareKeeps
  <2>6. QED
    BY <1>4, <2>1, <2>2, <2>3, <2>4, <2>5 DEF ChunkAnswered
<1>5. QED
  BY <1>2, <1>3, <1>4

LEMMA QueryStepKeeps ==
    ASSUME Inv, QueryFailed \/ QueryAnswered, UNCHANGED <<cancelling, taskVars>>
    PROVE  Inv'
<1>1. CASE QueryFailed
  BY <1>1, FinishKeeps DEF QueryFailed, Results
<1>2. CASE QueryAnswered
  <2>1. CASE Finish("error", FALSE)
    BY <2>1, FinishKeeps DEF Results
  <2>2. CASE reply.status = "final" /\ Finish("ok", TRUE)
    <3>1. Stored
      BY <2>2 DEF Inv, RepliesAreTrue, FinalIsWhole, PrefixIsIntact, Stored
    <3>2. QED
      BY <2>2, <3>1, FinishKeeps DEF Results
  <2>3. CASE Prepare(IF reply.received >= FullLength THEN offset
                     ELSE reply.received, location)
    <3> DEFINE o == IF reply.received >= FullLength THEN offset ELSE reply.received
    <3>1. o \in Nat /\ o <= received
      BY <1>2, UploadAssumption
         DEF QueryAnswered, Inv, TypeOK, OffsetsArePassed, RepliesAreTrue, Reply
    <3>2. location \in BOOLEAN /\ (CalledOff => ~location)
      BY DEF Inv, TypeOK, AddressForgotten, CalledOff
    <3>3. QED
      BY <2>3, <3>1, <3>2, PrepareKeeps
  <2>4. QED
    BY <1>2, <2>1, <2>2, <2>3 DEF QueryAnswered
<1>3. QED
  BY <1>1, <1>2

LEMMA DropFinalKeeps ==
    ASSUME Inv, DropFinal, UNCHANGED <<cancelling, taskVars>>
    PROVE  Inv'
BY UploadAssumption
   DEF DropFinal, Inv, TypeOK, OffsetsArePassed, RepliesAreTrue, FinalIsWhole,
       RetriesCounted, AddressForgotten, CalledOff, PrefixIsIntact, OutcomeIsTrue, Stored,
       serverVars, taskVars

LEMMA FetcherKeeps ==
    ASSUME Inv, FetcherStep, UNCHANGED taskVars
    PROVE  Inv'
<1>1. UNCHANGED <<cancelling, taskVars>>
  BY DEF FetcherStep
<1>2. QED
  BY <1>1, StartKeeps, BeginChunkFetcherKeeps, ChunkKeeps, QueryStepKeeps,
     DropFinalKeeps
     DEF FetcherStep

-----------------------------------------------------------------------------
(* The task.                                                               *)

LEMMA EnqueueKeeps ==
    ASSUME Inv, Enqueue
    PROVE  Inv'
<1>1. /\ at = "idle" /\ Send("start") /\ handler' = TRUE
      /\ UNCHANGED <<offset, retries, location, stopped, final, strays, serverVars>>
      /\ UNCHANGED <<cancelling, taskVars>>
  BY DEF Enqueue, BeginFetch
<1>2. retries' \in 0..MaxRetries
  BY <1>1 DEF Inv, TypeOK
<1>3. QED
  BY <1>1, <1>2, FirstRequestKeeps

\* A step of stopFetching: it may end what the fetcher is doing, give up the
\* chunk in flight, and forget the address; the server knows nothing of it yet.
LEMMA StopMovesOn ==
    ASSUME Inv,
           \/ at' = "done" /\ wire' = "none" /\ reply' = NoReply
           \/ UNCHANGED <<at, wire, reply>>,
           strays' = strays \/ (at = "chunk" /\ strays' = strays \cup {offset}),
           location' \in BOOLEAN, location' => location,
           CalledOff' => CalledOff \/ location,
           CalledOff' => ~location',
           stopped' \in BOOLEAN, handler' \in BOOLEAN, cancelling' \in BOOLEAN,
           cancel' \in CancelSteps,
           UNCHANGED <<offset, retries, addressed, final, serverVars>>,
           UNCHANGED <<finishing, result, observers, blocks, told>>
    PROVE  Inv'
<1>1. UNCHANGED <<session, received, intact>>
  BY DEF serverVars
<1>2. TypeOK'
  <2>1. strays' \subseteq 0..FullLength
    BY DEF Inv, TypeOK
  <2>2. reply' \in Reply /\ at' \in States /\ wire' \in {"none", "request", "reply"}
    BY NoReplyIsReply DEF Inv, TypeOK, States
  <2>3. QED
    BY <1>1, <2>1, <2>2 DEF Inv, TypeOK
<1>3. OffsetsArePassed'
  BY <1>1 DEF Inv, OffsetsArePassed
<1>4. RepliesAreTrue'
  <2>1. received \in Nat
    BY UploadAssumption DEF Inv, TypeOK
  <2>2. ChunkAt(offset)' = ChunkAt(offset)
    BY DEF ChunkAt, Rounded, IsFinalChunk, AllowedSize
  <2>3. QED
    BY <1>1, <2>1, <2>2 DEF Inv, RepliesAreTrue, NoReply
<1>5. FinalIsWhole' /\ RetriesCounted' /\ PrefixIsIntact'
  BY <1>1 DEF Inv, FinalIsWhole, RetriesCounted, PrefixIsIntact
<1>6. AddressForgotten'
  BY DEF Inv, AddressForgotten, CalledOff
<1>7. OutcomeIsTrue'
  BY <1>1 DEF Inv, OutcomeIsTrue, Stored
<1>8. QED
  BY <1>2, <1>3, <1>4, <1>5, <1>6, <1>7 DEF Inv

LEMMA CancelKeeps ==
    ASSUME Inv, CancelDestroys \/ CancelForgets \/ CancelStops
    PROVE  Inv'
<1>1. location \in BOOLEAN /\ stopped \in BOOLEAN /\ handler \in BOOLEAN
      /\ cancelling \in BOOLEAN /\ cancel' \in CancelSteps
  BY DEF Inv, TypeOK, CancelSteps, CancelDestroys, CancelForgets, CancelStops
<1>2. CalledOff => ~location
  BY DEF Inv, AddressForgotten, CalledOff
<1>3. CASE CancelDestroys
  <2>1. /\ UNCHANGED <<finishing, result, observers, blocks, told>>
        /\ UNCHANGED <<offset, retries, handler, location, addressed, stopped, final>>
        /\ UNCHANGED <<cancelling, serverVars>>
    BY <1>3 DEF CancelDestroys, DestroyChunkFetcher
  <2>2. \/ at' = "done" /\ wire' = "none" /\ reply' = NoReply
        \/ UNCHANGED <<at, wire, reply>>
    BY <1>3 DEF CancelDestroys, DestroyChunkFetcher
  <2>3. strays' = strays \/ (at = "chunk" /\ strays' = strays \cup {offset})
    BY <1>3 DEF CancelDestroys, DestroyChunkFetcher, Abandon
  <2>4. CalledOff' = CalledOff
    BY <2>1 DEF CalledOff, serverVars
  <2>5. QED
    BY <1>1, <1>2, <2>1, <2>2, <2>3, <2>4, StopMovesOn
<1>4. CASE CancelForgets
  <2>1. /\ cancel = "destroyed" /\ cancelling' = location /\ location' = FALSE
        /\ UNCHANGED <<at, offset, retries, handler, addressed, stopped, final, wire,
                       reply, strays, serverVars>>
        /\ UNCHANGED <<finishing, result, observers, blocks, told>>
    BY <1>4 DEF CancelForgets, CancelUpload
  <2>2. CalledOff' => CalledOff \/ location
    BY <2>1 DEF CalledOff, serverVars
  <2>3. QED
    BY <1>1, <2>1, <2>2, StopMovesOn
<1>5. CASE CancelStops
  <2>1. /\ cancel = "forgotten" /\ stopped' = TRUE /\ handler' = FALSE
        /\ UNCHANGED <<offset, retries, location, addressed, final, strays>>
        /\ UNCHANGED <<cancelling, serverVars>>
        /\ UNCHANGED <<finishing, result, observers, blocks, told>>
    BY <1>5 DEF CancelStops, StopFirstRequest
  <2>2. \/ at' = "done" /\ wire' = "none" /\ reply' = NoReply
        \/ UNCHANGED <<at, wire, reply>>
    BY <1>5 DEF CancelStops, StopFirstRequest
  <2>3. CalledOff' = CalledOff
    BY <2>1 DEF CalledOff, serverVars
  <2>4. QED
    BY <1>1, <1>2, <2>1, <2>2, <2>3, StopMovesOn
<1>6. QED
  BY <1>3, <1>4, <1>5

\* A handler is put on the queue with the outcome, or there is none.
LEMMA Fired ==
    ASSUME Inv, NEW r \in Results, Fire(r), r = "ok" => Stored
    PROVE  /\ blocks' \in Seq(Results)
           /\ \A i \in 1..Len(blocks') : blocks'[i] = "ok" => Stored
BY DEF Fire, Inv, TypeOK, OutcomeIsTrue

\* The steps of the task that touch neither the fetcher nor the server.
LEMMA TaskMovesOn ==
    ASSUME Inv, UNCHANGED fetcherVars,
           cancel' \in CancelSteps,
           finishing' \in {"no", "fire", "remove", "done"},
           result' = result, observers' \in BOOLEAN,
           blocks' \in Seq(Results), told' \in Seq(Results),
           finishing' = "fire" => finishing = "fire",
           \A i \in 1..Len(blocks') : blocks'[i] = "ok" => Stored
    PROVE  Inv'
<1>1. UNCHANGED << at, offset, retries, handler, location, addressed, stopped, final,
                   session, received, intact, wire, reply, strays, cancelling >>
  BY DEF fetcherVars, clientVars, serverVars
<1>2. TypeOK'
  BY <1>1 DEF Inv, TypeOK
<1>3. Stored' = Stored
  BY <1>1 DEF Stored
<1>4. OutcomeIsTrue'
  BY <1>1, <1>3 DEF Inv, OutcomeIsTrue
<1>5. ChunkAt(offset)' = ChunkAt(offset)
  BY <1>1 DEF ChunkAt, Rounded, IsFinalChunk, AllowedSize
<1>6. QED
  BY <1>1, <1>2, <1>4, <1>5
     DEF Inv, OffsetsArePassed, RepliesAreTrue, FinalIsWhole, RetriesCounted,
         AddressForgotten, CalledOff, PrefixIsIntact

LEMMA FetchCompletesKeeps ==
    ASSUME Inv, FetchCompletes
    PROVE  Inv'
<1>1. final \in Results /\ (final = "ok" => Stored)
  BY DEF FetchCompletes, Inv, TypeOK, OutcomeIsTrue
<1>2. /\ finishing' = "fire" /\ result' = final /\ final' = "none"
      /\ UNCHANGED <<at, offset, retries, handler, location, addressed, stopped>>
      /\ UNCHANGED <<session, received, intact, wire, reply, strays, cancelling>>
      /\ UNCHANGED <<cancel, observers, blocks, told>>
  BY DEF FetchCompletes, serverVars
<1>3. TypeOK'
  BY <1>1, <1>2 DEF Inv, TypeOK
<1>4. Stored' = Stored
  BY <1>2 DEF Stored
<1>5. OutcomeIsTrue'
  BY <1>1, <1>2, <1>4 DEF Inv, OutcomeIsTrue
<1>6. ChunkAt(offset)' = ChunkAt(offset)
  BY <1>2 DEF ChunkAt, Rounded, IsFinalChunk, AllowedSize
<1>7. QED
  BY <1>2, <1>3, <1>5, <1>6
     DEF Inv, OffsetsArePassed, RepliesAreTrue, FinalIsWhole, RetriesCounted,
         AddressForgotten, CalledOff, PrefixIsIntact

LEMMA TaskKeeps ==
    ASSUME Inv, CancelFires \/ FinishFires \/ FinishRemoves \/ RunHandler
    PROVE  Inv'
<1>1. TypeOK /\ OutcomeIsTrue
  BY DEF Inv
<1>2. CASE CancelFires
  <2>1. /\ cancel' = "fired" /\ Fire("error")
        /\ UNCHANGED fetcherVars /\ UNCHANGED <<finishing, result, observers, told>>
    BY <1>2 DEF CancelFires
  <2>2. /\ blocks' \in Seq(Results)
        /\ \A i \in 1..Len(blocks') : blocks'[i] = "ok" => Stored
    BY <2>1, Fired DEF Results
  <2>3. cancel' \in CancelSteps
    BY <2>1 DEF CancelSteps
  <2>4. QED
    BY <1>1, <2>1, <2>2, <2>3, TaskMovesOn DEF TypeOK
<1>3. CASE FinishFires
  <2>1. /\ finishing = "fire" /\ finishing' = "remove" /\ Fire(result)
        /\ UNCHANGED fetcherVars /\ UNCHANGED <<cancel, result, observers, told>>
    BY <1>3 DEF FinishFires
  <2>2. result \in Results /\ (result = "ok" => Stored)
    BY <1>1, <2>1 DEF OutcomeIsTrue
  <2>3. /\ blocks' \in Seq(Results)
        /\ \A i \in 1..Len(blocks') : blocks'[i] = "ok" => Stored
    BY <2>1, <2>2, Fired
  <2>4. QED
    BY <1>1, <2>1, <2>3, TaskMovesOn DEF TypeOK
<1>4. CASE FinishRemoves
  BY <1>1, <1>4, TaskMovesOn DEF FinishRemoves, TypeOK, OutcomeIsTrue
<1>5. CASE RunHandler
  <2>1. /\ blocks # <<>> /\ blocks' = Tail(blocks)
        /\ told' = IF told = <<>> THEN <<Head(blocks)>> ELSE told
        /\ UNCHANGED fetcherVars /\ UNCHANGED <<cancel, finishing, result, observers>>
    BY <1>5 DEF RunHandler
  <2>2. blocks' \in Seq(Results) /\ told' \in Seq(Results)
    BY <1>1, <2>1 DEF TypeOK
  <2>3. \A i \in 1..Len(blocks') : blocks'[i] = "ok" => Stored
    BY <1>1, <2>1 DEF TypeOK, OutcomeIsTrue
  <2>4. QED
    BY <1>1, <2>1, <2>2, <2>3, TaskMovesOn DEF TypeOK
<1>6. QED
  BY <1>2, <1>3, <1>4, <1>5

-----------------------------------------------------------------------------
LEMMA InitEstablishesInv == Init => Inv
<1> SUFFICES ASSUME Init
             PROVE  Inv
  OBVIOUS
<1>1. TypeOK
  <2>1. /\ reply \in Reply /\ offset \in 0..FullLength /\ received \in 0..FullLength
        /\ retries \in 0..MaxRetries /\ strays \in SUBSET (0..FullLength)
    BY NoReplyIsReply, UploadAssumption DEF Init, FetcherInit
  <2>2. blocks \in Seq(Results) /\ told \in Seq(Results)
    BY DEF Init
  <2>3. /\ handler \in BOOLEAN /\ location \in BOOLEAN /\ stopped \in BOOLEAN
        /\ cancelling \in BOOLEAN /\ intact \in BOOLEAN /\ observers \in BOOLEAN
        /\ addressed \in BOOLEAN /\ cancel \in CancelSteps
    BY DEF Init, FetcherInit, CancelSteps
  <2>4. /\ at \in States /\ wire = "none" /\ final = "none" /\ session = "none"
        /\ cancel = "no" /\ finishing = "no" /\ result = "none"
    BY DEF Init, FetcherInit, States
  <2>5. QED
    BY <2>1, <2>2, <2>3, <2>4 DEF TypeOK
<1>2. OffsetsArePassed /\ FinalIsWhole /\ RetriesCounted /\ AddressForgotten
  BY UploadAssumption
     DEF Init, FetcherInit, OffsetsArePassed, FinalIsWhole, RetriesCounted,
         AddressForgotten, CalledOff
<1>3. RepliesAreTrue
  BY UploadAssumption DEF Init, FetcherInit, RepliesAreTrue, NoReply
<1>4. PrefixIsIntact /\ OutcomeIsTrue
  BY DEF Init, FetcherInit, PrefixIsIntact, OutcomeIsTrue
<1>5. QED
  BY <1>1, <1>2, <1>3, <1>4 DEF Inv

LEMMA NextKeepsInv == Inv /\ [Next]_vars => Inv'
<1> SUFFICES ASSUME Inv, [Next]_vars
             PROVE  Inv'
  OBVIOUS
<1>1. CASE Enqueue
  BY <1>1, EnqueueKeeps
<1>2. CASE CancelDestroys \/ CancelForgets \/ CancelStops
  BY <1>2, CancelKeeps
<1>3. CASE FetchCompletes
  BY <1>3, FetchCompletesKeeps
<1>4. CASE CancelFires \/ FinishFires \/ FinishRemoves \/ RunHandler
  BY <1>4, TaskKeeps
<1>5. CASE FetcherStep /\ UNCHANGED taskVars
  BY <1>5, FetcherKeeps
<1>6. CASE ServerStep /\ UNCHANGED taskVars
  BY <1>6, ServerKeeps
<1>7. CASE UNCHANGED vars
  <2>1. UNCHANGED fetcherVars
        /\ UNCHANGED <<cancel, finishing, result, observers, blocks, told>>
    BY <1>7 DEF vars, taskVars
  <2>2. QED
    BY <2>1, TaskMovesOn DEF Inv, TypeOK, OutcomeIsTrue
<1>8. QED
  BY <1>1, <1>2, <1>3, <1>4, <1>5, <1>6, <1>7 DEF Next

LEMMA InvHolds == Spec => []Inv
BY InitEstablishesInv, NextKeepsInv, PTL DEF Spec

\* Every variable keeps the values its field may have: an offset never leaves
\* the picture, nor does the server receive more bytes than there are.
THEOREM TypeCorrect == Spec => []TypeOK
<1>1. Inv => TypeOK
  BY DEF Inv
<1>2. QED
  BY <1>1, InvHolds, PTL

\* The bucket never holds a byte out of its place, although the headers of a
\* chunk and its bytes may start at different offsets, and chunks given up
\* arrive late: a chunk the server takes starts where it was announced.
THEOREM PrefixAlwaysIntact == Spec => []PrefixIsIntact
<1>1. Inv => PrefixIsIntact
  BY DEF Inv
<1>2. QED
  BY <1>1, InvHolds, PTL

-----------------------------------------------------------------------------
(* Cancellation.                                                           *)

\* Once the server has been told that the upload is called off, only the chunk
\* whose request was made before is still sent: the address is forgotten, and
\* nothing that runs on can learn it again.
THEOREM CancelledForGood == Spec => OneChunkAfterCancel
<1>1. Inv /\ [Next]_vars =>
        [CalledOff /\ ~addressed
           => ~addressed' /\ (at' = "chunk" => at = "chunk")]_vars
  <2> SUFFICES ASSUME Inv, Next, CalledOff, ~addressed
               PROVE  ~addressed' /\ (at' = "chunk" => at = "chunk")
    OBVIOUS
  <2>1. ~location /\ at \notin {"idle", "start", "wait"}
    BY DEF Inv, AddressForgotten, CalledOff
  <2>2. CASE Enqueue
    BY <2>2 DEF Enqueue, BeginFetch, Send
  <2>3. CASE CancelDestroys \/ CancelForgets \/ CancelStops
    BY <2>3
       DEF CancelDestroys, CancelForgets, CancelStops, DestroyChunkFetcher,
           CancelUpload, StopFirstRequest
  <2>4. CASE CancelFires \/ FetchCompletes \/ FinishFires \/ FinishRemoves \/ RunHandler
    BY <2>4
       DEF CancelFires, FetchCompletes, FinishFires, FinishRemoves, RunHandler,
           fetcherVars, clientVars
  <2>5. CASE FetcherStep /\ UNCHANGED taskVars
    BY <2>1, <2>5
       DEF FetcherStep, StartRetried, RetryTimerFired, StartFailed,
           BeginChunkFetches, BeginChunkFetcher, ChunkRetried, ChunkFailed,
           ChunkAnswered, QueryFailed, QueryAnswered, DropFinal, Send, Finish,
           Prepare, Query
  <2>6. CASE ServerStep /\ UNCHANGED taskVars
    <3>1. UNCHANGED <<at, addressed>>
      BY <2>6
         DEF ServerStep, ServerCancels, ServerStarts, ServerAnswersQuery,
             ServerReceivesChunk, ServerReceivesPart, Lose, StrayArrives, clientVars
    <3>2. QED
      BY <3>1
  <2>7. QED
    BY <2>2, <2>3, <2>4, <2>5, <2>6 DEF Next
<1>2. QED
  BY <1>1, InvHolds, PTL DEF Spec, OneChunkAfterCancel

-----------------------------------------------------------------------------
(* The call.                                                               *)

\* Only the server changes what is stored, and it never takes it back.
LEMMA StoredStays ==
    ASSUME Inv, Next
    PROVE  Stored => Stored'
<1>1. CASE UNCHANGED serverVars
  BY <1>1 DEF Stored, serverVars
<1>2. CASE ServerStarts
  BY <1>2 DEF ServerStarts, Inv, FinalIsWhole, Stored
<1>3. CASE ServerCancels
  BY <1>3 DEF ServerCancels, Stored
<1>4. CASE \E c : TakesWhole(c) \/ TakesPart(c)
  BY <1>4 DEF TakesWhole, TakesPart, Takes, Stored
<1>5. QED
  BY <1>1, <1>2, <1>3, <1>4
     DEF Next, Enqueue, BeginFetch, CancelDestroys, DestroyChunkFetcher, CancelForgets,
         CancelUpload, CancelStops, StopFirstRequest, CancelFires,
         FetchCompletes, FinishFires, FinishRemoves, RunHandler, fetcherVars,
         FetcherStep, StartRetried, RetryTimerFired, StartFailed,
         BeginChunkFetches, BeginChunkFetcher, ChunkRetried, ChunkFailed,
         ChunkAnswered, QueryFailed, QueryAnswered, DropFinal, Finish, Prepare,
         Query, ServerStep, ServerAnswersQuery, ServerReceivesChunk,
         ServerReceivesPart, Lose, StrayArrives, Refuses

\* Only RunHandler calls the completion.
LEMMA ToldByHandler ==
    ASSUME Next
    PROVE  RunHandler \/ UNCHANGED told
BY DEF Next, Enqueue, CancelDestroys, CancelForgets, CancelStops, CancelFires, FetchCompletes, FinishFires,
       FinishRemoves, taskVars

LEMMA HandlerTells ==
    ASSUME Inv, RunHandler
    PROVE  Stored' = Stored /\
           (UNCHANGED told \/ \E r \in Results : Call!Tell(r))
<1>1. Stored' = Stored
  BY DEF RunHandler, fetcherVars, serverVars, Stored
<1>2. Head(blocks) \in Results /\ (Head(blocks) = "ok" => Stored)
  BY DEF RunHandler, Inv, TypeOK, OutcomeIsTrue
<1>3. CASE told = <<>>
  BY <1>1, <1>2, <1>3 DEF RunHandler, Call!Tell
<1>4. CASE told # <<>>
  BY <1>1, <1>4 DEF RunHandler
<1>5. QED
  BY <1>1, <1>3, <1>4

\* The completion of putData is called at most once, and with success only for
\* a picture the bucket holds whole, however cancel, the end of the fetch and
\* the handlers interleave.
THEOREM CallKept == Spec => CallIsKept
<1>1. Init => Call!Init
  BY DEF Init, FetcherInit, Call!Init, Stored
<1>2. Inv /\ [Next]_vars => [Call!Next]_Call!vars
  <2> SUFFICES ASSUME Inv, [Next]_vars
               PROVE  [Call!Next]_Call!vars
    OBVIOUS
  <2>1. CASE UNCHANGED vars
    BY <2>1 DEF vars, fetcherVars, serverVars, taskVars, Stored, Call!vars
  <2>2. CASE Next /\ UNCHANGED told
    <3>1. CASE Stored' = Stored
      BY <2>2, <3>1 DEF Call!vars
    <3>2. CASE Stored' # Stored
      <4>1. Stored' = TRUE
        BY <2>2, <3>2, StoredStays DEF Stored
      <4>2. QED
        BY <2>2, <4>1 DEF Call!Next, Call!Store
    <3>3. QED
      BY <3>1, <3>2
  <2>3. CASE RunHandler
    BY <2>3, HandlerTells DEF Call!Next, Call!vars, Results
  <2>4. QED
    BY <2>1, <2>2, <2>3, ToldByHandler
<1>3. QED
  BY <1>1, <1>2, InvHolds, PTL DEF Spec, CallIsKept, Call!Spec

-----------------------------------------------------------------------------
(* The completion is not forgotten.                                        *)

\* The completion was called, or a handler that calls it is on the queue.
Queued == told # <<>> \/ blocks # <<>>

\* The fetcher holds the handler until it ends, and then leaves the final
\* callback to the task, unless it is being stopped.
HandlerHeld ==
    cancel = "no" =>
        /\ at \notin {"idle", "done"} => handler
        /\ at = "done" => final # "none" \/ finishing # "no"

\* Whoever fires the handlers has done it before he is done, and before the
\* observers are removed.
HandlersFired ==
    /\ stopped => cancel # "no"
    /\ cancel = "fired" => Queued
    /\ finishing \in {"remove", "done"} => Queued
    /\ ~ observers => Queued

Due == HandlerHeld /\ HandlersFired

\* A step of the fetcher that holds the handler and goes on, or ends.
LEMMA FetcherStaysDue ==
    ASSUME Due, UNCHANGED <<stopped, taskVars>>,
           \/ handler' = handler /\ at' \notin {"idle", "done"} /\ at \notin {"idle", "done"}
           \/ \E r \in Results, f \in BOOLEAN : Finish(r, f) /\ at \notin {"idle", "done"}
           \/ UNCHANGED <<at, handler, final>>
           \/ stopped
    PROVE  Due'
<1>1. HandlersFired'
  BY DEF Due, HandlersFired, Queued, taskVars
<1>2. CASE handler' = handler /\ at' \notin {"idle", "done"} /\ at \notin {"idle", "done"}
  BY <1>1, <1>2 DEF Due, HandlerHeld, taskVars
<1>3. CASE \E r \in Results, f \in BOOLEAN : Finish(r, f) /\ at \notin {"idle", "done"}
  BY <1>1, <1>3 DEF Due, HandlerHeld, Finish, Results, taskVars
<1>4. CASE UNCHANGED <<at, handler, final>>
  BY <1>1, <1>4 DEF Due, HandlerHeld, taskVars
<1>5. CASE stopped
  BY <1>1, <1>5 DEF Due, HandlerHeld, HandlersFired, taskVars
<1>6. QED
  BY <1>2, <1>3, <1>4, <1>5

LEMMA FetcherKeepsDue ==
    ASSUME Due, FetcherStep, UNCHANGED taskVars
    PROVE  Due'
<1>1. stopped' = stopped
  BY DEF FetcherStep, StartRetried, RetryTimerFired, StartFailed, BeginChunkFetches,
         BeginChunkFetcher, ChunkRetried, ChunkFailed, ChunkAnswered, QueryFailed,
         QueryAnswered, DropFinal, Finish, Prepare, Query
<1>2. CASE DropFinal
  BY <1>1, <1>2, FetcherStaysDue DEF DropFinal
<1>3. CASE \E r \in Results, f \in BOOLEAN : Finish(r, f) /\ at \notin {"idle", "done"}
  BY <1>1, <1>3, FetcherStaysDue
<1>4. CASE handler' = handler /\ at' \notin {"idle", "done"} /\ at \notin {"idle", "done"}
  BY <1>1, <1>4, FetcherStaysDue
<1>5. CASE StartRetried \/ RetryTimerFired \/ StartFailed \/ BeginChunkFetches
  BY <1>3, <1>4, <1>5
     DEF StartRetried, RetryTimerFired, StartFailed, BeginChunkFetches, Send, Prepare, Results
<1>6. CASE BeginChunkFetcher
  <2>1. (RangeInvalid(ChunkAt(offset))) \in BOOLEAN
    BY DEF RangeInvalid
  <2>2. QED
    BY <1>3, <1>4, <1>6, <2>1 DEF BeginChunkFetcher, Send, Results
<1>7. CASE ChunkRetried \/ ChunkFailed \/ ChunkAnswered
  BY <1>3, <1>4, <1>7
     DEF ChunkRetried, ChunkFailed, ChunkAnswered, Query, Send, Prepare, Results
<1>8. CASE QueryFailed \/ QueryAnswered
  BY <1>3, <1>4, <1>8 DEF QueryFailed, QueryAnswered, Prepare, Results
<1>9. QED
  BY <1>2, <1>5, <1>6, <1>7, <1>8 DEF FetcherStep

\* The server answers; it holds no handler.
LEMMA ServerKeepsDue ==
    ASSUME Due, ServerStep, UNCHANGED taskVars
    PROVE  Due'
<1>1. UNCHANGED <<at, handler, final, stopped>>
  BY DEF ServerStep, ServerCancels, ServerStarts, ServerAnswersQuery, ServerReceivesChunk,
         ServerReceivesPart, Lose, StrayArrives, clientVars
<1>2. QED
  BY <1>1, FetcherStaysDue

LEMMA TaskKeepsDue ==
    ASSUME Inv, Due,
           Enqueue \/ CancelDestroys \/ CancelForgets \/ CancelStops \/ CancelFires
               \/ FetchCompletes \/ FinishFires \/ FinishRemoves \/ RunHandler
    PROVE  Due'
<1>1. TypeOK
  BY DEF Inv
<1>2. CASE Enqueue
  BY <1>2 DEF Enqueue, BeginFetch, Send, Due, HandlerHeld, HandlersFired, Queued, taskVars
<1>3. CASE CancelDestroys \/ CancelForgets \/ CancelStops
  BY <1>3
     DEF CancelDestroys, CancelForgets, CancelStops, DestroyChunkFetcher, CancelUpload,
         StopFirstRequest, Due, HandlerHeld, HandlersFired, Queued
<1>4. ASSUME Fire("error") \/ Fire(result), Queued \/ observers
      PROVE  blocks' # <<>> \/ Queued
  BY <1>1, <1>4 DEF TypeOK, Fire, Queued
<1>5. CASE CancelFires
  <2>1. Queued'
    BY <1>4, <1>5 DEF CancelFires, Due, HandlersFired, Queued, Fire
  <2>2. QED
    BY <1>5, <2>1 DEF CancelFires, Due, HandlerHeld, HandlersFired, fetcherVars, clientVars
<1>6. CASE FinishFires
  <2>1. Queued'
    BY <1>4, <1>6 DEF FinishFires, Due, HandlersFired, Queued, Fire
  <2>2. QED
    BY <1>6, <2>1 DEF FinishFires, Due, HandlerHeld, HandlersFired, fetcherVars, clientVars
<1>7. CASE FetchCompletes
  BY <1>7 DEF FetchCompletes, Due, HandlerHeld, HandlersFired, Queued
<1>8. CASE FinishRemoves
  BY <1>8 DEF FinishRemoves, Due, HandlerHeld, HandlersFired, Queued, fetcherVars, clientVars
<1>9. CASE RunHandler
  <2>1. told' # <<>>
    BY <1>9 DEF RunHandler
  <2>2. QED
    BY <1>9, <2>1 DEF RunHandler, Due, HandlerHeld, HandlersFired, Queued, fetcherVars, clientVars
<1>10. QED
  BY <1>2, <1>3, <1>5, <1>6, <1>7, <1>8, <1>9

\* Until the completion is called, something is left that will call it,
\* whatever requests are lost and whenever the upload is cancelled.
THEOREM CompletionAlwaysDue == Spec => []CompletionIsDue
<1>1. Init => Due
  BY DEF Init, FetcherInit, Due, HandlerHeld, HandlersFired, Queued
<1>2. Inv /\ Due /\ [Next]_vars => Due'
  <2> SUFFICES ASSUME Inv, Due, [Next]_vars
               PROVE  Due'
    OBVIOUS
  <2>1. CASE UNCHANGED vars
    BY <2>1 DEF vars, fetcherVars, clientVars, taskVars, Due, HandlerHeld, HandlersFired, Queued
  <2>2. QED
    BY <2>1, FetcherKeepsDue, ServerKeepsDue, TaskKeepsDue DEF Next
<1>3. Inv /\ Due => CompletionIsDue
  BY DEF Inv, TypeOK, States, CancelSteps, Due, HandlerHeld, HandlersFired, Queued,
         CompletionIsDue
<1>4. QED
  BY <1>1, <1>2, <1>3, InvHolds, PTL DEF Spec
=============================================================================
