---------------------------- MODULE StorageUpload ----------------------------
(***************************************************************************)
(* FIRStorageReference.putData:metadata:completion:, by which an item's    *)
(* picture is put into the bucket: the upload task, its observers and the  *)
(* completion, around the fetcher of UploadFetcher.                        *)
(*                                                                         *)
(* The task begins and is cancelled on the storage queue; the end of the   *)
(* fetch, the handlers and the completion run on the main queue.  The two  *)
(* queues interleave: between the moment a fetch has ended well and the    *)
(* removal of the observers, cancel may fire the failure handlers too, and *)
(* only the flag in putData keeps the completion from being called twice.  *)
(***************************************************************************)
EXTENDS UploadFetcher, Sequences

VARIABLES
    cancel,     \* how far cancel has come on the storage queue
    finishing,  \* how far the end of the fetch has come on the main queue
    result,     \* what the fetch ended with
    observers,  \* are the observers of putData still registered?
    blocks,     \* handlers on the main queue, each with its outcome
    told        \* what the completion was given, in order

taskVars == <<cancel, finishing, result, observers, blocks, told>>
vars == <<fetcherVars, taskVars>>

Results == {"ok", "error"}

CancelSteps == {"no", "destroyed", "forgotten", "stopped", "fired"}

Init ==
    /\ FetcherInit
    /\ cancel = "no"
    /\ finishing = "no"
    /\ result = "none"
    /\ observers = TRUE
    /\ blocks = <<>>
    /\ told = <<>>

-----------------------------------------------------------------------------
\* fireHandlersForStatus: copies the handlers that are registered now and puts
\* them on the main queue.
Fire(r) == blocks' = IF observers THEN Append(blocks, r) ELSE blocks

\* enqueue, on the storage queue.
Enqueue ==
    /\ BeginFetch
    /\ UNCHANGED <<cancelling, taskVars>>

\* cancel: the fetch is stopped, step by step, then the failure handlers are
\* fired; the observers stay.
CancelDestroys ==
    /\ at # "idle"
    /\ cancel = "no"
    /\ DestroyChunkFetcher
    /\ cancel' = "destroyed"
    /\ UNCHANGED <<finishing, result, observers, blocks, told>>

CancelForgets ==
    /\ cancel = "destroyed"
    /\ CancelUpload
    /\ cancel' = "forgotten"
    /\ UNCHANGED <<finishing, result, observers, blocks, told>>

CancelStops ==
    /\ cancel = "forgotten"
    /\ StopFirstRequest
    /\ cancel' = "stopped"
    /\ UNCHANGED <<finishing, result, observers, blocks, told>>

CancelFires ==
    /\ cancel = "stopped"
    /\ cancel' = "fired"
    /\ Fire("error")
    /\ UNCHANGED <<fetcherVars, finishing, result, observers, told>>

\* The final callback of the fetcher, unless it was stopped; the completion the
\* task gave it runs once.
FetchCompletes ==
    /\ final # "none"
    /\ ~stopped
    /\ finishing = "no"
    /\ finishing' = "fire"
    /\ result' = final
    /\ final' = "none"
    /\ UNCHANGED <<at, offset, retries, handler, location, addressed, stopped,
                   serverVars, wire, reply, strays, cancelling>>
    /\ UNCHANGED <<cancel, observers, blocks, told>>

\* finishTaskWithStatus: fires the handlers,
FinishFires ==
    /\ finishing = "fire"
    /\ finishing' = "remove"
    /\ Fire(result)
    /\ UNCHANGED <<fetcherVars, cancel, result, observers, told>>

\* Variant for the runs: the observers are removed first.
FinishRemovesFirst ==
    /\ finishing \in {"fire", "remove"}
    /\ finishing' = "done"
    /\ observers' = FALSE
    /\ UNCHANGED <<fetcherVars, cancel, result, blocks, told>>

\* and removes the observers.
FinishRemoves ==
    /\ finishing = "remove"
    /\ finishing' = "done"
    /\ observers' = FALSE
    /\ UNCHANGED <<fetcherVars, cancel, result, blocks, told>>

\* Variant for the runs: putData does not remember that it called the completion.
RunEveryHandler ==
    /\ finishing \notin {"fire", "remove"}
    /\ blocks # <<>>
    /\ blocks' = Tail(blocks)
    /\ told' = Append(told, Head(blocks))
    /\ UNCHANGED <<fetcherVars, cancel, finishing, result, observers>>

\* A handler calls the completion, unless it has been called.
RunHandler ==
    /\ finishing \notin {"fire", "remove"}
    /\ blocks # <<>>
    /\ blocks' = Tail(blocks)
    /\ told' = IF told = <<>> THEN <<Head(blocks)>> ELSE told
    /\ UNCHANGED <<fetcherVars, cancel, finishing, result, observers>>

Next ==
    \/ Enqueue
    \/ CancelDestroys \/ CancelForgets \/ CancelStops \/ CancelFires
    \/ FetchCompletes \/ FinishFires \/ FinishRemoves \/ RunHandler
    \/ (FetcherStep \/ ServerStep) /\ UNCHANGED taskVars

\* The queues run what is put on them, requests are answered or time out, and a
\* request sent again and again is received some time.  Nothing makes the
\* network lose a request, nor the screen cancel.
Fairness ==
    /\ WF_vars(Enqueue)
    /\ WF_vars(CancelForgets \/ CancelStops \/ CancelFires)
    /\ WF_vars(FetchCompletes \/ FinishFires \/ FinishRemoves \/ RunHandler)
    /\ WF_vars(FetcherStep /\ UNCHANGED taskVars)
    /\ SF_vars(ServerReceivesChunk /\ UNCHANGED <<cancelling, taskVars>>)

Spec == Init /\ [][Next]_vars

FairSpec == Spec /\ Fairness

-----------------------------------------------------------------------------
\* The values of the fields of the fetcher, of the server and of the task.
TypeOK ==
    /\ at \in States
    /\ offset \in 0..FullLength
    /\ retries \in 0..MaxRetries
    /\ wire \in {"none", "request", "reply"}
    /\ reply \in Reply
    /\ handler \in BOOLEAN
    /\ location \in BOOLEAN
    /\ addressed \in BOOLEAN
    /\ stopped \in BOOLEAN
    /\ cancelling \in BOOLEAN
    /\ final \in Results \cup {"none"}
    /\ strays \in SUBSET (0..FullLength)
    /\ session \in {"none", "active", "final", "cancelled"}
    /\ received \in 0..FullLength
    /\ intact \in BOOLEAN
    /\ cancel \in CancelSteps
    /\ finishing \in {"no", "fire", "remove", "done"}
    /\ result \in Results \cup {"none"}
    /\ observers \in BOOLEAN
    /\ blocks \in Seq(Results)
    /\ told \in Seq(Results)

\* What the server holds is a prefix of the picture, every byte in its place,
\* although chunks are resent, cut, and overtaken by ones given up long ago
\* (uploadNextChunkWithOffset, queryFetcher:finishedWithData:error:).
PrefixIsIntact == intact

\* The bucket holds the whole picture.
Stored == session = "final" /\ received = FullLength /\ intact

Call == INSTANCE UploadCall WITH stored <- Stored, told <- told

\* The completion is called once, and "ok" only of a picture stored whole
\* (putData:metadata:completion:, finishTaskWithStatus, cancel).
CallIsKept == Call!Spec

\* The server has been told that there will be no more bytes, or is being told.
CalledOff == cancelling \/ session = "cancelled"

\* An upload that was called off sends at most the chunk whose request had been
\* made by then: no other begins, and none is prepared with the address,
\* although the callbacks of that chunk and of a query in flight go on with the
\* upload (stopFetching, uploadNextChunkWithOffset, beginChunkFetcher).
OneChunkAfterCancel ==
    [][ CalledOff /\ ~addressed
          => ~addressed' /\ (at' = "chunk" => at = "chunk") ]_vars

\* Until the completion is called something is left that will call it, so that
\* the form is never left without an answer: the fetch with the handler it
\* holds, its final callback, which a stop drops, the task that fires the
\* handlers, cancel, which fires them too, or a handler on the main queue
\* (invokeFinalCallbackWithData, stopFetching, finishTaskWithStatus, cancel).
CompletionIsDue ==
    told = <<>> =>
        \/ cancel = "no" /\ (at = "idle" \/ (at # "done" /\ handler) \/ final # "none")
        \/ finishing = "fire"
        \/ cancel \in {"destroyed", "forgotten", "stopped"}
        \/ blocks # <<>>

\* The server stands where this fetcher can begin no chunk: it has every byte
\* but is not final, or it is between two multiples of the granularity.
Stuck ==
    /\ session = "active"
    /\ received = FullLength \/ received % Granularity # 0

\* The screen is told in the end, unless the server stays where the fetcher
\* cannot go on (chunkFetcher:finishedWithData:error:, cancel,
\* finishTaskWithStatus).
ToldInTheEnd == <>(told # <<>>) \/ <>[]Stuck

\* An answer that every byte was received ends the upload: "Handle we're done"
\* (queryFetcher:finishedWithData:error:).
AllReceivedIsDone ==
    [][ at = "query" /\ reply.received = FullLength /\ at' # "query"
          => at' = "done" ]_vars
=============================================================================
