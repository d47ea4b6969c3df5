------------------------------- MODULE WriteSync -------------------------------
(***************************************************************************)
(* How Firestore gets the app's writes to the backend: SyncEngine and      *)
(* LocalStore with the mutation queues on disk, RemoteStore with its write *)
(* pipeline, and WriteStream over Stream and GrpcStream.                   *)
(*                                                                         *)
(* All of it runs on the client's worker queue, one task at a time; a task *)
(* is one action.  The network and the backend move in between.  A stream  *)
(* that the client has closed delivers nothing more, and the backend has   *)
(* by then taken as much of what was sent on it as it ever will.           *)
(*                                                                         *)
(* External, modelled from how the code uses it: the backend, which takes  *)
(* the messages of a stream in order, answers each, and ends the stream    *)
(* with a permanent error when it refuses a write; and gRPC, which reports *)
(* a lost connection, delivers answers before the end of the stream, and   *)
(* fails a write that is still waiting when the stream ends.               *)
(***************************************************************************)
EXTENDS Integers, Sequences, FiniteSets, SequencesExt, FiniteSetsExt

CONSTANTS
  Users,              \* uids, and nobody
  kMaxPendingWrites,  \* the length of the pipeline; 10 in the code
  MaxWrites,          \* bound: writes made
  MaxFaults           \* bound: faults, restarts and changes of user

ASSUME WriteAssumption ==
  /\ Users # {}
  /\ kMaxPendingWrites \in Nat \ {0}
  /\ {MaxWrites, MaxFaults} \subseteq Nat

VARIABLES
  currentUser,   \* SyncEngine::current_user_
  mutations,     \* mutations[u]: u's mutation queue in LevelDB
  nextBatchId,   \* LevelDbMutationQueue::next_batch_id_
  callbacks,     \* SyncEngine::mutation_callbacks_: the batches that have one
  pipeline,      \* RemoteStore::write_pipeline_
  stream,        \* the WriteStream: see Stream
  written,       \* written[w]: who made write w
  committed,     \* the writes the backend has carried out
  latest,        \* latest[u]: the write of u that it carried out last
  refused,       \* the writes it has refused
  outcome,       \* outcome[w]: what the callback of write w has said
  faults         \* faults so far

clientVars  == <<currentUser, mutations, nextBatchId, callbacks, pipeline, written, outcome>>
backendVars == <<committed, latest, refused>>
vars == <<clientVars, backendVars, stream, faults>>

-----------------------------------------------------------------------------
(***************************************************************************)
(* Data.  A batch has the id the queue gave it and stands for one write.   *)
(***************************************************************************)
Batch == [id: Nat, write: Nat]

Handshake == [id |-> 0, write |-> 0]

Stream == [
  state: {"Initial", "Starting", "Open", "Error", "Backoff"},
  handshakeComplete: BOOLEAN,
  idle: BOOLEAN,             \* idleness_timer_ is running
  out: Seq(Batch),           \* requests the backend has not taken yet
  in: Seq(Batch),            \* responses not read yet, by what they answer
  end: {"no", "transient", "permanent"}]   \* the status the stream ended with

Closed(state) ==
  [state |-> state, handshakeComplete |-> FALSE, idle |-> FALSE,
   out |-> <<>>, in |-> <<>>, end |-> "no"]

IsOpen(s)    == s.state = "Open"
IsStarted(s) == s.state \in {"Starting", "Backoff", "Open"}

(* Stream::Write: whatever is sent cancels the idle timer.                 *)
Send(s, messages) ==
  IF messages = <<>> THEN s ELSE [s EXCEPT !.out = @ \o messages, !.idle = FALSE]

MarkIdle(s) == IF IsOpen(s) THEN [s EXCEPT !.idle = TRUE] ELSE s

(* Stream::Start: after an error the stream backs off first.               *)
StartStream(s) == [s EXCEPT !.state = IF @ = "Error" THEN "Backoff" ELSE "Starting"]

(* Where an iterator stands in queue q after seeking the key of this id:   *)
(* at the first batch that has it or a later one, or behind the last.      *)
Seek(q, id) ==
  CHOOSE i \in 1 .. Len(q) + 1 :
    /\ \A j \in 1 .. i - 1 : q[j].id < id
    /\ i <= Len(q) => q[i].id >= id

(* The batches of queue q behind the last one of pipeline p.               *)
NextMutationBatches(p, q) ==
  LET last == IF p = <<>> THEN -1 ELSE Last(p).id
  IN  SubSeq(q, Seek(q, last + 1), Len(q))

Ids(q) == {b.id : b \in ToSet(q)}

SlipLoadNextBatchId(qs) == 1 + Max({0} \cup Ids(qs[currentUser]))

(* LoadNextBatchIdFromDb looks at the queues of all users.                 *)
LoadNextBatchId(qs) == 1 + Max({0} \cup UNION {Ids(qs[u]) : u \in Users})

RemoveMutationBatch(q, id) == RemoveAt(q, Seek(q, id))

-----------------------------------------------------------------------------
SlipAdded(p, q) ==
  LET next == NextMutationBatches(p, q)
      room == kMaxPendingWrites - Len(p)
  IN  SubSeq(next, Len(next) - Min({Len(next), room}) + 1, Len(next))

(***************************************************************************)
(* RemoteStore::FillWritePipeline, with pipeline p, queue q and stream s.  *)
(***************************************************************************)
Added(p, q) ==
  LET next == NextMutationBatches(p, q)
      room == kMaxPendingWrites - Len(p)
  IN  SubSeq(next, 1, Min({Len(next), room}))

SlipFilledStream(p, q, s) ==
  LET sent == IF IsOpen(s) THEN Send(s, Added(p, q)) ELSE s
      full == p \o Added(p, q)
  IN  IF full = <<>> THEN MarkIdle(sent) ELSE IF IsStarted(sent) THEN sent ELSE StartStream(sent)

FilledStream(p, q, s) ==
  LET sent == IF IsOpen(s) /\ s.handshakeComplete THEN Send(s, Added(p, q)) ELSE s
      full == p \o Added(p, q)
  IN  CASE full = <<>>                    -> MarkIdle(sent)
        [] full # <<>> /\ IsStarted(sent) -> sent
        [] OTHER                          -> StartStream(sent)

FillWritePipeline(p, q, s) ==
  /\ pipeline' = p \o Added(p, q)
  /\ stream' = FilledStream(p, q, s)

(* SyncEngine::NotifyUser: the callback of this batch id, if there is one. *)
NotifyUser(id, result) ==
  LET called == {c \in callbacks[currentUser] : c.id = id}
  IN  /\ callbacks' = [callbacks EXCEPT ![currentUser] = @ \ called]
      /\ outcome' = [w \in DOMAIN outcome |->
                       IF \E c \in called : c.write = w THEN result ELSE outcome[w]]

Init ==
  /\ currentUser \in Users
  /\ mutations = [u \in Users |-> <<>>]
  /\ nextBatchId = 1
  /\ callbacks = [u \in Users |-> {}]
  /\ pipeline = <<>>
  /\ stream = Closed("Initial")
  /\ written = <<>> /\ outcome = <<>>
  /\ committed = {} /\ refused = {}
  /\ latest = [u \in Users |-> 0]
  /\ faults = 0

(* SyncEngine::WriteMutations.                                             *)
WriteMutations ==
  LET batch == [id |-> nextBatchId, write |-> Len(written) + 1]
      queue == Append(mutations[currentUser], batch)
  IN  /\ Len(written) < MaxWrites
      /\ mutations' = [mutations EXCEPT ![currentUser] = queue]
      /\ nextBatchId' = nextBatchId + 1
      /\ callbacks' = [callbacks EXCEPT ![currentUser] =
                         IF \E c \in @ : c.id = batch.id THEN @ ELSE @ \cup {batch}]
      /\ FillWritePipeline(pipeline, queue, stream)
      /\ written' = Append(written, currentUser)
      /\ outcome' = Append(outcome, "waiting")
      /\ UNCHANGED <<currentUser, backendVars, faults>>

(***************************************************************************)
(* The stream.                                                             *)
(***************************************************************************)

(* The token is there: GrpcStream::Start opens the stream at once, and     *)
(* RemoteStore::OnWriteStreamOpen sends the handshake.                     *)
ResumeStartWithCredentials ==
  /\ stream.state = "Starting"
  /\ stream' = Send([stream EXCEPT !.state = "Open"], <<Handshake>>)
  /\ UNCHANGED <<clientVars, backendVars, faults>>

BackoffElapsed ==
  /\ stream.state = "Backoff"
  /\ stream' = StartStream([stream EXCEPT !.state = "Initial"])
  /\ UNCHANGED <<clientVars, backendVars, faults>>

(* The idle timer: Stop, and OnWriteStreamClose with status OK.            *)
IdleTimeout ==
  /\ stream.idle
  /\ stream' = Closed("Initial")
  /\ UNCHANGED <<clientVars, backendVars, faults>>

(* WriteStream::NotifyStreamResponse, the first response of a stream: the  *)
(* whole pipeline is sent.                                                 *)
OnWriteStreamHandshakeComplete ==
  /\ stream.in # <<>> /\ ~stream.handshakeComplete
  /\ stream' = Send([stream EXCEPT !.in = Tail(@), !.handshakeComplete = TRUE], pipeline)
  /\ UNCHANGED <<clientVars, backendVars, faults>>

SlipAnyResponse ==
  LET batch == Head(pipeline)
      queue == RemoveMutationBatch(mutations[currentUser], batch.id)
  IN  /\ stream.in # <<>> /\ pipeline # <<>>
      /\ NotifyUser(batch.id, "ok")
      /\ mutations' = [mutations EXCEPT ![currentUser] = queue]
      /\ FillWritePipeline(Tail(pipeline), queue, [stream EXCEPT !.in = Tail(@)])
      /\ UNCHANGED <<currentUser, nextBatchId, written, backendVars, faults>>

(* A later response is for the first write of the pipeline:                *)
(* HandleSuccessfulWrite calls back and removes the batch from the queue,  *)
(* and the pipeline is filled again.                                       *)
OnWriteStreamMutationResult ==
  LET batch == Head(pipeline)
      queue == RemoveMutationBatch(mutations[currentUser], batch.id)
  IN  /\ stream.in # <<>> /\ stream.handshakeComplete
      /\ NotifyUser(batch.id, "ok")
      /\ mutations' = [mutations EXCEPT ![currentUser] = queue]
      /\ FillWritePipeline(Tail(pipeline), queue, [stream EXCEPT !.in = Tail(@)])
      /\ UNCHANGED <<currentUser, nextBatchId, written, backendVars, faults>>

(* RemoteStore::HandleWriteError: the first write of the pipeline is taken *)
(* for the one that was refused.                                           *)
HandleWriteError ==
  LET batch == Head(pipeline)
      queue == RemoveMutationBatch(mutations[currentUser], batch.id)
  IN  /\ mutations' = [mutations EXCEPT ![currentUser] = queue]
      /\ NotifyUser(batch.id, "error")
      /\ FillWritePipeline(Tail(pipeline), queue, Closed("Initial"))
      /\ UNCHANGED <<currentUser, nextBatchId, written, backendVars, faults>>

SlipRestartAfterError ==
  /\ stream' = Closed("Error")
  /\ UNCHANGED <<clientVars, backendVars>>

(* RemoteStore::OnWriteStreamClose after an error that no write is blamed  *)
(* for: the stream is started again while there is something to send.      *)
RestartAfterError ==
  /\ stream' = IF pipeline = <<>> THEN Closed("Error") ELSE StartStream(Closed("Error"))
  /\ UNCHANGED <<clientVars, backendVars>>

SlipOnWriteStreamClose ==
  \/ stream.handshakeComplete /\ pipeline # <<>> /\ HandleWriteError
  \/ ~(stream.handshakeComplete /\ pipeline # <<>>) /\ RestartAfterError /\ UNCHANGED faults

OnWriteStreamClose ==
  \/ /\ stream.end = "permanent" /\ stream.handshakeComplete /\ pipeline # <<>>
     /\ HandleWriteError
  \/ /\ ~(stream.end = "permanent" /\ stream.handshakeComplete /\ pipeline # <<>>)
     /\ RestartAfterError
     /\ UNCHANGED faults

(* The end of the stream is read after every response ...                  *)
OnStreamFinish ==
  /\ stream.end # "no" /\ stream.in = <<>>
  /\ OnWriteStreamClose

(* ... unless a write fails first: OnOperationFailed finishes the call and *)
(* drops the responses that were not read.                                 *)
OnOperationFailed ==
  /\ stream.end # "no" /\ stream.in # <<>> /\ stream.out # <<>>
  /\ OnWriteStreamClose

(* Auth gives an error instead of a token.                                 *)
TokenFails ==
  /\ stream.state = "Starting" /\ faults < MaxFaults
  /\ RestartAfterError
  /\ faults' = faults + 1

(***************************************************************************)
(* The backend and the connection.                                         *)
(***************************************************************************)
Taken == [stream EXCEPT !.out = Tail(@), !.in = Append(@, Head(stream.out))]

BackendShakesHands ==
  /\ stream.out # <<>> /\ stream.end = "no" /\ Head(stream.out) = Handshake
  /\ stream' = Taken
  /\ UNCHANGED <<clientVars, backendVars, faults>>

BackendCommits ==
  /\ stream.out # <<>> /\ stream.end = "no" /\ Head(stream.out) # Handshake
  /\ committed' = committed \cup {Head(stream.out).write}
  /\ latest' = [latest EXCEPT ![written[Head(stream.out).write]] = Head(stream.out).write]
  /\ stream' = Taken
  /\ UNCHANGED <<clientVars, refused, faults>>

BackendRefuses ==
  /\ stream.out # <<>> /\ stream.end = "no" /\ Head(stream.out) # Handshake
  /\ faults < MaxFaults /\ faults' = faults + 1
  /\ refused' = refused \cup {Head(stream.out).write}
  /\ stream' = [stream EXCEPT !.out = Tail(@), !.end = "permanent"]
  /\ UNCHANGED <<clientVars, committed, latest>>

(* The connection is lost, with any number of responses under way.         *)
ConnectionLost ==
  /\ IsOpen(stream) /\ stream.end = "no"
  /\ faults < MaxFaults /\ faults' = faults + 1
  /\ \E n \in 0 .. Len(stream.in) :
       stream' = [stream EXCEPT !.in = SubSeq(@, 1, n), !.end = "transient"]
  /\ UNCHANGED <<clientVars, backendVars>>

(***************************************************************************)
(* Changes of user, of the network, of the process.                        *)
(***************************************************************************)

SlipRestartNetwork(queue) ==
  FillWritePipeline(pipeline, queue, Closed("Initial"))

(* RestartNetwork stops the stream without a word to the pipeline's        *)
(* writes, empties the pipeline, and EnableNetwork fills it again.         *)
RestartNetwork(queue) == FillWritePipeline(<<>>, queue, Closed("Initial"))

(* SyncEngine::HandleCredentialChange, for a new user or a new token; the  *)
(* network monitor restarts the network too.                               *)
HandleCredentialChange(u) ==
  /\ faults < MaxFaults /\ faults' = faults + 1
  /\ currentUser' = u
  /\ nextBatchId' = IF u = currentUser THEN nextBatchId ELSE LoadNextBatchId(mutations)
  /\ RestartNetwork(mutations[u])
  /\ UNCHANGED <<mutations, callbacks, written, outcome, backendVars>>

(* The process ends; FirestoreClient::Initialize finds the queues on disk. *)
Relaunch(u) ==
  /\ faults < MaxFaults /\ faults' = faults + 1
  /\ currentUser' = u
  /\ nextBatchId' = LoadNextBatchId(mutations)
  /\ callbacks' = [v \in Users |-> {}]
  /\ outcome' = [w \in DOMAIN outcome |->
                   IF outcome[w] = "waiting" THEN "unknown" ELSE outcome[w]]
  /\ RestartNetwork(mutations[u])
  /\ UNCHANGED <<mutations, written, backendVars>>

Client ==
  \/ ResumeStartWithCredentials
  \/ BackoffElapsed
  \/ OnWriteStreamHandshakeComplete
  \/ OnWriteStreamMutationResult
  \/ OnStreamFinish

Backend == BackendShakesHands \/ BackendCommits

Next ==
  \/ WriteMutations
  \/ ResumeStartWithCredentials
  \/ BackoffElapsed
  \/ IdleTimeout
  \/ OnWriteStreamHandshakeComplete
  \/ OnWriteStreamMutationResult
  \/ OnStreamFinish
  \/ OnOperationFailed
  \/ TokenFails
  \/ BackendShakesHands
  \/ BackendCommits
  \/ BackendRefuses
  \/ ConnectionLost
  \/ \E u \in Users : HandleCredentialChange(u)
  \/ \E u \in Users : Relaunch(u)

Spec == Init /\ [][Next]_vars

(* The worker queue runs its tasks and timers, and a connection that is    *)
(* not lost brings the backend's answers.                                  *)
FairSpec == Spec /\ WF_vars(Client) /\ WF_vars(Backend)

-----------------------------------------------------------------------------
(***************************************************************************)
(* Properties.                                                             *)
(***************************************************************************)

(* Every variable has its type, and nextBatchId is above every id in use.  *)
TypeOK ==
  /\ currentUser \in Users
  /\ mutations \in [Users -> Seq(Batch)]
  /\ nextBatchId \in Nat /\ \A u \in Users : \A id \in Ids(mutations[u]) : id < nextBatchId
  /\ callbacks \in [Users -> SUBSET Batch]
  /\ pipeline \in Seq(Batch)
  /\ stream \in Stream
  /\ written \in Seq(Users) /\ outcome \in Seq({"waiting", "ok", "error", "unknown"})
  /\ committed \subseteq 1 .. Len(written) /\ refused \subseteq 1 .. Len(written)
  /\ latest \in [Users -> 0 .. Len(written)]
  /\ faults \in 0 .. MaxFaults

(* The pipeline is always the front of the queue of the user who is signed *)
(* in, as long as it may be: nothing is sent for another user, out of      *)
(* order or twice on one stream, and nothing waits while there is room.    *)
PipelineIsQueueFront ==
  pipeline = SubSeq(mutations[currentUser], 1, Min({kMaxPendingWrites, Len(mutations[currentUser])}))

(* OnWriteStreamMutationResult takes any response for the answer to the    *)
(* first write of the pipeline ("Got result for empty write pipeline",     *)
(* "correlated to the first write"): what was sent on a stream that has    *)
(* shaken hands, and is not answered yet, is the pipeline, in its order.   *)
ResultsCorrelate ==
  /\ IsOpen(stream) /\ stream.handshakeComplete =>
       IF stream.end = "no" THEN stream.in \o stream.out = pipeline ELSE IsPrefix(stream.in, pipeline)
  /\ IsOpen(stream) /\ ~stream.handshakeComplete => Len(stream.in) + Len(stream.out) <= 1
  /\ ~IsOpen(stream) => stream = Closed(stream.state)

(* The assertion of OnWriteStreamClose, "stopped gracefully while still    *)
(* needed": the idle timer runs only on an open stream that has nothing to *)
(* send, and a stream that is needed has been started.                     *)
IdleOnlyWhenUnneeded ==
  /\ stream.idle => IsOpen(stream) /\ pipeline = <<>>
  /\ pipeline # <<>> => IsStarted(stream)

(* What every task may rely on: the types, and what the client asserts.    *)
Consistent == TypeOK /\ ResultsCorrelate /\ IdleOnlyWhenUnneeded

(* A callback belongs to a write that is still in its user's queue, under  *)
(* the same batch id, although ids are used again after a restart or a     *)
(* change of user; and everybody who waits has one.                        *)
CallbackHasBatch ==
  \A u \in Users :
    /\ callbacks[u] \subseteq ToSet(mutations[u])
    /\ \A w \in DOMAIN written : written[w] = u =>
         (outcome[w] = "waiting" <=> \E c \in callbacks[u] : c.write = w)

(* A write the worker queue has taken is on disk until the backend has     *)
(* committed it or refused it, whatever fails or restarts meanwhile.       *)
NoWriteLost ==
  \A w \in DOMAIN written :
    \/ \E b \in ToSet(mutations[written[w]]) : b.write = w
    \/ w \in committed \cup refused

(* Writes are sent again when their answers are lost, but once a user's    *)
(* queue is empty, the last write the backend carried out is the last one  *)
(* made that it did not refuse: no older write has overtaken a newer one.  *)
NewestWins ==
  \A u \in Users : mutations[u] = <<>> =>
    \A w \in DOMAIN written : written[w] = u /\ w \notin refused => w <= latest[u]

(* Only a refused write is called back with an error, unless a later write *)
(* fails on a stream whose answers were not all read: HandleWriteError     *)
(* then blames the first write of the pipeline, which is stored.           *)
ErrorBlamesRefused ==
  [][\A w \in DOMAIN outcome :
       outcome[w] = "waiting" /\ outcome'[w] = "error" =>
         w \in refused \/ (stream.in # <<>> /\ stream.out # <<>> /\ w \in committed)]_vars

(* When the faults end, the queue of the user who is signed in empties:    *)
(* nothing waits for an answer or a stream that never comes.               *)
WritesDrain == <>[](mutations[currentUser] = <<>>)

(* The writes of a queue.                                                  *)
WritesOf(q) == [i \in DOMAIN q |-> q[i].write]

PW == INSTANCE PendingWrites WITH
        user <- currentUser,
        queue <- [u \in Users |-> WritesOf(mutations[u])],
        submitted <- Len(written)

(* Pipeline, stream, retries and restarts implement PendingWrites.         *)
Implements == PW!Spec
=============================================================================
