------------------------------- MODULE QueryGet -------------------------------
(***************************************************************************)
(* How Firestore answers getDocuments, which DBManager.getSavedAccounts    *)
(* calls: a ListenOnce listener in EventManager, the view in SyncEngine,   *)
(* RemoteStore with its watch stream, WatchChangeAggregator and            *)
(* OnlineStateTracker.                                                     *)
(*                                                                         *)
(* The client's state is one record, and each of its methods an operator   *)
(* that takes and returns it; a task of the worker queue is one action.    *)
(* Events go to the main queue, where the app is called back.              *)
(*                                                                         *)
(* Documents are left out but for the fact that one has changed, and so    *)
(* are documents in limbo: a view is synced when its target is current.  A *)
(* query and its target are one, since the target cache gives a query the  *)
(* same target id again.                                                   *)
(*                                                                         *)
(* External, modelled from how the code uses it: the backend, which        *)
(* answers every request on a stream once, in order, may drop a target     *)
(* with an error, and sends the changes of what is watched; and gRPC.      *)
(***************************************************************************)
EXTENDS Integers, Sequences, FiniteSets, SequencesExt

CONSTANTS
  Gets,        \* calls of getDocuments
  Queries,     \* the collections they ask for
  QueryOf,     \* QueryOf[g]: the one g asks for
  MaxFaults,   \* bound: lost connections, restarts and dropped targets
  MaxChanges,  \* bound: changed documents, resets and mismatched filters
  MaxInFlight  \* bound: messages of the backend under way

ASSUME GetAssumption ==
  /\ IsFiniteSet(Gets) /\ IsFiniteSet(Queries)
  /\ QueryOf \in [Gets -> Queries]
  /\ {MaxFaults, MaxChanges, MaxInFlight} \subseteq Nat

VARIABLES
  client,       \* the client's state on the worker queue: see Client
  workerQueue,  \* tasks that add and remove listeners
  asked,        \* the gets that were called
  muted,        \* the listeners that were muted on the main queue
  answers,      \* answers[g]: what g's callback was called with, in order
  faults,       \* counted against MaxFaults
  changes       \* counted against MaxChanges

appVars == <<asked, muted, answers>>
vars == <<client, workerQueue, appVars, faults, changes>>

-----------------------------------------------------------------------------
(***************************************************************************)
(* Data.                                                                   *)
(***************************************************************************)
Online == {"Unknown", "Online", "Offline"}

(* TargetState of the aggregator.                                          *)
TargetState == [
  outstanding: Int,    \* outstanding_responses_
  current: BOOLEAN,    \* current_
  changed: BOOLEAN,    \* has_pending_changes_
  documents: BOOLEAN]  \* document_changes_ is not empty

NewTarget == [outstanding |-> 0, current |-> FALSE, changed |-> TRUE, documents |-> FALSE]

Message ==
  [kind: {"Added", "Removed", "Error", "Current", "Document", "Reset", "Filter"}, target: Queries]
    \cup [kind: {"Snapshot"}]

(* The stream, with the backend's end of it: what it watches, and whether  *)
(* anything has changed since its last snapshot.                           *)
Stream == [
  state: {"Initial", "Starting", "Open", "Error", "Backoff"},
  idle: BOOLEAN,
  out: Seq([kind: {"Watch", "Unwatch"}, target: Queries]),
  in: Seq(Message),
  watched: [Queries -> {"no", "added", "current"}],
  news: BOOLEAN]

Closed(state) ==
  [state |-> state, idle |-> FALSE, out |-> <<>>, in |-> <<>>,
   watched |-> [q \in Queries |-> "no"], news |-> FALSE]

(* Known: the keys of target_states_.                                      *)
Client(Known) == [
  listeners: [Queries -> SUBSET Gets],  \* EventManager::queries_
  raised: SUBSET Gets,                  \* raised_initial_event_
  events: Seq([get: Gets, result: {"synced", "cached", "error"}]),  \* the user executor
  current: [Queries -> BOOLEAN],        \* View::current_
  online: Online,                       \* OnlineStateTracker::state_
  failures: Nat,                        \* watch_stream_failures_
  timer: BOOLEAN,                       \* online_state_timer_ is set
  targets: SUBSET Queries,              \* RemoteStore::listen_targets_
  stream: Stream,
  states: [Known -> TargetState],       \* WatchChangeAggregator::target_states_
  resets: SUBSET Queries,               \* pending_target_resets_
  told: SUBSET Queries,                 \* history: current since they were last added
  rewatched: SUBSET Queries,            \* history: watched again before they were removed
  dropped: SUBSET Queries]              \* history: had an error on this stream

IsOpen(c)    == c.stream.state = "Open"
IsStarted(c) == c.stream.state \in {"Starting", "Backoff", "Open"}

Outstanding(c, q) == IF q \in DOMAIN c.states THEN c.states[q].outstanding ELSE 0

IsPending(c, q) == Outstanding(c, q) # 0

(* TargetDataForActiveTarget.                                              *)
IsActive(c, q) == q \in c.targets /\ ~IsPending(c, q)

EnsureTargetState(c, q) ==
  [c EXCEPT !.states = [x \in DOMAIN @ \cup {q} |-> IF x \in DOMAIN @ THEN @[x] ELSE NewTarget]]

RemoveTarget(c, q) == [c EXCEPT !.states = Restrict(@, DOMAIN @ \ {q})]

-----------------------------------------------------------------------------
(***************************************************************************)
(* EventManager and QueryListener.                                         *)
(***************************************************************************)
(* One event for each listener, handed to the user executor.               *)
Post(events, gs, result) ==
  LET s == SetToSeq(gs)
  IN  events \o [i \in DOMAIN s |-> [get |-> s[i], result |-> result[s[i]]]]

RaiseEvents(c, gs) ==
  LET result == [g \in Gets |-> IF c.current[QueryOf[g]] THEN "synced" ELSE "cached"]
  IN  [c EXCEPT !.raised = @ \cup gs, !.events = Post(@, gs, result)]

(* ShouldRaiseInitialEvent, waiting for a sync when online, for a listener *)
(* that has raised nothing; the others raise an event for every snapshot.  *)
ShouldRaise(c, g) ==
  \/ g \in c.raised
  \/ c.current[QueryOf[g]]
  \/ c.online = "Offline"

(* The views of the queries qs have new snapshots.                         *)
OnViewSnapshots(c, qs) ==
  RaiseEvents(c, {g \in UNION {c.listeners[q] : q \in qs} : ShouldRaise(c, g)})

(* SyncEngine::HandleOnlineStateChange: a view is not current any longer   *)
(* when the client goes offline, and who still waits gets the cache.       *)
HandleOnlineStateChange(c, state) ==
  LET lost  == {q \in Queries : c.listeners[q] # {} /\ c.current[q] /\ state = "Offline"}
      views == [c EXCEPT !.current = [q \in Queries |-> @[q] /\ q \notin lost]]
      told  == [OnViewSnapshots(views, lost) EXCEPT !.online = state]
  IN  RaiseEvents(told, {g \in UNION {told.listeners[q] : q \in Queries} :
                           g \notin told.raised /\ ShouldRaise(told, g)})

-----------------------------------------------------------------------------
(***************************************************************************)
(* OnlineStateTracker.                                                     *)
(***************************************************************************)
kMaxWatchStreamFailures == 1

SetAndBroadcast(c, state) ==
  IF state = c.online THEN c ELSE HandleOnlineStateChange(c, state)

SlipUpdateState(c, state) == SetAndBroadcast([c EXCEPT !.failures = 0], state)

UpdateState(c, state) ==
  SetAndBroadcast([c EXCEPT !.timer = FALSE, !.failures = 0], state)

HandleWatchStreamStart(c) ==
  IF c.failures # 0 THEN c ELSE [SetAndBroadcast(c, "Unknown") EXCEPT !.timer = TRUE]

HandleWatchStreamFailure(c) ==
  CASE c.online = "Online" -> SetAndBroadcast(c, "Unknown")
    [] c.online # "Online" /\ c.failures + 1 < kMaxWatchStreamFailures ->
         [c EXCEPT !.failures = @ + 1]
    [] OTHER -> SetAndBroadcast([c EXCEPT !.failures = @ + 1, !.timer = FALSE], "Offline")

-----------------------------------------------------------------------------
(***************************************************************************)
(* RemoteStore's half for reading.                                         *)
(***************************************************************************)
(* The requests `kinds`, in turn, for each of the targets qs.              *)
Requests(kinds, qs) ==
  LET s == SetToSeq(qs)
      n == Len(kinds)
  IN  [i \in 1 .. n * Len(s) |->
         [kind |-> kinds[((i - 1) % n) + 1], target |-> s[((i - 1) \div n) + 1]]]

(* RecordPendingTargetRequest and WatchQuery or UnwatchTargetId for each.  *)
SendRequests(c, kinds, qs) ==
  [c EXCEPT !.states = [q \in DOMAIN @ \cup qs |->
                          IF q \in qs THEN [EnsureTargetState(c, q).states[q] EXCEPT
                                              !.outstanding = @ + Len(kinds)]
                          ELSE @[q]],
            !.rewatched = @ \cup {q \in qs : /\ kinds[Len(kinds)] = "Watch"
                                            /\ Outstanding(c, q) + Len(kinds) # 1},
            !.stream.out = @ \o Requests(kinds, qs),
            !.stream.idle = @ /\ qs = {}]

SendWatchRequests(c, qs) == SendRequests(c, <<"Watch">>, qs)

SlipSendUnwatchRequest(c, q) ==
  [c EXCEPT !.stream.out = @ \o Requests(<<"Unwatch">>, {q}), !.stream.idle = FALSE]

SendUnwatchRequest(c, q) == SendRequests(c, <<"Unwatch">>, {q})

ShouldStartWatchStream(c) == ~IsStarted(c) /\ c.targets # {}

(* Stream::Close and CleanUpWatchStreamState.                              *)
CloseStream(c, state) ==
  [c EXCEPT !.stream = Closed(state), !.states = <<>>, !.resets = {},
            !.told = {}, !.rewatched = {}, !.dropped = {}]

StartWatchStream(c) ==
  HandleWatchStreamStart([c EXCEPT !.stream.state = IF @ = "Error" THEN "Backoff" ELSE "Starting"])

(* RemoteStore::Listen.                                                    *)
ListenTarget(c, q) ==
  LET listening == [c EXCEPT !.targets = @ \cup {q}]
  IN  CASE ShouldStartWatchStream(listening) -> StartWatchStream(listening)
        [] IsOpen(c) -> SendWatchRequests(listening, {q})
        [] OTHER -> listening

(* RemoteStore::StopListening.                                             *)
UnlistenTarget(c, q) ==
  LET stopped == [c EXCEPT !.targets = @ \ {q}]
      sent    == IF IsOpen(c) THEN SendUnwatchRequest(stopped, q) ELSE stopped
  IN  CASE sent.targets # {} -> sent
        [] sent.targets = {} /\ IsOpen(c) -> [sent EXCEPT !.stream.idle = TRUE]
        [] OTHER -> UpdateState(sent, "Unknown")

OnWatchStreamOpen(c) == SendWatchRequests(c, c.targets)

SlipOnWatchStreamClose(c) ==
  IF ShouldStartWatchStream(c) THEN HandleWatchStreamFailure(c) ELSE UpdateState(c, "Unknown")

(* OnWatchStreamClose after an error.                                      *)
OnWatchStreamClose(c) ==
  IF ShouldStartWatchStream(c)
  THEN StartWatchStream(HandleWatchStreamFailure(c))
  ELSE UpdateState(c, "Unknown")

(* Stop, with OnWatchStreamClose and status OK, then EnableNetwork.        *)
RestartNetwork(c) ==
  LET stopped == UpdateState(CloseStream(c, "Initial"), "Unknown")
  IN  IF ShouldStartWatchStream(stopped) THEN StartWatchStream(stopped) ELSE stopped

-----------------------------------------------------------------------------
(***************************************************************************)
(* WatchChangeAggregator.                                                  *)
(***************************************************************************)
ClearPendingChanges(s) == [s EXCEPT !.changed = FALSE, !.documents = FALSE]

HandleAdded(c, q) ==
  LET answered == [EnsureTargetState(c, q) EXCEPT !.states[q].outstanding = @ - 1,
                                                  !.told = @ \ {q}]
  IN  IF IsPending(answered, q) THEN answered
      ELSE [answered EXCEPT !.states[q] = ClearPendingChanges(@)]

SlipHandleRemoved(c, q) == [EnsureTargetState(c, q) EXCEPT !.states[q].outstanding = @ - 1]

HandleRemoved(c, q) ==
  LET answered == [EnsureTargetState(c, q) EXCEPT !.states[q].outstanding = @ - 1]
  IN  IF IsPending(answered, q) THEN answered
      ELSE [RemoveTarget(answered, q) EXCEPT !.rewatched = @ \ {q}]

HandleCurrent(c, q) ==
  IF IsActive(c, q)
  THEN [EnsureTargetState(c, q) EXCEPT !.states[q].current = TRUE, !.states[q].changed = TRUE,
                                       !.told = @ \cup {q}]
  ELSE EnsureTargetState(c, q)

HandleDocument(c, q) ==
  IF IsActive(c, q)
  THEN [EnsureTargetState(c, q) EXCEPT !.states[q].documents = TRUE, !.states[q].changed = TRUE]
  ELSE c

(* It takes the documents, of which there are some, out of the target.     *)
ResetTarget(c, q) == [c EXCEPT !.states[q] = [NewTarget EXCEPT !.documents = TRUE]]

HandleReset(c, q) ==
  IF IsActive(c, q) THEN ResetTarget(EnsureTargetState(c, q), q) ELSE EnsureTargetState(c, q)

(* An existence filter with another count than the client's.               *)
HandleFilter(c, q) ==
  IF IsActive(c, q) THEN [ResetTarget(c, q) EXCEPT !.resets = @ \cup {q}] ELSE c

SlipProcessTargetError(c, q) ==
  IF q \notin c.targets THEN [c EXCEPT !.dropped = @ \cup {q}]
  ELSE [RemoveTarget(c, q) EXCEPT
                 !.targets = @ \ {q},
                 !.events = Post(@, c.listeners[q], [g \in Gets |-> "error"]),
                 !.dropped = @ \cup {q}]

(* RemoteStore::ProcessTargetError and SyncEngine::HandleRejectedListen.   *)
ProcessTargetError(c, q) ==
  IF q \notin c.targets THEN [c EXCEPT !.dropped = @ \cup {q}]
  ELSE [RemoveTarget(c, q) EXCEPT
                 !.targets = @ \ {q},
                 !.listeners[q] = {},
                 !.events = Post(@, c.listeners[q], [g \in Gets |-> "error"]),
                 !.dropped = @ \cup {q}]

(* RaiseWatchSnapshot: CreateRemoteEvent, the targets that did not match   *)
(* are watched anew, ApplyRemoteEvent.                                     *)
RaiseWatchSnapshot(c) ==
  LET event   == {q \in DOMAIN c.states : IsActive(c, q) /\ c.states[q].changed}
      created == [c EXCEPT !.states = [q \in DOMAIN @ |->
                                         IF q \in event THEN ClearPendingChanges(@[q]) ELSE @[q]],
                           !.resets = {}]
      resent  == SendRequests(created, <<"Unwatch", "Watch">>, c.resets \cap c.targets)
      applied == [resent EXCEPT !.current = [q \in Queries |->
                                               IF q \in event THEN c.states[q].current ELSE @[q]]]
      shown   == {q \in event : c.states[q].documents \/ c.current[q] # applied.current[q]}
  IN  OnViewSnapshots(applied, shown)

(* OnWatchStreamChange.                                                    *)
HandleChange(c, m) ==
  LET d == UpdateState(c, "Online")
  IN  CASE m.kind = "Added"    -> HandleAdded(d, m.target)
        [] m.kind = "Removed"  -> HandleRemoved(d, m.target)
        [] m.kind = "Error"    -> ProcessTargetError(d, m.target)
        [] m.kind = "Current"  -> HandleCurrent(d, m.target)
        [] m.kind = "Document" -> HandleDocument(d, m.target)
        [] m.kind = "Reset"    -> HandleReset(d, m.target)
        [] m.kind = "Filter"   -> HandleFilter(d, m.target)
        [] m.kind = "Snapshot" -> RaiseWatchSnapshot(d)

-----------------------------------------------------------------------------
Init ==
  /\ client = [listeners |-> [q \in Queries |-> {}], raised |-> {}, events |-> <<>>,
               current |-> [q \in Queries |-> FALSE],
               online |-> "Unknown", failures |-> 0, timer |-> FALSE,
               targets |-> {}, stream |-> Closed("Initial"),
               states |-> <<>>, resets |-> {},
               told |-> {}, rewatched |-> {}, dropped |-> {}]
  /\ workerQueue = <<>>
  /\ asked = {} /\ muted = {}
  /\ answers = [g \in Gets |-> <<>>]
  /\ faults = 0 /\ changes = 0

(***************************************************************************)
(* The main queue.                                                         *)
(***************************************************************************)

(* Query::GetDocuments.                                                    *)
GetDocuments(g) ==
  /\ g \notin asked
  /\ asked' = asked \cup {g}
  /\ workerQueue' = Append(workerQueue, [kind |-> "add", get |-> g])
  /\ UNCHANGED <<client, muted, answers, faults, changes>>

SlipOnEvent ==
  /\ client.events # <<>>
  /\ LET g == Head(client.events).get
     IN  /\ answers' = [answers EXCEPT ![g] = Append(@, Head(client.events).result)]
         /\ workerQueue' = Append(workerQueue, [kind |-> "remove", get |-> g])
  /\ client' = [client EXCEPT !.events = Tail(@)]
  /\ UNCHANGED <<asked, muted, faults, changes>>

(* AsyncEventListener and ListenOnce: the first snapshot mutes and removes *)
(* the listener and is handed to the app.                                  *)
OnEvent ==
  /\ client.events # <<>>
  /\ LET g == Head(client.events).get
         r == Head(client.events).result
     IN  /\ answers' = IF g \in muted THEN answers ELSE [answers EXCEPT ![g] = Append(@, r)]
         /\ muted' = IF r = "error" THEN muted ELSE muted \cup {g}
         /\ workerQueue' = IF g \in muted \/ r = "error" THEN workerQueue
                           ELSE Append(workerQueue, [kind |-> "remove", get |-> g])
  /\ client' = [client EXCEPT !.events = Tail(@)]
  /\ UNCHANGED <<asked, faults, changes>>

(***************************************************************************)
(* The worker queue.                                                       *)
(***************************************************************************)

(* EventManager::AddQueryListener; the first listener of a query makes a   *)
(* view, which is not current, then listens.                               *)
AddQueryListener ==
  /\ workerQueue # <<>> /\ Head(workerQueue).kind = "add"
  /\ workerQueue' = Tail(workerQueue)
  /\ LET g     == Head(workerQueue).get
         q     == QueryOf[g]
         first == client.listeners[q] = {}
         view  == [client EXCEPT !.listeners[q] = @ \cup {g}, !.current[q] = @ /\ ~first]
         shown == RaiseEvents(view, {h \in {g} : ShouldRaise(view, h)})
     IN  client' = IF first THEN ListenTarget(shown, q) ELSE shown
  /\ UNCHANGED <<appVars, faults, changes>>

(* EventManager::RemoveQueryListener and SyncEngine::StopListening.        *)
RemoveQueryListener ==
  /\ workerQueue # <<>> /\ Head(workerQueue).kind = "remove"
  /\ workerQueue' = Tail(workerQueue)
  /\ LET g    == Head(workerQueue).get
         q    == QueryOf[g]
         left == [client EXCEPT !.listeners[q] = @ \ {g}]
     IN  client' = IF client.listeners[q] # {} /\ left.listeners[q] = {}
                   THEN UnlistenTarget(left, q) ELSE left
  /\ UNCHANGED <<appVars, faults, changes>>

(* A token has come; GrpcStream::Start opens the stream at once.           *)
OnStreamStart ==
  /\ client.stream.state = "Starting"
  /\ client' = OnWatchStreamOpen([client EXCEPT !.stream.state = "Open"])
  /\ UNCHANGED <<workerQueue, appVars, faults, changes>>

BackoffElapsed ==
  /\ client.stream.state = "Backoff"
  /\ client' = [client EXCEPT !.stream.state = "Starting"]
  /\ UNCHANGED <<workerQueue, appVars, faults, changes>>

IdleTimeout ==
  /\ client.stream.idle
  /\ client' = UpdateState(CloseStream(client, "Initial"), "Unknown")
  /\ UNCHANGED <<workerQueue, appVars, faults, changes>>

OnlineStateTimeout ==
  /\ client.timer
  /\ client' = SetAndBroadcast([client EXCEPT !.timer = FALSE], "Offline")
  /\ UNCHANGED <<workerQueue, appVars, faults, changes>>

OnWatchStreamChange ==
  /\ client.stream.in # <<>>
  /\ client' = HandleChange([client EXCEPT !.stream.in = Tail(@)], Head(client.stream.in))
  /\ UNCHANGED <<workerQueue, appVars, faults, changes>>

(* The stream ends with an error, or there is no token for it.             *)
OnStreamFinish ==
  /\ client.stream.state \in {"Starting", "Open"}
  /\ faults < MaxFaults /\ faults' = faults + 1
  /\ client' = OnWatchStreamClose(CloseStream(client, "Error"))
  /\ UNCHANGED <<workerQueue, appVars, changes>>

(* The credentials or the network have changed.                            *)
Restart ==
  /\ faults < MaxFaults /\ faults' = faults + 1
  /\ client' = RestartNetwork(client)
  /\ UNCHANGED <<workerQueue, appVars, changes>>

(***************************************************************************)
(* The backend.                                                            *)
(***************************************************************************)
BackendSends(kind, q, phase, rest) ==
  /\ Len(client.stream.in) < MaxInFlight
  /\ client' = [client EXCEPT !.stream.out = rest,
                              !.stream.in = Append(@, [kind |-> kind, target |-> q]),
                              !.stream.watched[q] = phase,
                              !.stream.news = TRUE]

BackendAnswers ==
  /\ client.stream.out # <<>>
  /\ LET r == Head(client.stream.out)
     IN  IF r.kind = "Watch" THEN BackendSends("Added", r.target, "added", Tail(client.stream.out))
         ELSE BackendSends("Removed", r.target, "no", Tail(client.stream.out))
  /\ UNCHANGED <<workerQueue, appVars, faults, changes>>

(* A target that may not be watched, or may not be watched any longer.     *)
BackendRejects ==
  /\ client.stream.out # <<>> /\ Head(client.stream.out).kind = "Watch"
  /\ faults < MaxFaults /\ faults' = faults + 1
  /\ BackendSends("Error", Head(client.stream.out).target, "no", Tail(client.stream.out))
  /\ UNCHANGED <<workerQueue, appVars, changes>>

BackendDrops(q) ==
  /\ client.stream.watched[q] # "no"
  /\ faults < MaxFaults /\ faults' = faults + 1
  /\ BackendSends("Error", q, "no", client.stream.out)
  /\ UNCHANGED <<workerQueue, appVars, changes>>

BackendIsCurrent(q) ==
  /\ client.stream.watched[q] = "added"
  /\ BackendSends("Current", q, "current", client.stream.out)
  /\ UNCHANGED <<workerQueue, appVars, faults, changes>>

BackendChanges(kind, q) ==
  /\ client.stream.watched[q] # "no"
  /\ changes < MaxChanges /\ changes' = changes + 1
  /\ BackendSends(kind, q, IF kind = "Reset" THEN "added" ELSE client.stream.watched[q],
                  client.stream.out)
  /\ UNCHANGED <<workerQueue, appVars, faults>>

BackendSnapshot ==
  /\ client.stream.news /\ Len(client.stream.in) < MaxInFlight
  /\ client' = [client EXCEPT !.stream.in = Append(@, [kind |-> "Snapshot"]), !.stream.news = FALSE]
  /\ UNCHANGED <<workerQueue, appVars, faults, changes>>

-----------------------------------------------------------------------------
ClientStep ==
  \/ OnEvent \/ AddQueryListener \/ RemoveQueryListener \/ OnWatchStreamChange
  \/ OnStreamStart \/ BackoffElapsed \/ OnlineStateTimeout

Backend ==
  BackendAnswers \/ (\E q \in Queries : BackendIsCurrent(q)) \/ BackendSnapshot

Next ==
  \/ \E g \in Gets : GetDocuments(g)
  \/ OnEvent
  \/ AddQueryListener
  \/ RemoveQueryListener
  \/ OnStreamStart
  \/ BackoffElapsed
  \/ IdleTimeout
  \/ OnlineStateTimeout
  \/ OnWatchStreamChange
  \/ OnStreamFinish
  \/ Restart
  \/ BackendAnswers
  \/ BackendRejects
  \/ \E q \in Queries : BackendDrops(q)
  \/ \E q \in Queries : BackendIsCurrent(q)
  \/ \E q \in Queries : BackendChanges("Document", q)
  \/ \E q \in Queries : BackendChanges("Reset", q)
  \/ \E q \in Queries : BackendChanges("Filter", q)
  \/ BackendSnapshot

Spec == Init /\ [][Next]_vars

(* The client's queues and timers run on; nothing is said of the backend.  *)
ClientSpec == Spec /\ WF_vars(ClientStep)

(* The backend answers, too, on a stream that is not lost.                 *)
FairSpec == ClientSpec /\ WF_vars(Backend)

-----------------------------------------------------------------------------
(***************************************************************************)
(* Properties.                                                             *)
(***************************************************************************)

(* Every variable has its type.                                            *)
TypeOK ==
  /\ DOMAIN client.states \subseteq Queries
  /\ client \in Client(DOMAIN client.states)
  /\ \A t \in ToSet(workerQueue) : t \in [kind: {"add", "remove"}, get: Gets]
  /\ asked \subseteq Gets /\ muted \subseteq asked
  /\ answers \in [Gets -> Seq({"synced", "cached", "error"})]
  /\ faults \in 0 .. MaxFaults /\ changes \in 0 .. MaxChanges

(* The assertions of OnlineStateTracker: the timer runs only while the     *)
(* state is unknown, so that it never takes an online client offline nor   *)
(* is set twice, and an online client has no failures.                     *)
TimerOnlyWhileUnknown ==
  /\ client.timer => client.online = "Unknown" /\ client.failures = 0 /\ IsStarted(client)
  /\ client.online = "Online" => client.failures = 0

(* "Watch stream was stopped gracefully while still needed": the idle      *)
(* timer runs only without a target, and with one the stream is started.   *)
StreamWhileNeeded ==
  /\ client.stream.idle => IsOpen(client) /\ client.targets = {}
  /\ client.targets # {} => IsStarted(client)

(* What every task may rely on: the types, and what the client asserts.    *)
Consistent == TypeOK /\ TimerOnlyWhileUnknown /\ StreamWhileNeeded

(* EventManager, SyncEngine and RemoteStore agree on what is listened to,  *)
(* although an error takes a target away under listeners that are about to *)
(* be removed and others that are about to be added.                       *)
ListenersHaveTargets == client.targets = {q \in Queries : client.listeners[q] # {}}

(* The app is called back once for every get, though its listener raises   *)
(* further events until the worker queue has removed it; and until then    *)
(* the get is somewhere: to be added, listening, or in an event.           *)
AnsweredOnce ==
  \A g \in asked :
    \/ Len(answers[g]) = 1
    \/ /\ answers[g] = <<>>
       /\ \/ g \in client.listeners[QueryOf[g]]
          \/ [kind |-> "add", get |-> g] \in ToSet(workerQueue)
          \/ \E e \in ToSet(client.events) : e.get = g

(* A target counts as current only if the backend has said so since it was *)
(* added, or if it was watched again before its removal was answered: the  *)
(* aggregator then forgets its changes and not that it was current.  An    *)
(* error upsets the count of its answers, and anything may come of that.   *)
CurrentWasTold ==
  \A q \in DOMAIN client.states : IsActive(client, q) /\ client.states[q].current =>
    q \in client.told \cup client.rewatched \cup client.dropped

Count(s, kinds, q) == Cardinality({i \in DOMAIN s : s[i].kind \in kinds /\ s[i].target = q})

(* The answers still to come for q.                                        *)
Expected(q) ==
  Count(client.stream.out, {"Watch", "Unwatch"}, q)
    + Count(client.stream.in, {"Added", "Removed"}, q)

Miscounted(q) ==
  /\ IsOpen(client)
  /\ Outstanding(client, q) # Expected(q)
  /\ [kind |-> "Error", target |-> q] \notin ToSet(client.stream.in)

(* The aggregator waits for as many answers as are to come.  Only the      *)
(* error of a target upsets the count, when it crosses another request.    *)
CountedUnlessDropped ==
  [][\A q \in Queries : ~Miscounted(q) /\ Miscounted(q)' =>
       client.stream.in # <<>> /\ Head(client.stream.in) = [kind |-> "Error", target |-> q]]_vars

(* Whatever was asked is answered in the end, unless the count of the      *)
(* target's answers is upset: nothing waits for a stream that is not       *)
(* started, a request that is not sent or a snapshot that is not shown.    *)
GetAnswered ==
  []<>(\A g \in asked : answers[g] # <<>> \/ Miscounted(QueryOf[g]))

(* "we have a timeout for OnlineState to reach Online or Offline": while   *)
(* something is listened to, the state does not stay unknown for ever.     *)
OnlineStateDecided ==
  client.online = "Unknown" /\ client.targets # {}
    ~> client.online # "Unknown" \/ client.targets = {}
=============================================================================
