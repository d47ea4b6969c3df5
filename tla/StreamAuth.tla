------------------------------ MODULE StreamAuth ------------------------------
(***************************************************************************)
(* Whose token a Firestore stream opens with, and in whose queue a write   *)
(* is filed, while users sign in and out, are signed out by force and have *)
(* their tokens refreshed.  Three queues take part:                        *)
(*                                                                         *)
(*   - the work queue of FIRAuth, which owns the signed-in user and        *)
(*     fetches tokens;                                                     *)
(*   - the main queue, on which FIRAuth posts its notifications, hands out *)
(*     tokens and completes sign-ins, each with dispatch_async, and on     *)
(*     which the app runs;                                                 *)
(*   - the worker queue of Firestore, with SyncEngine and the stream.      *)
(*                                                                         *)
(* A task of a queue is one action.  The stream stands for either of       *)
(* RemoteStore's two; it is wanted while its user has writes.  A request   *)
(* that waits for the work queue may run at any time, so that requests and *)
(* changes of user meet in every order.                                    *)
(***************************************************************************)
EXTENDS Integers, Sequences, FiniteSets, SequencesExt

CONSTANTS
  Users,       \* uids
  Nobody,      \* User::Unauthenticated()
  AtLaunch,    \* who may be signed in when the app starts
  MaxChanges,  \* bound: sign-ins, forced sign-outs, refreshes, errors
  MaxWrites    \* bound: writes

ASSUME AuthAssumption ==
  /\ Nobody \notin Users
  /\ AtLaunch \subseteq Users \cup {Nobody}
  /\ {MaxChanges, MaxWrites} \subseteq Nat

VARIABLES
  auth,        \* FIRAuth::_currentUser: its uid, and which sign-in made the object
  requests,    \* calls of getTokenForcingRefresh that have not called back
  mainQueue,   \* what FIRAuth has dispatched to the main queue
  provider,    \* FirebaseCredentialsProvider::Contents
  workerQueue, \* AsyncQueue
  currentUser, \* SyncEngine::current_user_
  stream,      \* Stream: state_, close_count_ and the token it opened with
  pending,     \* pending[u]: the paths of the writes in u's mutation queue
  home,        \* the home screen is shown
  changes,     \* counted against MaxChanges
  writes       \* counted against MaxWrites

workerVars == <<currentUser, stream, pending>>
vars == <<auth, requests, home, workerVars, mainQueue, provider, workerQueue, changes, writes>>

-----------------------------------------------------------------------------
(***************************************************************************)
(* Data.                                                                   *)
(***************************************************************************)
Anyone == Users \cup {Nobody}

(* A request remembers the token counter it was made under, the close      *)
(* count of the stream that made it and whether to refresh; then, once the *)
(* work queue has run it, whose token it fetches.                          *)
Request == [counter: Nat, close: Nat, force: BOOLEAN,
            from: [uid: Anyone, signIn: Int]]

NotRun == [uid |-> Nobody, signIn |-> -1]

(* What a fetch has given: the user whose token it is, or an error.        *)
Given == [ok: BOOLEAN, uid: Anyone]
Failed == [ok |-> FALSE, uid |-> Nobody]
TokenOf(u) == [ok |-> TRUE, uid |-> u]

(* Token: the user the string is for, and the user Firestore believes it   *)
(* is for.                                                                 *)
Token == [ok: BOOLEAN, uid: Anyone, user: Anyone]
NoToken == [ok |-> FALSE, uid |-> Nobody, user |-> Nobody]

NotifyMsg(u)      == [kind |-> "notify", uid |-> u]
CallbackMsg(r, g) == [kind |-> "token", request |-> r, given |-> g]
SignedInMsg       == [kind |-> "signedIn"]
Message           == [kind: {"notify"}, uid: Anyone]
                       \cup [kind: {"token"}, request: Request, given: Given]
                       \cup {SignedInMsg}

CredentialTask(u)    == [kind |-> "credential", uid |-> u]
ResumeTask(c, token) == [kind |-> "resume", close |-> c, token |-> token]
WriteTask(u)         == [kind |-> "write", path |-> u]
Task                 == [kind: {"credential"}, uid: Anyone]
                          \cup [kind: {"resume"}, close: Nat, token: Token]
                          \cup [kind: {"write"}, path: Users]

IsStarted == stream.state \in {"Starting", "Backoff", "Open"}

Init ==
  /\ auth \in [uid: AtLaunch, signIn: {0}]
  /\ requests = {} /\ mainQueue = <<>> /\ workerQueue = <<>>
  /\ provider = [user |-> auth.uid, counter |-> 0, forceRefresh |-> FALSE]
  /\ currentUser = auth.uid
  /\ stream = [state |-> "Initial", closeCount |-> 0, token |-> NoToken]
  /\ pending = [u \in Anyone |-> {}]
  /\ home = (auth.uid # Nobody)
  /\ changes = 0 /\ writes = 0

-----------------------------------------------------------------------------
(***************************************************************************)
(* The work queue of FIRAuth.                                              *)
(***************************************************************************)

SlipUpdateCurrentUser(u, signIn, then) ==
  /\ auth' = [uid |-> u, signIn |-> signIn]
  /\ mainQueue' = mainQueue \o then \o <<NotifyMsg(u)>>

(* updateCurrentUser:byForce: with a user, or with nil, which posts a      *)
(* notification because the token is another.                              *)
UpdateCurrentUser(u, signIn, then) ==
  /\ auth' = [uid |-> u, signIn |-> signIn]
  /\ mainQueue' = mainQueue \o <<NotifyMsg(u)>> \o then

(* The answer to signIn or createUser has come; an activity covers the     *)
(* login form until the completion, so that one sign-in is under way.      *)
SignIn(u) ==
  /\ ~home /\ SignedInMsg \notin ToSet(mainQueue)
  /\ changes < MaxChanges /\ changes' = changes + 1
  /\ UpdateCurrentUser(u, changes', <<SignedInMsg>>)
  /\ UNCHANGED <<requests, home, provider, workerQueue, writes, workerVars>>

(* The block of getTokenForcingRefresh runs: without a user it calls back  *)
(* with nil, else it starts to fetch.                                      *)
RunRequest(r) ==
  /\ r \in requests /\ r.from = NotRun
  /\ IF auth.uid = Nobody
     THEN /\ requests' = requests \ {r}
          /\ mainQueue' = Append(mainQueue, CallbackMsg(r, TokenOf(Nobody)))
     ELSE /\ requests' = (requests \ {r}) \cup {[r EXCEPT !.from = auth]}
          /\ UNCHANGED mainQueue
  /\ UNCHANGED <<auth, home, provider, workerQueue, changes, writes, workerVars>>

Finish(r, notes, given) ==
  /\ requests' = requests \ {r}
  /\ mainQueue' = mainQueue \o notes \o <<CallbackMsg(r, given)>>

(* The token is still valid.                                               *)
FetchCached(r) ==
  /\ r \in requests /\ r.from # NotRun /\ ~r.force
  /\ Finish(r, <<>>, TokenOf(r.from.uid))
  /\ UNCHANGED <<auth, home, provider, workerQueue, changes, writes, workerVars>>

(* A new token has come, because it was forced or the old one ran out.     *)
(* updateKeychainWithUser notifies while this FIRUser is the current one.  *)
FetchRefreshed(r) ==
  /\ r \in requests /\ r.from # NotRun
  /\ r.force \/ changes < MaxChanges
  /\ changes' = IF r.force THEN changes ELSE changes + 1
  /\ Finish(r, IF r.from = auth THEN <<NotifyMsg(auth.uid)>> ELSE <<>>, TokenOf(r.from.uid))
  /\ UNCHANGED <<auth, home, provider, workerQueue, writes, workerVars>>

FetchFails(r) ==
  /\ r \in requests /\ r.from # NotRun /\ changes < MaxChanges
  /\ changes' = changes + 1
  /\ Finish(r, <<>>, Failed)
  /\ UNCHANGED <<auth, home, provider, workerQueue, writes, workerVars>>

(* The backend knows the user no longer: signOutIfTokenIsInvalidWithError  *)
(* signs out whoever has this uid, then the request fails.                 *)
FetchInvalid(r) ==
  /\ r \in requests /\ r.from # NotRun /\ changes < MaxChanges
  /\ changes' = changes + 1
  /\ IF auth.uid = r.from.uid
     THEN /\ auth' = [uid |-> Nobody, signIn |-> auth.signIn]
          /\ Finish(r, <<NotifyMsg(Nobody)>>, Failed)
     ELSE /\ UNCHANGED auth
          /\ Finish(r, <<>>, Failed)
  /\ UNCHANGED <<home, provider, workerQueue, writes, workerVars>>

-----------------------------------------------------------------------------
(***************************************************************************)
(* The main queue.                                                         *)
(***************************************************************************)

(* GetToken, called for a stream with this close count.                    *)
GetToken(close) ==
  [counter |-> provider.counter, close |-> close, force |-> provider.forceRefresh,
   from |-> NotRun]

(* The listener of FIRAuthStateDidChangeInternalNotification.              *)
Notified ==
  /\ mainQueue # <<>> /\ Head(mainQueue).kind = "notify"
  /\ provider' = [provider EXCEPT !.user = Head(mainQueue).uid, !.counter = @ + 1]
  /\ workerQueue' = Append(workerQueue, CredentialTask(Head(mainQueue).uid))
  /\ mainQueue' = Tail(mainQueue)
  /\ UNCHANGED <<auth, requests, home, changes, writes, workerVars>>

(* get_token_callback: if the user or the token changed meanwhile, ask     *)
(* again; else hand the token over to the worker queue.                    *)
TokenCallback ==
  /\ mainQueue # <<>> /\ Head(mainQueue).kind = "token"
  /\ mainQueue' = Tail(mainQueue)
  /\ LET request == Head(mainQueue).request
         given   == Head(mainQueue).given
         token   == [ok |-> given.ok, uid |-> given.uid,
                     user |-> IF given.uid = Nobody THEN Nobody ELSE provider.user]
     IN  IF request.counter # provider.counter
         THEN /\ requests' = requests \cup {GetToken(request.close)}
              /\ provider' = [provider EXCEPT !.forceRefresh = FALSE]
              /\ UNCHANGED workerQueue
         ELSE /\ workerQueue' = Append(workerQueue, ResumeTask(request.close, token))
              /\ UNCHANGED <<requests, provider>>
  /\ UNCHANGED <<auth, home, changes, writes, workerVars>>

(* The completion of the sign-in shows the home screen.                    *)
SignedIn ==
  /\ mainQueue # <<>> /\ Head(mainQueue).kind = "signedIn"
  /\ mainQueue' = Tail(mainQueue)
  /\ home' = TRUE
  /\ UNCHANGED <<auth, requests, provider, workerQueue, changes, writes, workerVars>>

(* AuthManager.signOut waits for the work queue, then the login screen is  *)
(* shown.                                                                  *)
SignOut ==
  /\ home
  /\ IF auth.uid = Nobody THEN UNCHANGED <<auth, mainQueue>>
     ELSE UpdateCurrentUser(Nobody, auth.signIn, <<>>)
  /\ home' = FALSE
  /\ UNCHANGED <<requests, provider, workerQueue, changes, writes, workerVars>>

(* saveAccount and deleteAccount ask for the uid and call Firestore.       *)
Write ==
  /\ home /\ auth.uid # Nobody /\ writes < MaxWrites
  /\ writes' = writes + 1
  /\ workerQueue' = Append(workerQueue, WriteTask(auth.uid))
  /\ UNCHANGED <<auth, requests, home, mainQueue, provider, changes, workerVars>>

-----------------------------------------------------------------------------
(***************************************************************************)
(* The worker queue.                                                       *)
(***************************************************************************)

(* Stream::Start from Initial: RequestCredentials.                         *)
Start(s) ==
  /\ stream' = [s EXCEPT !.state = "Starting"]
  /\ requests' = requests \cup {GetToken(s.closeCount)}

(* Stream::Close, with the state it ends in.                               *)
ClosedStream(state) ==
  [state |-> state, closeCount |-> stream.closeCount + 1, token |-> NoToken]

SlipHandleCredentialChange ==
  /\ workerQueue # <<>> /\ Head(workerQueue).kind = "credential"
  /\ workerQueue' = Tail(workerQueue)
  /\ currentUser' = Head(workerQueue).uid
  /\ IF pending[currentUser'] = {} \/ IsStarted
     THEN UNCHANGED <<requests, stream, provider>>
     ELSE /\ Start([stream EXCEPT !.state = "Initial"])
          /\ provider' = [provider EXCEPT !.forceRefresh = FALSE]
  /\ UNCHANGED <<auth, home, pending, mainQueue, changes, writes>>

(* SyncEngine::HandleCredentialChange and RemoteStore::RestartNetwork.     *)
HandleCredentialChange ==
  /\ workerQueue # <<>> /\ Head(workerQueue).kind = "credential"
  /\ workerQueue' = Tail(workerQueue)
  /\ currentUser' = Head(workerQueue).uid
  /\ LET stopped == IF IsStarted THEN ClosedStream("Initial")
                    ELSE [stream EXCEPT !.state = "Initial"]
     IN  IF pending[currentUser'] = {}
         THEN /\ stream' = stopped
              /\ UNCHANGED <<requests, provider>>
         ELSE /\ Start(stopped)
              /\ provider' = [provider EXCEPT !.forceRefresh = FALSE]
  /\ UNCHANGED <<auth, home, pending, mainQueue, changes, writes>>

SlipWriteMutations ==
  /\ workerQueue # <<>> /\ Head(workerQueue).kind = "write"
  /\ workerQueue' = Tail(workerQueue)
  /\ pending' = [pending EXCEPT ![currentUser] = @ \cup {Head(workerQueue).path}]
  /\ IF stream.state = "Initial"
     THEN Start(stream) /\ provider' = [provider EXCEPT !.forceRefresh = FALSE]
     ELSE UNCHANGED <<requests, stream, provider>>
  /\ UNCHANGED <<auth, home, currentUser, mainQueue, changes, writes>>

(* SyncEngine::WriteMutations and RemoteStore::FillWritePipeline.          *)
WriteMutations ==
  /\ workerQueue # <<>> /\ Head(workerQueue).kind = "write"
  /\ workerQueue' = Tail(workerQueue)
  /\ pending' = [pending EXCEPT ![currentUser] = @ \cup {Head(workerQueue).path}]
  /\ CASE stream.state = "Initial" -> /\ Start(stream)
                                      /\ provider' = [provider EXCEPT !.forceRefresh = FALSE]
       [] stream.state = "Error"   -> /\ stream' = [stream EXCEPT !.state = "Backoff"]
                                      /\ UNCHANGED <<requests, provider>>
       [] OTHER                    -> UNCHANGED <<requests, stream, provider>>
  /\ UNCHANGED <<auth, home, currentUser, mainQueue, changes, writes>>

BackoffElapsed ==
  /\ stream.state = "Backoff"
  /\ Start(stream)
  /\ provider' = [provider EXCEPT !.forceRefresh = FALSE]
  /\ UNCHANGED <<auth, home, currentUser, pending, mainQueue, workerQueue, changes, writes>>

(* After an error the stream is started again while it is wanted.          *)
ErrorState == IF pending[currentUser] = {} THEN "Error" ELSE "Backoff"

SlipResumeStartWithCredentials ==
  /\ workerQueue # <<>> /\ Head(workerQueue).kind = "resume"
  /\ workerQueue' = Tail(workerQueue)
  /\ LET token == Head(workerQueue).token
     IN  CASE stream.state # "Starting" -> UNCHANGED stream
           [] stream.state = "Starting" /\ ~token.ok -> stream' = ClosedStream(ErrorState)
           [] OTHER -> stream' = [stream EXCEPT !.state = "Open", !.token = token]
  /\ UNCHANGED <<auth, requests, home, currentUser, pending, mainQueue, provider, changes, writes>>

(* The task of RequestCredentials: a stream that was closed meanwhile has  *)
(* another close count; else it opens, or fails, with the token.           *)
ResumeStartWithCredentials ==
  /\ workerQueue # <<>> /\ Head(workerQueue).kind = "resume"
  /\ workerQueue' = Tail(workerQueue)
  /\ LET token == Head(workerQueue).token
         stale == Head(workerQueue).close # stream.closeCount
     IN  CASE stale              -> UNCHANGED stream
           [] ~stale /\ ~token.ok -> stream' = ClosedStream(ErrorState)
           [] ~stale /\ token.ok  -> stream' = [stream EXCEPT !.state = "Open", !.token = token]
  /\ UNCHANGED <<auth, requests, home, currentUser, pending, mainQueue, provider, changes, writes>>

(* The backend carries out a write, and the client hears of it.            *)
WriteAcknowledged ==
  /\ stream.state = "Open"
  /\ \E path \in pending[currentUser] :
       pending' = [pending EXCEPT ![currentUser] = @ \ {path}]
  /\ UNCHANGED <<auth, requests, home, currentUser, stream, mainQueue, provider, workerQueue, changes, writes>>

IdleTimeout ==
  /\ stream.state = "Open" /\ pending[currentUser] = {}
  /\ stream' = ClosedStream("Initial")
  /\ UNCHANGED <<auth, requests, home, currentUser, pending, mainQueue, provider, workerQueue, changes, writes>>

(* An open stream ends with an error; HandleErrorStatus asks for a fresh   *)
(* token when the backend did not accept this one.                         *)
StreamError(unauthenticated) ==
  /\ stream.state = "Open" /\ changes < MaxChanges
  /\ changes' = changes + 1
  /\ stream' = ClosedStream(ErrorState)
  /\ provider' = IF unauthenticated THEN [provider EXCEPT !.forceRefresh = TRUE] ELSE provider
  /\ UNCHANGED <<auth, requests, home, currentUser, pending, mainQueue, workerQueue, writes>>

-----------------------------------------------------------------------------
Fetch(r) == FetchCached(r) \/ FetchRefreshed(r) \/ FetchFails(r) \/ FetchInvalid(r)

Main == Notified \/ TokenCallback \/ SignedIn

Worker == HandleCredentialChange \/ WriteMutations \/ ResumeStartWithCredentials

Next ==
  \/ \E u \in Users : SignIn(u)
  \/ \E r \in requests : RunRequest(r)
  \/ \E r \in requests : FetchCached(r)
  \/ \E r \in requests : FetchRefreshed(r)
  \/ \E r \in requests : FetchFails(r)
  \/ \E r \in requests : FetchInvalid(r)
  \/ Notified
  \/ TokenCallback
  \/ SignedIn
  \/ SignOut
  \/ Write
  \/ HandleCredentialChange
  \/ WriteMutations
  \/ ResumeStartWithCredentials
  \/ BackoffElapsed
  \/ WriteAcknowledged
  \/ IdleTimeout
  \/ StreamError(TRUE)
  \/ StreamError(FALSE)

Spec == Init /\ [][Next]_vars

(* The queues run their tasks, a fetch comes to an end, a timer fires, and *)
(* an open stream brings the backend's answers.                            *)
FairSpec ==
  /\ Spec
  /\ WF_vars(Main) /\ WF_vars(Worker)
  /\ WF_vars(\E r \in requests : RunRequest(r) \/ Fetch(r))
  /\ WF_vars(BackoffElapsed) /\ WF_vars(WriteAcknowledged)

-----------------------------------------------------------------------------
(***************************************************************************)
(* Properties.                                                             *)
(***************************************************************************)

(* Every variable has its type.                                            *)
TypeOK ==
  /\ auth \in [uid: Anyone, signIn: 0 .. MaxChanges]
  /\ requests \subseteq Request
  /\ mainQueue \in Seq(Message)
  /\ provider \in [user: Anyone, counter: Nat, forceRefresh: BOOLEAN]
  /\ workerQueue \in Seq(Task)
  /\ currentUser \in Anyone
  /\ stream \in [state: {"Initial", "Starting", "Open", "Error", "Backoff"},
                 closeCount: Nat, token: Token]
  /\ pending \in [Anyone -> SUBSET Users]
  /\ home \in BOOLEAN
  /\ changes \in 0 .. MaxChanges /\ writes \in 0 .. MaxWrites

(* A stream is open only with a token of the user whose queue it sends,    *)
(* and the token is known by that name: however a sign-in, a sign-out and  *)
(* a token under way cross, nobody's writes go out under another's         *)
(* credentials.                                                            *)
StreamUsesItsUser ==
  stream.state = "Open" => stream.token = [ok |-> TRUE, uid |-> currentUser, user |-> currentUser]

(* The requests, on their way through the three queues, that the stream    *)
(* would still take.                                                       *)
Live ==
  {r \in requests : r.close = stream.closeCount}
    \cup {m \in ToSet(mainQueue) : m.kind = "token" /\ m.request.close = stream.closeCount}
    \cup {t \in ToSet(workerQueue) : t.kind = "resume" /\ t.close = stream.closeCount}

(* "State should still be 'Starting'": exactly one request is under way    *)
(* for a stream that is starting, so it does not wait for nothing, and     *)
(* none that a stream in another state would take.                         *)
OneLiveRequest == Cardinality(Live) = IF stream.state = "Starting" THEN 1 ELSE 0

(* What every task may rely on.                                            *)
Consistent == TypeOK /\ OneLiveRequest

(* A write is filed in the queue of the user whose collection it is in:    *)
(* the uid the app asked FIRAuth for is the one Firestore has heard of.    *)
FiledUnderOwner == \A u \in Anyone : pending[u] \subseteq {u}

(* When sign-ins, faults and writes end, Firestore has the user FIRAuth    *)
(* has and has sent all of this user's writes.                             *)
CredentialsSettle == <>[](currentUser = auth.uid /\ pending[currentUser] = {})
=============================================================================
