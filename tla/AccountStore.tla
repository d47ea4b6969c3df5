------------------------------ MODULE AccountStore ------------------------------
(***************************************************************************)
(* The list of linked accounts: DBManager with its Firestore collection    *)
(* users/<uid>/accounts, AuthManager with its auth-state listener, and the *)
(* AccountsListController that shows the list.                             *)
(*                                                                         *)
(* The app's code runs on the main thread.  A handler is one action; what  *)
(* it dispatches to the main queue, and what Firebase delivers there, is   *)
(* an event of mainQueue, taken in FIFO order with user input in between.  *)
(*                                                                         *)
(* External, modelled from how the code uses it: FirebaseAuth (currentUser *)
(* changes at once, listeners hear of it on the main queue) and Firestore  *)
(* (a worker queue, `work`, that takes reads and writes in the order of    *)
(* the calls; a read is answered later, from the server or from the cache, *)
(* with the documents the worker knows at that moment).                    *)
(***************************************************************************)
EXTENDS Integers, Sequences, FiniteSets, SequencesExt

CONSTANTS
  Users,       \* Firebase uids
  Accounts,    \* account ids, numbers in the order Firestore sorts ids in
  Owner,       \* Owner[a]: the user who links account a, or NoUser when it
               \* is scanned while nobody is signed in
  Malformed,   \* documents that Account(dict:) rejects
  NoUser,      \* currentUser = nil
  Unheard,     \* the auth listener has not been called yet
  NoAlert,     \* no question is on the screen
  Failures,    \* a user's own reads may end in an error
  Revocable,   \* Firebase may sign the user out by force
  MaxLoad      \* bound: events, operations and reads under way at which no
               \* further input comes

ASSUME StoreAssumption ==
  /\ Accounts \subseteq Nat
  /\ IsFiniteSet(Accounts)
  /\ Owner \in [Accounts -> Users \cup {NoUser}]
  /\ Malformed \subseteq Accounts
  /\ NoUser \notin Users /\ Unheard \notin Users \cup {NoUser}
  /\ {Failures, Revocable} \subseteq BOOLEAN
  /\ MaxLoad \in Nat

VARIABLES
  currentUser,      \* Auth.auth().currentUser?.uid, kept in the keychain
  heard,            \* the uid the auth listener was last called for
  accounts,         \* DBManager.accounts.value: the ids of the view models
  isFirstLoadMade,  \* DBManager.isFirstLoadMade
  docs,             \* docs[u]: the documents Firestore holds for user u
  work,             \* operations the Firestore worker has not taken yet
  gets,             \* gets[u]: reads of u's collection without an answer
  mainQueue,        \* blocks and callbacks waiting for the main thread
  home,             \* an AccountsListController is alive and bound
  shown,            \* the rows its table was last reloaded with
  emptyMessage,     \* tableView.backgroundView is the EmptyListMessage
  refreshing,       \* the refresh control is spinning
  alert,            \* "Delete this account?" is being asked
  used,             \* ids given out so far: UUIDs do not repeat
  crashed           \* the process died of an index out of range

dbVars     == <<accounts, isFirstLoadMade>>
authVars   == <<currentUser, heard>>
storeVars  == <<docs, work, gets>>
screenVars == <<home, shown, emptyMessage, refreshing, alert>>
vars == <<authVars, dbVars, storeVars, mainQueue, screenVars, used, crashed>>

-----------------------------------------------------------------------------
(***************************************************************************)
(* Data.                                                                   *)
(***************************************************************************)
Alert == [row: Nat, target: Accounts]

(* Firestore operations: setData, delete, getDocuments.                    *)
Op == [op: {"set", "delete"}, user: Users, id: Accounts] \cup [op: {"get"}, user: Users]

(* Events of the main queue: the auth listener, the completion of a        *)
(* sign-in, the controller's reload block, the callback of getDocuments.   *)
Event == [kind: {"auth", "signedIn", "reload"}]
         \cup [kind: {"get"}, user: Users, list: Seq(Accounts)]

AuthEvent     == [kind |-> "auth"]
SignedInEvent == [kind |-> "signedIn"]
ReloadEvent   == [kind |-> "reload"]

Queued(kind) == \E i \in DOMAIN mainQueue : mainQueue[i].kind = kind

(* The bound on what is under way, a guard of whatever comes from outside. *)
Room == Len(mainQueue) + Len(work) + MapThenSumSet(LAMBDA u : gets[u], Users) < MaxLoad

(* A collection is listed in the order of its document ids; Account(dict:) *)
(* passes over what it cannot read.                                        *)
Listings(S) ==
  LET good == S \ Malformed
  IN  {s \in [1 .. Cardinality(good) -> good] :
         \A i, j \in DOMAIN s : i < j => s[i] < s[j]}

(* Definitions named Slip... are variants of the definition that follows,  *)
(* each with one plausible mistake; nothing of the specification uses them *)
(* (PROJECT.json puts them in the place of the definition, as mutants).    *)
SlipSetAccounts(list, queue) ==
  /\ accounts' = list
  /\ mainQueue' = queue

(* accounts.value = ... : didSet calls the listener, whose closure queues  *)
(* a reload; a controller that is gone makes that reload do nothing.       *)
SetAccounts(list, queue) ==
  /\ accounts' = list
  /\ mainQueue' = IF home THEN Append(queue, ReloadEvent) ELSE queue

(* An operation on the collection of the current user, if there is one:    *)
(* `guard let uid = AuthManager.shared.currentUserID else { return }`.     *)
Ask(op) == work' = IF currentUser = NoUser THEN work ELSE Append(work, op)

GetSavedAccounts  == Ask([op |-> "get", user |-> currentUser])

SlipSetData(a) == Ask([op |-> "set", user |-> CHOOSE u \in Users : TRUE, id |-> a])

SetData(a)        == Ask([op |-> "set", user |-> currentUser, id |-> a])

SlipDeleteDocument(a) == work' = work
DeleteDocument(a) == Ask([op |-> "delete", user |-> currentUser, id |-> a])

-----------------------------------------------------------------------------
(***************************************************************************)
(* Launch.                                                                 *)
(***************************************************************************)

(* scene(willConnectTo:): AuthManager.shared registers the auth listener,  *)
(* whose first call is queued; a user who is logged in gets the list,      *)
(* bound with bind(true), which queues a reload.                           *)
LaunchQueue(user) == IF user = NoUser THEN <<AuthEvent>> ELSE <<AuthEvent, ReloadEvent>>

Init ==
  /\ currentUser \in Users \cup {NoUser}
  /\ heard = Unheard
  /\ accounts = <<>> /\ isFirstLoadMade = FALSE
  /\ used \in SUBSET {a \in Accounts : Owner[a] # NoUser}
  /\ docs = [u \in Users |-> {a \in used : Owner[a] = u}]
  /\ work = <<>> /\ gets = [u \in Users |-> 0]
  /\ mainQueue = LaunchQueue(currentUser)
  /\ home = (currentUser # NoUser)
  /\ shown = <<>> /\ emptyMessage = FALSE /\ refreshing = FALSE /\ alert = NoAlert
  /\ crashed = FALSE

(* The process ends, by a crash or by the system, and is started again.    *)
(* Keychain and documents survive; operations not yet taken are lost.      *)
Relaunch ==
  /\ heard' = Unheard
  /\ accounts' = <<>> /\ isFirstLoadMade' = FALSE
  /\ work' = <<>> /\ gets' = [u \in Users |-> 0]
  /\ mainQueue' = LaunchQueue(currentUser)
  /\ home' = (currentUser # NoUser)
  /\ shown' = <<>> /\ emptyMessage' = FALSE /\ refreshing' = FALSE /\ alert' = NoAlert
  /\ crashed' = FALSE
  /\ UNCHANGED <<currentUser, docs, used>>

-----------------------------------------------------------------------------
(***************************************************************************)
(* Signing in and out.                                                     *)
(***************************************************************************)

(* Firebase has accepted a sign-in from the login screen: the user is set, *)
(* the listeners' notification is queued, then the completion.             *)
SignIn(u) ==
  /\ ~crashed /\ ~home /\ ~Queued("signedIn")
  /\ Room
  /\ currentUser' = u
  /\ mainQueue' = mainQueue \o <<AuthEvent, SignedInEvent>>
  /\ UNCHANGED <<heard, dbVars, storeVars, screenVars, used, crashed>>

(* The completion: showHomeScreen() makes a list controller and binds it.  *)
SignedIn ==
  /\ ~crashed /\ mainQueue # <<>> /\ Head(mainQueue) = SignedInEvent
  /\ home' = TRUE
  /\ shown' = accounts /\ emptyMessage' = FALSE /\ refreshing' = FALSE /\ alert' = NoAlert
  /\ mainQueue' = Append(Tail(mainQueue), ReloadEvent)
  /\ UNCHANGED <<authVars, dbVars, storeVars, used, crashed>>

(* "Sign Out" in the settings: signOut() and then showLoginScreen(), which *)
(* releases the list controller.                                           *)
SignOut ==
  /\ ~crashed /\ home /\ alert = NoAlert
  /\ Room
  /\ currentUser' = NoUser
  /\ home' = FALSE
  /\ shown' = <<>> /\ emptyMessage' = FALSE /\ refreshing' = FALSE
  /\ mainQueue' = IF currentUser = NoUser THEN mainQueue ELSE Append(mainQueue, AuthEvent)
  /\ UNCHANGED <<heard, dbVars, storeVars, alert, used, crashed>>

(* Firebase finds the token invalid and signs the user out under the app.  *)
ForcedSignOut ==
  /\ Revocable /\ ~crashed /\ currentUser # NoUser
  /\ Room
  /\ currentUser' = NoUser
  /\ mainQueue' = Append(mainQueue, AuthEvent)
  /\ UNCHANGED <<heard, dbVars, storeVars, screenVars, used, crashed>>

SlipAuthStateChanged ==
  /\ ~crashed /\ mainQueue # <<>> /\ Head(mainQueue) = AuthEvent
  /\ heard # currentUser
  /\ heard' = currentUser
  /\ isFirstLoadMade' = FALSE
  /\ mainQueue' = Tail(mainQueue)
  /\ GetSavedAccounts
  /\ UNCHANGED <<currentUser, accounts, docs, gets, screenVars, used, crashed>>

(* The auth listener: prepareData(), that is clear() and                   *)
(* getSavedAccounts(), for the user there is when the listener runs.       *)
AuthStateChanged ==
  /\ ~crashed /\ mainQueue # <<>> /\ Head(mainQueue) = AuthEvent
  /\ heard # currentUser
  /\ heard' = currentUser
  /\ isFirstLoadMade' = FALSE
  /\ SetAccounts(<<>>, Tail(mainQueue))
  /\ GetSavedAccounts
  /\ UNCHANGED <<currentUser, docs, gets, screenVars, used, crashed>>

(* The listener is not called for the user it was last called for.         *)
AuthStateSame ==
  /\ ~crashed /\ mainQueue # <<>> /\ Head(mainQueue) = AuthEvent
  /\ heard = currentUser
  /\ mainQueue' = Tail(mainQueue)
  /\ UNCHANGED <<authVars, dbVars, storeVars, screenVars, used, crashed>>

-----------------------------------------------------------------------------
(***************************************************************************)
(* Reading and writing.                                                    *)
(***************************************************************************)

(* The Firestore worker takes the oldest operation.                        *)
TakeOp ==
  /\ ~crashed /\ work # <<>>
  /\ LET o == Head(work) IN
     /\ docs' = CASE o.op = "set"    -> [docs EXCEPT ![o.user] = @ \cup {o.id}]
                  [] o.op = "delete" -> [docs EXCEPT ![o.user] = @ \ {o.id}]
                  [] OTHER           -> docs
     /\ gets' = IF o.op = "get" THEN [gets EXCEPT ![o.user] = @ + 1] ELSE gets
     /\ work' = Tail(work)
  /\ UNCHANGED <<authVars, dbVars, mainQueue, screenVars, used, crashed>>

(* A read is answered, whoever is signed in by now: the stream of the user *)
(* who asked is open until the worker, behind other operations, hears of   *)
(* the change, and the cache serves the documents of every user.           *)
AnswerGet(u) ==
  /\ ~crashed /\ gets[u] > 0
  /\ gets' = [gets EXCEPT ![u] = @ - 1]
  /\ \E s \in Listings(docs[u]) :
       mainQueue' = Append(mainQueue, [kind |-> "get", user |-> u, list |-> s])
  /\ UNCHANGED <<authVars, dbVars, docs, work, screenVars, used, crashed>>

(* A read ends in an error: the callback prints it and returns.  The       *)
(* server may deny a read of another user's documents.                     *)
FailGet(u) ==
  /\ ~crashed /\ gets[u] > 0
  /\ Failures \/ u # currentUser
  /\ gets' = [gets EXCEPT ![u] = @ - 1]
  /\ UNCHANGED <<authVars, dbVars, docs, work, mainQueue, screenVars, used, crashed>>

SlipGetCallback ==
  /\ ~crashed /\ mainQueue # <<>> /\ Head(mainQueue).kind = "get"
  /\ isFirstLoadMade' = TRUE
  /\ SetAccounts(accounts \o Head(mainQueue).list, Tail(mainQueue))
  /\ UNCHANGED <<authVars, storeVars, screenVars, used, crashed>>

(* The callback of getDocuments replaces the list, whoever is signed in.   *)
GetCallback ==
  /\ ~crashed /\ mainQueue # <<>> /\ Head(mainQueue).kind = "get"
  /\ isFirstLoadMade' = TRUE
  /\ SetAccounts(Head(mainQueue).list, Tail(mainQueue))
  /\ UNCHANGED <<authVars, storeVars, screenVars, used, crashed>>

(* Pull to refresh.                                                        *)
Refresh ==
  /\ ~crashed /\ home /\ alert = NoAlert /\ ~refreshing
  /\ Room
  /\ refreshing' = TRUE
  /\ GetSavedAccounts
  /\ UNCHANGED <<authVars, dbVars, docs, gets, mainQueue, home, shown, emptyMessage,
                 alert, used, crashed>>

(* saveAccount(_:) for a scanned account, with a new UUID.                 *)
SaveAccount(a) ==
  /\ ~crashed /\ home /\ alert = NoAlert
  /\ a \in Accounts \ (used \cup Malformed) /\ Owner[a] = currentUser
  /\ Room
  /\ used' = used \cup {a}
  /\ SetAccounts(Append(accounts, a), mainQueue)
  /\ SetData(a)
  /\ UNCHANGED <<authVars, isFirstLoadMade, docs, gets, screenVars, crashed>>

(* Swiping a row and tapping Delete asks; the row's index is captured.     *)
AskDelete(i) ==
  /\ ~crashed /\ home /\ alert = NoAlert
  /\ i \in DOMAIN shown
  /\ alert' = [row |-> i, target |-> shown[i]]
  /\ UNCHANGED <<authVars, dbVars, storeVars, mainQueue, home, shown, emptyMessage,
                 refreshing, used, crashed>>

CancelDelete ==
  /\ ~crashed /\ alert # NoAlert
  /\ alert' = NoAlert
  /\ UNCHANGED <<authVars, dbVars, storeVars, mainQueue, home, shown, emptyMessage,
                 refreshing, used, crashed>>

(* deleteAccount(_:) with the captured index.                              *)
DeleteAccount ==
  /\ ~crashed /\ alert # NoAlert
  /\ alert.row \in DOMAIN accounts
  /\ Room
  /\ alert' = NoAlert
  /\ SetAccounts(RemoveAt(accounts, alert.row), mainQueue)
  /\ DeleteDocument(accounts[alert.row])
  /\ UNCHANGED <<authVars, isFirstLoadMade, docs, gets, home, shown, emptyMessage,
                 refreshing, used, crashed>>

(* The same when the list has become shorter: the subscript traps.         *)
DeleteTraps ==
  /\ ~crashed /\ alert # NoAlert
  /\ alert.row \notin DOMAIN accounts
  /\ crashed' = TRUE
  /\ UNCHANGED <<authVars, dbVars, storeVars, mainQueue, screenVars, used>>

SlipReload ==
  /\ ~crashed /\ home /\ mainQueue # <<>> /\ Head(mainQueue) = ReloadEvent
  /\ mainQueue' = Tail(mainQueue)
  /\ emptyMessage' = (accounts = <<>> /\ isFirstLoadMade)
  /\ shown' = accounts
  /\ UNCHANGED <<authVars, dbVars, storeVars, home, alert, refreshing, used, crashed>>

(* The controller's block: checkList(), reloadData(), endRefreshing().     *)
Reload ==
  /\ ~crashed /\ home /\ mainQueue # <<>> /\ Head(mainQueue) = ReloadEvent
  /\ mainQueue' = Tail(mainQueue)
  /\ emptyMessage' = (accounts = <<>> /\ isFirstLoadMade)
  /\ shown' = accounts
  /\ refreshing' = FALSE
  /\ UNCHANGED <<authVars, dbVars, storeVars, home, alert, used, crashed>>

(* The same block when its controller is gone: `self?` is nil.  A later    *)
(* controller is made by an event that was queued after the block.         *)
ReloadNobody ==
  /\ ~crashed /\ ~home /\ mainQueue # <<>> /\ Head(mainQueue) = ReloadEvent
  /\ mainQueue' = Tail(mainQueue)
  /\ UNCHANGED <<authVars, dbVars, storeVars, screenVars, used, crashed>>

MainThread ==
  SignedIn \/ AuthStateChanged \/ AuthStateSame \/ GetCallback \/ Reload \/ ReloadNobody

Next ==
  \/ Relaunch
  \/ \E u \in Users : SignIn(u)
  \/ SignedIn
  \/ SignOut
  \/ ForcedSignOut
  \/ AuthStateChanged
  \/ AuthStateSame
  \/ TakeOp
  \/ \E u \in Users : AnswerGet(u)
  \/ \E u \in Users : FailGet(u)
  \/ GetCallback
  \/ Refresh
  \/ \E a \in Accounts : SaveAccount(a)
  \/ \E i \in DOMAIN shown : AskDelete(i)
  \/ CancelDelete
  \/ DeleteAccount
  \/ DeleteTraps
  \/ Reload
  \/ ReloadNobody

Spec == Init /\ [][Next]_vars

(* The main thread and the Firestore worker go on, and a read is answered  *)
(* or fails in the end; nothing is asked of the user.                      *)
FairSpec ==
  /\ Spec
  /\ WF_vars(MainThread)
  /\ WF_vars(TakeOp)
  /\ \A u \in Users : WF_vars(AnswerGet(u) \/ FailGet(u))

-----------------------------------------------------------------------------
(***************************************************************************)
(* Properties.                                                             *)
(***************************************************************************)

(* Every variable has its type.                                            *)
TypeOK ==
  /\ currentUser \in Users \cup {NoUser}
  /\ heard \in Users \cup {NoUser, Unheard}
  /\ accounts \in Seq(Accounts)
  /\ isFirstLoadMade \in BOOLEAN
  /\ docs \in [Users -> SUBSET Accounts]
  /\ work \in Seq(Op)
  /\ gets \in [Users -> Nat]
  /\ mainQueue \in Seq(Event)
  /\ home \in BOOLEAN
  /\ shown \in Seq(Accounts)
  /\ emptyMessage \in BOOLEAN
  /\ refreshing \in BOOLEAN
  /\ alert \in Alert \cup {NoAlert}
  /\ used \in SUBSET Accounts
  /\ crashed \in BOOLEAN

Listed == {accounts[i] : i \in DOMAIN accounts}

(* The documents of user u once the worker has taken what it was asked.    *)
Intended(u) ==
  LET asked(op) == {a \in Accounts : \E i \in DOMAIN work :
                      work[i] = [op |-> op, user |-> u, id |-> a]}
  IN  (docs[u] \cup asked("set")) \ asked("delete")

(* Once its reload blocks have run, the table shows the account list of    *)
(* DBManager, and the empty-list message exactly if a list was loaded and  *)
(* is empty: whichever handler changed either, it told the controller.     *)
ScreenCurrent ==
  home /\ ~Queued("reload") =>
    /\ shown = accounts
    /\ emptyMessage = (accounts = <<>> /\ isFirstLoadMade)

(* No account is listed twice, however a scanned account, its own write    *)
(* and the snapshots of overlapping reads arrive.                          *)
NoDuplicates ==
  \A i, j \in DOMAIN accounts : accounts[i] = accounts[j] => i = j

Foreign == currentUser # NoUser /\ \E a \in Listed : Owner[a] \notin {currentUser, NoUser}

(* Another user's account gets on the list of a signed-in user only by the *)
(* callback of a read that was asked for that other user: getDocuments does not compare the uid when the     *)
(* answer comes.                                                           *)
ForeignOnlyByLateAnswer ==
  [][~Foreign /\ Foreign' =>
       \/ currentUser' # currentUser
       \/ GetCallback /\ Head(mainQueue).user # currentUser]_vars

(* The users with a read that the worker has not taken, that is not        *)
(* answered, or whose callback waits.                                      *)
Readers ==
  {u \in Users :
     \/ gets[u] > 0
     \/ \E i \in DOMAIN work : work[i].op = "get" /\ work[i].user = u
     \/ \E i \in DOMAIN mainQueue : mainQueue[i].kind = "get" /\ mainQueue[i].user = u}

(* No read of another user is under way, and the list is u's own if the    *)
(* auth listener has been called for u.                                    *)
OwnList(u) == Readers \subseteq {u} /\ (heard = u => ~Foreign)

(* What a change of user leaves behind ends with the reads it found under  *)
(* way: from then on, while u stays signed in, no read of another user is  *)
(* started, by whatever handler and whenever it reads the uid, and the     *)
(* list that the listener has cleared for u names no account of another.   *)
OwnListStays ==
  [][\A u \in Users :
       currentUser = u /\ currentUser' = u /\ OwnList(u) => OwnList(u)']_vars

(* The list of a signed-in user is that of the store.                      *)
Agree ==
  /\ currentUser # NoUser
  /\ isFirstLoadMade
  /\ Listed = Intended(currentUser) \ Malformed

(* Saving and deleting keep list and store in agreement.  It is lost only  *)
(* when the user changes, the list is cleared, or a read's answer arrives  *)
(* that is of another user or older than a later save or delete.           *)
AgreementKept ==
  [][Agree /\ ~Agree' =>
       \/ currentUser' # currentUser
       \/ accounts' = <<>> /\ ~isFirstLoadMade'
       \/ /\ GetCallback
          /\ \/ Head(mainQueue).user # currentUser
             \/ ToSet(Head(mainQueue).list) # Intended(currentUser) \ Malformed]_vars

(* The account the user is asked about is the one that Delete will delete. *)
AlertNamesRow ==
  alert # NoAlert =>
    /\ alert.row \in DOMAIN accounts
    /\ accounts[alert.row] = alert.target

(* The refresh control stops spinning, unless the session is revoked; it   *)
(* takes that no read fails: nothing but a change of the list ends it.     *)
RefreshEnds == refreshing ~> ~refreshing \/ crashed \/ currentUser = NoUser

(* A late answer does no lasting harm: with a read of u's own under way    *)
(* and none of another user, a signed-in u has a list without another      *)
(* user's accounts in the end (again, no own read fails).                  *)
OwnListReturns ==
  \A u \in Users :
    currentUser = u /\ Readers = {u} ~> currentUser # u \/ crashed \/ OwnList(u)
=============================================================================
