------------------------------ MODULE CellBinding ------------------------------
(***************************************************************************)
(* The rows of the account table: AccountCell, the view models it is bound *)
(* to, and the Observable between them (AccountCell.swift, Observable.swift,*)
(* AccountsListController.swift).                                          *)
(*                                                                         *)
(* An observable has room for one listener.  A cell knows its view model   *)
(* by a weak reference, which is nil once DBManager.accounts has dropped   *)
(* the view model.  A listener does not write the label at once: it sends  *)
(* a block to the main queue, which holds these blocks and the reloads of  *)
(* the table, in FIFO order.                                               *)
(*                                                                         *)
(* currentCode and seconds are bound and released together; one observable *)
(* stands for both, and what a view model publishes is the number of       *)
(* values it has published before.                                         *)
(*                                                                         *)
(* External, modelled from how the code uses it: UITableView, which asks   *)
(* for a cell when a row comes on the screen, puts the cells of rows that  *)
(* leave it (all of them, on reloadData) in a pool, and calls              *)
(* prepareForReuse() on whichever cell of the pool it hands out next.      *)
(***************************************************************************)
EXTENDS Integers, Sequences, FiniteSets, SequencesExt

CONSTANTS
  VMs,       \* view models
  Cells,     \* cells
  NoVM,      \* viewModel = nil
  NoCell,    \* listener = nil; a row without a cell; a block for no cell
  Blank,     \* a label without text
  MaxRows,   \* bound: the length of the list
  MaxCode,   \* bound: values published by a view model after the first
  MaxQueue   \* bound: blocks in the main queue at which nothing is added

ASSUME CellAssumption ==
  /\ NoVM \notin VMs
  /\ NoCell \notin Cells
  /\ {MaxRows, MaxCode, MaxQueue} \subseteq Nat

VARIABLES
  list,       \* DBManager.accounts.value
  code,       \* code[v]: what view model v has published last
  listener,   \* listener[v]: the cell captured by v's listener
  viewModel,  \* viewModel[c]: AccountCell.viewModel
  label,      \* label[c]: the text of codeLabel and timeLabel
  made,       \* cells that exist
  rows,       \* rows[i]: the cell of the table's row i, if it is on screen
  queue,      \* blocks waiting for the main thread
  crashed     \* the process died of an index out of range

vars == <<list, code, listener, viewModel, label, made, rows, queue, crashed>>

-----------------------------------------------------------------------------
(* A published value.                                                      *)
Value == [vm: VMs, code: Nat]

ASSUME BlankAssumption == Blank \notin Value

(* A block that sets the label of a cell, and the block that reloads.      *)
Block == [cell: Cells, value: Value] \cup [cell: {NoCell}, value: {Blank}]

Show(c, x)  == [cell |-> c, value |-> x]
ReloadBlock == [cell |-> NoCell, value |-> Blank]

Room == Len(queue) < MaxQueue

(* View models not allocated yet, or whose traces are gone.                *)
Fresh ==
  {v \in VMs \ ToSet(list) :
     /\ \A c \in Cells : label[c] # Blank => label[c].vm # v
     /\ \A i \in DOMAIN queue : queue[i].value # Blank => queue[i].value.vm # v}

(* Cells that may be handed out again.                                     *)
Pool == made \ {rows[i] : i \in DOMAIN rows}

(* Definitions named Slip... are variants of the definition that follows,  *)
(* each with one plausible mistake; nothing of the specification uses them *)
(* (PROJECT.json puts them in the place of the definition, as mutants).    *)
SlipPrepareForReuse(c) == listener

SlipPrepareEvery(c) == [v \in VMs |-> NoCell]

(* prepareForReuse(): the listeners after removeListener() was called on   *)
(* the cell's view model, whichever cell the listener was for.             *)
PrepareForReuse(c) ==
  IF viewModel[c] = NoVM THEN listener ELSE [listener EXCEPT ![viewModel[c]] = NoCell]

SlipSetup(c, v) ==
  /\ viewModel' = [viewModel EXCEPT ![c] = v]
  /\ listener' = [PrepareForReuse(c) EXCEPT ![v] = c]
  /\ queue' = queue

(* setup(_:): the weak reference is set, and bind() replaces the listener  *)
(* and calls it with the current value.                                    *)
Setup(c, v) ==
  /\ viewModel' = [viewModel EXCEPT ![c] = v]
  /\ listener' = [PrepareForReuse(c) EXCEPT ![v] = c]
  /\ queue' = Append(queue, Show(c, [vm |-> v, code |-> code[v]]))

SlipSetAccounts(new) ==
  /\ list' = new
  /\ code' = [v \in VMs |-> IF v \in ToSet(new) THEN code[v] ELSE 0]
  /\ listener' = [v \in VMs |-> IF v \in ToSet(new) THEN listener[v] ELSE NoCell]
  /\ viewModel' = [c \in Cells |-> IF viewModel[c] \in ToSet(new) THEN viewModel[c] ELSE NoVM]
  /\ queue' = IF new = <<>> THEN queue ELSE Append(queue, ReloadBlock)
  /\ UNCHANGED <<label, made, rows, crashed>>

(* accounts.value = new: dropped view models are deallocated, which clears *)
(* the weak references to them, and the controller's reload is queued.     *)
SetAccounts(new) ==
  /\ list' = new
  /\ code' = [v \in VMs |-> IF v \in ToSet(new) THEN code[v] ELSE 0]
  /\ listener' = [v \in VMs |-> IF v \in ToSet(new) THEN listener[v] ELSE NoCell]
  /\ viewModel' = [c \in Cells |-> IF viewModel[c] \in ToSet(new) THEN viewModel[c] ELSE NoVM]
  /\ queue' = Append(queue, ReloadBlock)
  /\ UNCHANGED <<label, made, rows, crashed>>

-----------------------------------------------------------------------------
(* A list controller that is bound to the empty list of a new process.     *)
Init ==
  /\ list = <<>>
  /\ code = [v \in VMs |-> 0]
  /\ listener = [v \in VMs |-> NoCell]
  /\ viewModel = [c \in Cells |-> NoVM]
  /\ label = [c \in Cells |-> Blank]
  /\ made = {}
  /\ rows = <<>>
  /\ queue = <<ReloadBlock>>
  /\ crashed = FALSE

(* The process is started again.                                           *)
Relaunch ==
  /\ list' = <<>>
  /\ code' = [v \in VMs |-> 0]
  /\ listener' = [v \in VMs |-> NoCell]
  /\ viewModel' = [c \in Cells |-> NoVM]
  /\ label' = [c \in Cells |-> Blank]
  /\ made' = {}
  /\ rows' = <<>>
  /\ queue' = <<ReloadBlock>>
  /\ crashed' = FALSE

(* getSavedAccounts() replaces all view models, clear() leaves none.       *)
Load(new) ==
  /\ ~crashed /\ Room
  /\ SetAccounts(new)

(* saveAccount(_:)                                                         *)
SaveAccount(v) ==
  /\ ~crashed /\ Room
  /\ Len(list) < MaxRows
  /\ SetAccounts(Append(list, v))

(* deleteAccount(_:)                                                       *)
DeleteAccount(i) ==
  /\ ~crashed /\ Room
  /\ SetAccounts(RemoveAt(list, i))

(* A view model publishes a value: didSet calls the listener.              *)
Publish(v) ==
  /\ ~crashed /\ Room
  /\ code[v] < MaxCode
  /\ code' = [code EXCEPT ![v] = @ + 1]
  /\ queue' = IF listener[v] = NoCell THEN queue
              ELSE Append(queue, Show(listener[v], [vm |-> v, code |-> code[v] + 1]))
  /\ UNCHANGED <<list, listener, viewModel, label, made, rows, crashed>>

(* tableView(_:cellForRowAt:) for a row that comes on the screen.          *)
CellForRow(i, c) ==
  /\ ~crashed /\ Room
  /\ rows[i] = NoCell /\ i \in DOMAIN list
  /\ c \in Pool \/ (Pool = {} /\ c \notin made)
  /\ made' = made \cup {c}
  /\ rows' = [rows EXCEPT ![i] = c]
  /\ Setup(c, list[i])
  /\ UNCHANGED <<list, code, label, crashed>>

(* The same while the list is already shorter than the table.              *)
CellForRowTraps(i) ==
  /\ ~crashed
  /\ rows[i] = NoCell /\ i \notin DOMAIN list
  /\ crashed' = TRUE
  /\ UNCHANGED <<list, code, listener, viewModel, label, made, rows, queue>>

(* A row leaves the screen.                                                *)
ScrollOut(i) ==
  /\ ~crashed
  /\ rows[i] # NoCell
  /\ rows' = [rows EXCEPT ![i] = NoCell]
  /\ UNCHANGED <<list, code, listener, viewModel, label, made, queue, crashed>>

(* reloadData(): the table asks numberOfRowsInSection again and takes all  *)
(* cells off the screen, to ask for cells anew.                            *)
Reload ==
  /\ ~crashed /\ queue # <<>> /\ Head(queue) = ReloadBlock
  /\ queue' = Tail(queue)
  /\ rows' = [i \in DOMAIN list |-> NoCell]
  /\ UNCHANGED <<list, code, listener, viewModel, label, made, crashed>>

(* The block that a listener has queued sets the labels of its cell.       *)
SetLabel ==
  /\ ~crashed /\ queue # <<>> /\ Head(queue) # ReloadBlock
  /\ queue' = Tail(queue)
  /\ label' = [label EXCEPT ![Head(queue).cell] = Head(queue).value]
  /\ UNCHANGED <<list, code, listener, viewModel, made, rows, crashed>>

Next ==
  \/ Relaunch
  \/ \E n \in 0 .. MaxRows : \E new \in [1 .. n -> Fresh] : IsInjective(new) /\ Load(new)
  \/ \E v \in Fresh : SaveAccount(v)
  \/ \E i \in DOMAIN list : DeleteAccount(i)
  \/ \E v \in ToSet(list) : Publish(v)
  \/ \E i \in DOMAIN rows, c \in Cells : CellForRow(i, c)
  \/ \E i \in DOMAIN rows : CellForRowTraps(i)
  \/ \E i \in DOMAIN rows : ScrollOut(i)
  \/ Reload
  \/ SetLabel

Spec == Init /\ [][Next]_vars

(* The main thread serves its queue; nothing else is asked.                *)
FairSpec == Spec /\ WF_vars(Reload \/ SetLabel)

-----------------------------------------------------------------------------
(***************************************************************************)
(* Properties.                                                             *)
(***************************************************************************)

(* Every variable has its type.                                            *)
TypeOK ==
  /\ list \in Seq(VMs)
  /\ code \in [VMs -> Nat]
  /\ listener \in [VMs -> Cells \cup {NoCell}]
  /\ viewModel \in [Cells -> VMs \cup {NoVM}]
  /\ label \in [Cells -> Value \cup {Blank}]
  /\ made \in SUBSET Cells
  /\ rows \in Seq(Cells \cup {NoCell})
  /\ queue \in Seq(Block)
  /\ crashed \in BOOLEAN

(* x is what cell c shows when the blocks of q have run, beginning with    *)
(* the text now.                                                           *)
ShownAfter(q, now, c, x) ==
  \/ now = x /\ \A i \in DOMAIN q : q[i].cell # c
  \/ \E i \in DOMAIN q :
       /\ q[i] = Show(c, x)
       /\ \A j \in DOMAIN q : j > i => q[j].cell # c

(* A row never ends up with the code of another account: however cells are *)
(* reused while blocks are on their way, the last block for a cell carries *)
(* a value of the view model the cell is bound to.                         *)
RowShowsOwnCode ==
  \A c \in Cells : viewModel[c] # NoVM =>
    \E n \in 0 .. code[viewModel[c]] :
      ShownAfter(queue, label[c], c, [vm |-> viewModel[c], code |-> n])

(* A listener always belongs to the cell that is bound to its view model,  *)
(* and that cell ends up showing the value published last.                 *)
LiveRowCurrent ==
  \A v \in VMs : listener[v] # NoCell =>
    /\ viewModel[listener[v]] = v
    /\ ShownAfter(queue, label[listener[v]], listener[v], [vm |-> v, code |-> code[v]])

(* What a view model has published reaches the label of the cell that      *)
(* listens to it, unless the cell is reused or the process ends first.     *)
LabelsArrive ==
  \A c \in Cells, v \in VMs, n \in 0 .. MaxCode :
    (listener[v] = c /\ code[v] = n)
      ~> \/ label[c] # Blank /\ label[c].vm = v /\ label[c].code >= n
         \/ viewModel[c] # v
         \/ crashed

ReloadWaits == \E i \in DOMAIN queue : queue[i] = ReloadBlock

(* A row is asked for beyond the end of the list, and the subscript traps, *)
(* only while the reload that every change of the list queues still waits. *)
TrapOnlyBeforeReload == [][~crashed /\ crashed' => ReloadWaits]_vars

(* A row that stays on the screen stops following the code of its account  *)
(* only when a cell of the pool that was once bound to the same view model *)
(* is handed out for another row (prepareForReuse() then takes away a      *)
(* listener that is no longer its own), or when the row is asked for at a  *)
(* new place of the list before the table is reloaded.                     *)
RowFreezesOnlyByReuse ==
  [][\A i \in DOMAIN rows, v \in VMs :
       (/\ rows[i] # NoCell /\ listener[v] = rows[i]
        /\ i \in DOMAIN rows' /\ rows'[i] = rows[i]
        /\ viewModel'[rows[i]] = v /\ listener'[v] # rows[i])
         => \/ \E d \in Pool : viewModel[d] = v /\ viewModel'[d] # v
            \/ ReloadWaits /\ listener'[v] # NoCell]_vars
=============================================================================
