--------------------------- MODULE CellBindingProofs ---------------------------
(***************************************************************************)
(* Machine-checked proofs about CellBinding, for every number of cells and *)
(* view models and every bound.                                            *)
(*                                                                         *)
(* RowShowsOwnCode is not inductive: a listener of an earlier view model   *)
(* could still write into a cell.  LiveRowCurrent, which says that every   *)
(* listener belongs to the cell bound to its view model, rules that out,   *)
(* and the two are inductive together.  Both speak of the last block for a *)
(* cell; the lemmas on ShownAfter say how a block more or less changes it. *)
(*                                                                         *)
(* What goes wrong with the rows themselves (a trap, a frozen row) rests   *)
(* on a second invariant, Table: as long as no reload waits, the table has *)
(* the rows of the list, each cell bound to the view model of its row.     *)
(***************************************************************************)
EXTENDS CellBinding, SequenceTheorems, TLAPS

IInv == TypeOK /\ RowShowsOwnCode /\ LiveRowCurrent

-----------------------------------------------------------------------------
(* Facts about the operators.                                              *)

(* Removing row k: the rows above it stay, those below move up.            *)
LEMMA RemoveRow ==
  ASSUME NEW S, NEW s \in Seq(S), NEW k \in DOMAIN s
  PROVE  /\ RemoveAt(s, k) \in Seq(S)
         /\ DOMAIN RemoveAt(s, k) = 1 .. Len(s) - 1
         /\ \A i \in 1 .. Len(s) - 1 :
              RemoveAt(s, k)[i] = IF i < k THEN s[i] ELSE s[i + 1]
<1> DEFINE l == SubSeq(s, 1, k - 1)
           r == SubSeq(s, k + 1, Len(s))
<1>1. k \in 1 .. Len(s) /\ Len(s) \in Nat /\ \A i \in 1 .. Len(s) : s[i] \in S
  OBVIOUS
<1>2. l \in Seq(S) /\ Len(l) = k - 1 /\ \A i \in 1 .. k - 1 : l[i] = s[i]
  BY <1>1, SubSeqProperties
<1>3. r \in Seq(S) /\ Len(r) = Len(s) - k /\ \A i \in 1 .. Len(s) - k : r[i] = s[k + i]
  BY <1>1, SubSeqProperties
<1> HIDE DEF l, r
<1>4. l \o r \in Seq(S) /\ Len(l \o r) = Len(s) - 1
  BY <1>1, <1>2, <1>3, ConcatProperties
<1>5. DOMAIN (l \o r) = 1 .. Len(s) - 1
  BY <1>4, LenProperties
<1>6. \A i \in 1 .. Len(s) - 1 : (l \o r)[i] = IF i < k THEN s[i] ELSE s[i + 1]
  <2> SUFFICES ASSUME NEW i \in 1 .. Len(s) - 1
               PROVE  (l \o r)[i] = IF i < k THEN s[i] ELSE s[i + 1]
    OBVIOUS
  <2>1. (l \o r)[i] = IF i <= Len(l) THEN l[i] ELSE r[i - Len(l)]
    <3>1. i \in 1 .. Len(l) + Len(r)
      BY <1>1, <1>2, <1>3
    <3>2. \A n \in 1 .. Len(l) + Len(r) :
            (l \o r)[n] = IF n <= Len(l) THEN l[n] ELSE r[n - Len(l)]
      BY <1>2, <1>3, ConcatProperties, Zenon
    <3> QED  BY <3>1, <3>2
  <2>2. CASE i < k
    BY <1>1, <1>2, <2>1, <2>2
  <2>3. CASE ~(i < k)
    <3>1. i - (k - 1) \in 1 .. Len(s) - k /\ k + (i - (k - 1)) = i + 1
      BY <1>1, <2>3
    <3>2. (l \o r)[i] = r[i - (k - 1)]
      BY <1>1, <1>2, <2>1, <2>3
    <3> QED  BY <1>3, <2>3, <3>1, <3>2
  <2> QED  BY <2>2, <2>3
<1> QED  BY <1>4, <1>5, <1>6 DEF RemoveAt, l, r

(* A value that carries a cell is a block; a block is for a cell or is the *)
(* reload.                                                                 *)
LEMMA Blocks ==
  /\ ReloadBlock \in Block
  /\ \A c \in Cells, x \in Value : Show(c, x) \in Block
  /\ \A b \in Block : b # ReloadBlock => b.cell \in Cells /\ b.value \in Value /\ b = Show(b.cell, b.value)
  /\ \A b \in Block : b = ReloadBlock <=> b.cell = NoCell
BY CellAssumption DEF Block, ReloadBlock, Show

(* A block for another cell, or a reload, changes nothing for c.           *)
LEMMA ShownOther ==
  ASSUME NEW q \in Seq(Block), NEW l, NEW c, NEW x, NEW b \in Block,
         ShownAfter(q, l, c, x), b.cell # c
  PROVE  ShownAfter(Append(q, b), l, c, x)
<1> DEFINE r == Append(q, b)
<1>1. /\ DOMAIN q = 1 .. Len(q) /\ Len(q) \in Nat
      /\ DOMAIN r = 1 .. Len(q) + 1
      /\ \A i \in 1 .. Len(q) : r[i] = q[i]
      /\ r[Len(q) + 1] = b
  BY AppendProperties
<1> HIDE DEF r
<1>2. CASE l = x /\ \A i \in DOMAIN q : q[i].cell # c
  BY <1>1, <1>2 DEF ShownAfter, r
<1>3. CASE \E i \in DOMAIN q : q[i] = Show(c, x) /\ \A j \in DOMAIN q : j > i => q[j].cell # c
  <2>1. PICK i \in DOMAIN q : q[i] = Show(c, x) /\ \A j \in DOMAIN q : j > i => q[j].cell # c
    BY <1>3
  <2>2. i \in DOMAIN r /\ r[i] = Show(c, x)
    BY <1>1, <2>1
  <2>3. \A j \in DOMAIN r : j > i => r[j].cell # c
    BY <1>1, <2>1
  <2> QED  BY <2>2, <2>3 DEF ShownAfter, r
<1> QED  BY <1>2, <1>3 DEF ShownAfter

(* A block for c is what c will show.                                      *)
LEMMA ShownNew ==
  ASSUME NEW q \in Seq(Block), NEW l, NEW c \in Cells, NEW x \in Value
  PROVE  ShownAfter(Append(q, Show(c, x)), l, c, x)
<1> DEFINE r == Append(q, Show(c, x))
<1>1. /\ Len(q) \in Nat
      /\ DOMAIN r = 1 .. Len(q) + 1
      /\ r[Len(q) + 1] = Show(c, x)
  BY AppendProperties, Blocks
<1> HIDE DEF r
<1>2. Len(q) + 1 \in DOMAIN r /\ \A j \in DOMAIN r : ~(j > Len(q) + 1)
  BY <1>1
<1> QED  BY <1>1, <1>2 DEF ShownAfter, r

(* Running the oldest block moves its value from the queue to the label.   *)
LEMMA ShownTail ==
  ASSUME NEW q \in Seq(Block), q # <<>>, NEW l, NEW c, NEW x, ShownAfter(q, l, c, x)
  PROVE  ShownAfter(Tail(q), IF Head(q).cell = c THEN Head(q).value ELSE l, c, x)
<1> DEFINE r == Tail(q)
           m == IF Head(q).cell = c THEN Head(q).value ELSE l
<1>1. /\ DOMAIN q = 1 .. Len(q) /\ Len(q) \in Nat \ {0}
      /\ DOMAIN r = 1 .. Len(q) - 1
      /\ \A i \in 1 .. Len(q) - 1 : r[i] = q[i + 1]
      /\ Head(q) = q[1]
  BY HeadTailProperties, EmptySeq
<1>2. \A j \in DOMAIN r : j + 1 \in DOMAIN q /\ r[j] = q[j + 1]
  BY <1>1
<1> HIDE DEF r
<1>3. CASE l = x /\ \A i \in DOMAIN q : q[i].cell # c
  <2>1. m = x
    BY <1>1, <1>3
  <2> QED  BY <1>2, <1>3, <2>1 DEF ShownAfter, r
<1>4. CASE \E i \in DOMAIN q : q[i] = Show(c, x) /\ \A j \in DOMAIN q : j > i => q[j].cell # c
  <2>1. PICK i \in DOMAIN q : q[i] = Show(c, x) /\ \A j \in DOMAIN q : j > i => q[j].cell # c
    BY <1>4
  <2>2. CASE i = 1
    <3>1. m = x
      BY <1>1, <2>1, <2>2 DEF Show
    <3>2. \A j \in DOMAIN r : j + 1 > i
      BY <1>1, <2>2
    <3> QED  BY <1>2, <2>1, <3>1, <3>2 DEF ShownAfter, r
  <2>3. CASE i # 1
    <3>1. i - 1 \in DOMAIN r /\ r[i - 1] = Show(c, x)
      BY <1>1, <2>1, <2>3
    <3>2. \A j \in DOMAIN r : j > i - 1 => j + 1 > i
      BY <1>1, <2>1
    <3> QED  BY <1>2, <2>1, <3>1, <3>2 DEF ShownAfter, r
  <2> QED  BY <2>2, <2>3
<1> QED  BY <1>3, <1>4 DEF ShownAfter

-----------------------------------------------------------------------------
(* IInv is inductive.                                                      *)

(* A launched process satisfies IInv.                                      *)
LEMMA InitIInv ==
  Init => IInv
<1> SUFFICES ASSUME Init PROVE IInv
  OBVIOUS
<1>1. list \in Seq(VMs) /\ rows \in Seq(Cells \cup {NoCell}) /\ <<ReloadBlock>> \in Seq(Block)
  BY EmptySeq, Blocks DEF Init
<1>2. TypeOK
  BY <1>1 DEF Init, TypeOK
<1> QED  BY <1>2 DEF Init, IInv, RowShowsOwnCode, LiveRowCurrent

(* So does a process that is launched again.                               *)
LEMMA RelaunchIInv ==
  Relaunch => IInv'
<1> SUFFICES ASSUME Relaunch PROVE IInv'
  OBVIOUS
<1>1. list' \in Seq(VMs) /\ rows' \in Seq(Cells \cup {NoCell}) /\ <<ReloadBlock>> \in Seq(Block)
  BY EmptySeq, Blocks DEF Relaunch
<1>2. TypeOK'
  BY <1>1 DEF Relaunch, TypeOK
<1> QED  BY <1>2 DEF Relaunch, IInv, RowShowsOwnCode, LiveRowCurrent

(* Every change of the list keeps IInv: a dropped view model loses its     *)
(* listener and the references of its cells, the others keep both.         *)
LEMMA SetAccountsIInv ==
  ASSUME IInv, NEW new \in Seq(VMs), SetAccounts(new)
  PROVE  IInv'
<1> USE DEF IInv
<1>1. TypeOK'
  BY Blocks, AppendProperties DEF SetAccounts, TypeOK
<1>2. ASSUME NEW c \in Cells, NEW x, ShownAfter(queue, label[c], c, x)
      PROVE  ShownAfter(queue', label'[c], c, x)
  <2>1. ReloadBlock.cell # c /\ queue' = Append(queue, ReloadBlock) /\ label' = label
    BY CellAssumption DEF SetAccounts, ReloadBlock
  <2> QED  BY <1>2, <2>1, ShownOther, Blocks DEF TypeOK
<1>3. RowShowsOwnCode'
  <2> SUFFICES ASSUME NEW c \in Cells, viewModel'[c] # NoVM
               PROVE  \E n \in 0 .. code'[viewModel'[c]] :
                        ShownAfter(queue', label'[c], c, [vm |-> viewModel'[c], code |-> n])
    BY DEF RowShowsOwnCode
  <2>1. viewModel'[c] = viewModel[c] /\ viewModel[c] \in VMs
        /\ code'[viewModel[c]] = code[viewModel[c]]
    BY CellAssumption DEF SetAccounts, TypeOK
  <2>2. PICK n \in 0 .. code[viewModel[c]] :
          ShownAfter(queue, label[c], c, [vm |-> viewModel[c], code |-> n])
    BY <2>1, CellAssumption DEF RowShowsOwnCode
  <2> QED  BY <1>2, <2>1, <2>2
<1>4. LiveRowCurrent'
  <2> SUFFICES ASSUME NEW v \in VMs, listener'[v] # NoCell
               PROVE  /\ viewModel'[listener'[v]] = v
                      /\ ShownAfter(queue', label'[listener'[v]], listener'[v],
                                    [vm |-> v, code |-> code'[v]])
    BY DEF LiveRowCurrent
  <2>1. /\ v \in ToSet(new) /\ listener'[v] = listener[v] /\ listener[v] \in Cells
        /\ code'[v] = code[v]
    BY DEF SetAccounts, TypeOK
  <2>2. /\ viewModel[listener[v]] = v
        /\ ShownAfter(queue, label[listener[v]], listener[v], [vm |-> v, code |-> code[v]])
    BY <2>1, CellAssumption DEF LiveRowCurrent
  <2>3. viewModel'[listener[v]] = v
    BY <2>1, <2>2 DEF SetAccounts
  <2> QED  BY <1>2, <2>1, <2>2, <2>3
<1> QED  BY <1>1, <1>3, <1>4

(* A view model publishes: its listener's cell is the one bound to it, so  *)
(* the new block is of the right view model and carries the latest value.  *)
LEMMA PublishIInv ==
  ASSUME IInv, NEW v \in VMs, Publish(v)
  PROVE  IInv'
<1> USE DEF IInv
<1> DEFINE x == [vm |-> v, code |-> code[v] + 1]
<1>1. /\ code' = [code EXCEPT ![v] = code[v] + 1] /\ code[v] \in Nat /\ x \in Value
      /\ UNCHANGED <<list, listener, viewModel, label, made, rows, crashed>>
  BY DEF Publish, TypeOK, Value
<1>2. /\ code' \in [VMs -> Nat] /\ code'[v] = code[v] + 1
      /\ \A w \in VMs : code[w] \in Nat /\ code[w] <= code'[w] /\ (w # v => code'[w] = code[w])
  BY <1>1 DEF TypeOK
<1>3. CASE listener[v] = NoCell
  <2>1. queue' = queue
    BY <1>3 DEF Publish
  <2>2. TypeOK'
    BY <1>1, <1>2, <2>1 DEF TypeOK
  <2>3. RowShowsOwnCode'
    <3> SUFFICES ASSUME NEW c \in Cells, viewModel[c] # NoVM
                 PROVE  \E n \in 0 .. code'[viewModel[c]] :
                          ShownAfter(queue, label[c], c, [vm |-> viewModel[c], code |-> n])
      BY <1>1, <2>1 DEF RowShowsOwnCode
    <3>1. PICK n \in 0 .. code[viewModel[c]] :
            ShownAfter(queue, label[c], c, [vm |-> viewModel[c], code |-> n])
      BY DEF RowShowsOwnCode
    <3>2. n \in 0 .. code'[viewModel[c]]
      BY <1>2, <3>1 DEF TypeOK
    <3> QED  BY <3>1, <3>2
  <2>4. LiveRowCurrent'
    BY <1>1, <1>2, <1>3, <2>1 DEF LiveRowCurrent
  <2> QED  BY <2>2, <2>3, <2>4
<1>4. CASE listener[v] # NoCell
  <2> DEFINE d == listener[v]
  <2>1. /\ queue' = Append(queue, Show(d, x)) /\ d \in Cells /\ viewModel[d] = v
        /\ Show(d, x) \in Block /\ Show(d, x).cell = d
    BY <1>1, <1>4, Blocks DEF Publish, TypeOK, LiveRowCurrent, Show
  <2> HIDE DEF x
  <2>2. TypeOK'
    <3>1. queue' \in Seq(Block)
      BY <2>1, AppendProperties DEF TypeOK
    <3> QED  BY <1>1, <1>2, <3>1 DEF TypeOK
  <2>3. ASSUME NEW c \in Cells, NEW y, c # d, ShownAfter(queue, label[c], c, y)
        PROVE  ShownAfter(queue', label[c], c, y)
    BY <2>1, <2>3, ShownOther DEF TypeOK
  <2>4. ShownAfter(queue', label[d], d, x)
    BY <1>1, <2>1, ShownNew DEF TypeOK
  <2>5. RowShowsOwnCode'
    <3> SUFFICES ASSUME NEW c \in Cells, viewModel[c] # NoVM
                 PROVE  \E n \in 0 .. code'[viewModel[c]] :
                          ShownAfter(queue', label[c], c, [vm |-> viewModel[c], code |-> n])
      BY <1>1 DEF RowShowsOwnCode
    <3>1. CASE c = d
      <4>1. code'[v] \in 0 .. code'[v] /\ x = [vm |-> v, code |-> code'[v]]
        BY <1>2 DEF x
      <4> QED  BY <2>1, <2>4, <3>1, <4>1
    <3>2. CASE c # d
      <4>1. PICK n \in 0 .. code[viewModel[c]] :
              ShownAfter(queue, label[c], c, [vm |-> viewModel[c], code |-> n])
        BY DEF RowShowsOwnCode
      <4>2. n \in 0 .. code'[viewModel[c]]
        BY <1>2, <4>1 DEF TypeOK
      <4> QED  BY <2>3, <3>2, <4>1, <4>2
    <3> QED  BY <3>1, <3>2
  <2>6. LiveRowCurrent'
    <3> SUFFICES ASSUME NEW w \in VMs, listener[w] # NoCell
                 PROVE  /\ viewModel[listener[w]] = w
                        /\ ShownAfter(queue', label[listener[w]], listener[w],
                                      [vm |-> w, code |-> code'[w]])
      BY <1>1 DEF LiveRowCurrent
    <3>1. /\ viewModel[listener[w]] = w /\ listener[w] \in Cells
          /\ ShownAfter(queue, label[listener[w]], listener[w], [vm |-> w, code |-> code[w]])
      BY DEF LiveRowCurrent, TypeOK
    <3>2. CASE w = v
      BY <1>2, <2>4, <3>1, <3>2 DEF x
    <3>3. CASE w # v
      <4>1. listener[w] # d /\ code'[w] = code[w]
        BY <1>2, <2>1, <3>1, <3>3
      <4> QED  BY <2>3, <3>1, <4>1
    <3> QED  BY <3>2, <3>3
  <2> QED  BY <2>2, <2>5, <2>6
<1> QED  BY <1>3, <1>4

(* A cell is handed out and bound: prepareForReuse() has taken away the    *)
(* one listener that could still write into it.                            *)
LEMMA CellForRowIInv ==
  ASSUME IInv, NEW i \in DOMAIN rows, NEW c \in Cells, CellForRow(i, c)
  PROVE  IInv'
<1> USE DEF IInv
<1> DEFINE v == list[i]
           x == [vm |-> v, code |-> code[v]]
<1>1. /\ v \in VMs /\ code' = code /\ label' = label
      /\ viewModel' = [viewModel EXCEPT ![c] = v]
      /\ listener' = [PrepareForReuse(c) EXCEPT ![v] = c]
      /\ queue' = Append(queue, Show(c, x))
  BY DEF CellForRow, Setup, TypeOK
<1>2. PrepareForReuse(c) \in [VMs -> Cells \cup {NoCell}]
  BY DEF PrepareForReuse, TypeOK
<1>3. x \in Value /\ code[v] \in 0 .. code[v]
  BY <1>1 DEF Value, TypeOK
<1>4. Show(c, x) \in Block /\ Show(c, x).cell = c
  BY <1>3, Blocks DEF Show
<1> HIDE DEF v, x
<1>5. TypeOK'
  <2>1. queue' \in Seq(Block)
    BY <1>1, <1>4, AppendProperties DEF TypeOK
  <2>2. rows' \in Seq(Cells \cup {NoCell}) /\ made' \in SUBSET Cells
    BY ExceptSeq DEF CellForRow, TypeOK
  <2> QED  BY <1>1, <1>2, <2>1, <2>2 DEF CellForRow, TypeOK
<1>6. ASSUME NEW d \in Cells, NEW y, d # c, ShownAfter(queue, label[d], d, y)
      PROVE  ShownAfter(queue', label[d], d, y)
  BY <1>1, <1>4, <1>6, ShownOther DEF TypeOK
<1>7. ShownAfter(queue', label[c], c, x)
  BY <1>1, <1>3, ShownNew DEF TypeOK
<1>8. RowShowsOwnCode'
  <2> SUFFICES ASSUME NEW d \in Cells, viewModel'[d] # NoVM
               PROVE  \E n \in 0 .. code[viewModel'[d]] :
                        ShownAfter(queue', label[d], d, [vm |-> viewModel'[d], code |-> n])
    BY <1>1 DEF RowShowsOwnCode
  <2>1. CASE d = c
    <3>1. viewModel'[d] = v
      BY <1>1, <2>1 DEF TypeOK
    <3> QED  BY <1>3, <1>7, <2>1, <3>1 DEF x
  <2>2. CASE d # c
    <3>1. viewModel'[d] = viewModel[d]
      BY <1>1, <2>2 DEF TypeOK
    <3>2. PICK n \in 0 .. code[viewModel[d]] :
            ShownAfter(queue, label[d], d, [vm |-> viewModel[d], code |-> n])
      BY <3>1 DEF RowShowsOwnCode
    <3> QED  BY <1>6, <2>2, <3>1, <3>2
  <2> QED  BY <2>1, <2>2
<1>9. LiveRowCurrent'
  <2> SUFFICES ASSUME NEW w \in VMs, listener'[w] # NoCell
               PROVE  /\ viewModel'[listener'[w]] = w
                      /\ ShownAfter(queue', label[listener'[w]], listener'[w],
                                    [vm |-> w, code |-> code[w]])
    BY <1>1 DEF LiveRowCurrent
  <2>1. CASE w = v
    <3>1. listener'[w] = c /\ viewModel'[c] = v
      BY <1>1, <1>2, <2>1 DEF TypeOK
    <3> QED  BY <1>7, <2>1, <3>1 DEF x
  <2>2. CASE w # v
    <3>1. listener'[w] = listener[w] /\ w # viewModel[c] /\ listener[w] \in Cells
      BY <1>1, <1>2, <2>2, CellAssumption DEF PrepareForReuse, TypeOK
    <3>2. /\ viewModel[listener[w]] = w
          /\ ShownAfter(queue, label[listener[w]], listener[w], [vm |-> w, code |-> code[w]])
      BY <3>1, CellAssumption DEF LiveRowCurrent
    <3>3. listener[w] # c
      BY <3>1, <3>2
    <3>4. viewModel'[listener[w]] = w
      BY <1>1, <3>1, <3>2, <3>3 DEF TypeOK
    <3> QED  BY <1>6, <3>1, <3>2, <3>3, <3>4
  <2> QED  BY <2>1, <2>2
<1> QED  BY <1>5, <1>8, <1>9

(* The main thread takes a block from its queue.                           *)
LEMMA MainThreadIInv ==
  ASSUME IInv, Reload \/ SetLabel
  PROVE  IInv'
<1> USE DEF IInv
<1>1. /\ queue # <<>> /\ queue' = Tail(queue)
      /\ UNCHANGED <<list, code, listener, viewModel, made, crashed>>
  BY DEF Reload, SetLabel
<1>2. Head(queue) \in Block /\ queue' \in Seq(Block)
  BY <1>1, HeadTailProperties DEF TypeOK
<1>3. \A c \in Cells :
        label'[c] = IF Head(queue).cell = c THEN Head(queue).value ELSE label[c]
  <2>1. CASE Reload
    BY <2>1, CellAssumption DEF Reload, ReloadBlock
  <2>2. CASE SetLabel
    BY <2>2 DEF SetLabel, TypeOK
  <2> QED  BY <2>1, <2>2
<1>4. label' \in [Cells -> Value \cup {Blank}] /\ rows' \in Seq(Cells \cup {NoCell})
  <2>1. CASE Reload
    <3>1. rows' \in [1 .. Len(list) -> Cells \cup {NoCell}] /\ Len(list) \in Nat
      BY <2>1 DEF Reload, TypeOK
    <3> QED  BY <2>1, <3>1, SeqDef DEF Reload, TypeOK
  <2>2. CASE SetLabel
    BY <1>2, <2>2, Blocks DEF SetLabel, TypeOK
  <2> QED  BY <2>1, <2>2
<1>5. TypeOK'
  BY <1>1, <1>2, <1>4 DEF TypeOK
<1>6. ASSUME NEW c \in Cells, NEW x, ShownAfter(queue, label[c], c, x)
      PROVE  ShownAfter(queue', label'[c], c, x)
  BY <1>1, <1>3, <1>6, ShownTail DEF TypeOK
<1>7. RowShowsOwnCode'
  BY <1>1, <1>6 DEF RowShowsOwnCode
<1>8. LiveRowCurrent'
  <2>1. \A v \in VMs : listener[v] \in Cells \cup {NoCell}
    BY DEF TypeOK
  <2> QED  BY <1>1, <1>6, <2>1 DEF LiveRowCurrent
<1> QED  BY <1>5, <1>7, <1>8

(* A step that leaves bindings, labels and queue alone.                    *)
LEMMA FrameIInv ==
  ASSUME IInv, UNCHANGED <<list, code, listener, viewModel, label, made, queue>>,
         rows' \in Seq(Cells \cup {NoCell}), crashed' \in BOOLEAN
  PROVE  IInv'
<1>1. TypeOK'
  BY DEF IInv, TypeOK
<1>2. RowShowsOwnCode' /\ LiveRowCurrent'
  BY DEF IInv, RowShowsOwnCode, LiveRowCurrent
<1> QED  BY <1>1, <1>2 DEF IInv

(* Every step keeps IInv.                                                  *)
LEMMA NextIInv ==
  IInv /\ [Next]_vars => IInv'
<1> SUFFICES ASSUME IInv, [Next]_vars PROVE IInv'
  OBVIOUS
<1>1. CASE Relaunch
  BY <1>1, RelaunchIInv
<1>2. ASSUME NEW n \in 0 .. MaxRows, NEW new \in [1 .. n -> Fresh], Load(new)
      PROVE  IInv'
  <2>1. n \in Nat /\ new \in [1 .. n -> VMs]
    BY CellAssumption DEF Fresh
  <2>2. new \in Seq(VMs)
    BY <2>1, SeqDef
  <2> QED  BY <1>2, <2>2, SetAccountsIInv DEF Load
<1>3. ASSUME NEW v \in Fresh, SaveAccount(v) PROVE IInv'
  <2>1. Append(list, v) \in Seq(VMs)
    BY AppendProperties DEF Fresh, IInv, TypeOK
  <2> QED  BY <1>3, <2>1, SetAccountsIInv DEF SaveAccount
<1>4. ASSUME NEW i \in DOMAIN list, DeleteAccount(i) PROVE IInv'
  <2>1. RemoveAt(list, i) \in Seq(VMs)
    BY RemoveRow DEF IInv, TypeOK
  <2> QED  BY <1>4, <2>1, SetAccountsIInv DEF DeleteAccount
<1>5. ASSUME NEW v \in ToSet(list), Publish(v) PROVE IInv'
  <2>1. v \in VMs
    BY DEF ToSet, IInv, TypeOK
  <2> QED  BY <1>5, <2>1, PublishIInv
<1>6. ASSUME NEW i \in DOMAIN rows, NEW c \in Cells, CellForRow(i, c) PROVE IInv'
  BY <1>6, CellForRowIInv
<1>7. ASSUME NEW i \in DOMAIN rows, CellForRowTraps(i) PROVE IInv'
  BY <1>7, FrameIInv DEF CellForRowTraps, IInv, TypeOK
<1>8. ASSUME NEW i \in DOMAIN rows, ScrollOut(i) PROVE IInv'
  BY <1>8, FrameIInv, ExceptSeq DEF ScrollOut, IInv, TypeOK
<1>9. CASE Reload \/ SetLabel
  BY <1>9, MainThreadIInv
<1>10. CASE UNCHANGED vars
  BY <1>10, FrameIInv DEF vars, IInv, TypeOK
<1> QED
  BY <1>1, <1>2, <1>3, <1>4, <1>5, <1>6, <1>7, <1>8, <1>9, <1>10 DEF Next

(* The inductive invariant holds in every behaviour.                       *)
THEOREM Invariance ==
  Spec => []IInv
<1> QED  BY InitIInv, NextIInv, PTL DEF Spec

(* Type correctness of the table's rows, labels and main queue.            *)
THEOREM TypeCorrect ==
  Spec => []TypeOK
<1>1. IInv => TypeOK
  BY DEF IInv
<1> QED  BY <1>1, Invariance, PTL

(* No row ends up with the code of another account, for any number of      *)
(* cells and accounts and any order in which UIKit reuses the cells.       *)
THEOREM OwnCode ==
  Spec => []RowShowsOwnCode
<1>1. IInv => RowShowsOwnCode
  BY DEF IInv
<1> QED  BY <1>1, Invariance, PTL

(* A cell that listens to a view model is bound to it and ends up showing  *)
(* what the view model has published last.                                 *)
THEOREM LiveRows ==
  Spec => []LiveRowCurrent
<1>1. IInv => LiveRowCurrent
  BY DEF IInv
<1> QED  BY <1>1, Invariance, PTL

-----------------------------------------------------------------------------
(* The table and the list: while no reload waits they have the same rows,  *)
(* and a cell on the screen is bound to the view model of its row.         *)

RowsDistinct ==
  \A i, j \in DOMAIN rows : rows[i] = rows[j] /\ rows[i] # NoCell => i = j

TableMatches ==
  ~ReloadWaits =>
    /\ DOMAIN rows = DOMAIN list
    /\ \A i \in DOMAIN rows : rows[i] # NoCell => viewModel[rows[i]] = list[i]

Table ==
  /\ RowsDistinct
  /\ \A i \in DOMAIN rows : rows[i] # NoCell => rows[i] \in made
  /\ \A c \in Cells \ made : viewModel[c] = NoVM
  /\ IsInjective(list)
  /\ TableMatches

(* A sequence without repetitions has none after one element is removed.   *)
LEMMA RemoveAtInjective ==
  ASSUME NEW S, NEW s \in Seq(S), IsInjective(s), NEW k \in DOMAIN s
  PROVE  IsInjective(RemoveAt(s, k))
<1> DEFINE t == RemoveAt(s, k)
<1>1. /\ k \in 1 .. Len(s) /\ Len(s) \in Nat /\ DOMAIN s = 1 .. Len(s)
      /\ DOMAIN t = 1 .. Len(s) - 1
      /\ \A i \in 1 .. Len(s) - 1 : t[i] = IF i < k THEN s[i] ELSE s[i + 1]
  BY RemoveRow
<1> HIDE DEF t
<1> SUFFICES ASSUME NEW i \in DOMAIN t, NEW j \in DOMAIN t, t[i] = t[j] PROVE i = j
  BY DEF IsInjective, t
<1>2. s[IF i < k THEN i ELSE i + 1] = s[IF j < k THEN j ELSE j + 1]
  BY <1>1
<1>3. (IF i < k THEN i ELSE i + 1) \in DOMAIN s /\ (IF j < k THEN j ELSE j + 1) \in DOMAIN s
  BY <1>1
<1>4. (IF i < k THEN i ELSE i + 1) = (IF j < k THEN j ELSE j + 1)
  BY <1>2, <1>3, Zenon DEF IsInjective
<1> QED  BY <1>1, <1>4

(* Every change of the list queues a reload, which excuses the table.      *)
LEMMA SetAccountsTable ==
  ASSUME IInv, Table, NEW new \in Seq(VMs), IsInjective(new), SetAccounts(new)
  PROVE  Table'
<1>1. ReloadWaits'
  <2>1. /\ queue' = Append(queue, ReloadBlock) /\ Len(queue) + 1 \in DOMAIN queue'
        /\ queue'[Len(queue) + 1] = ReloadBlock
    BY AppendProperties, Blocks DEF SetAccounts, IInv, TypeOK
  <2> QED  BY <2>1 DEF ReloadWaits
<1>2. \A c \in Cells \ made : viewModel'[c] = NoVM
  BY DEF SetAccounts, Table
<1> QED  BY <1>1, <1>2 DEF SetAccounts, Table, TableMatches, RowsDistinct

(* A cell comes on the screen, bound to the view model of its row.         *)
LEMMA CellForRowTable ==
  ASSUME IInv, Table, NEW i \in DOMAIN rows, NEW c \in Cells, CellForRow(i, c)
  PROVE  Table'
<1>1. /\ rows' = [rows EXCEPT ![i] = c] /\ made' = made \cup {c} /\ list' = list
      /\ viewModel' = [viewModel EXCEPT ![c] = list[i]]
      /\ viewModel \in [Cells -> VMs \cup {NoVM}]
      /\ \E b : queue' = Append(queue, b) /\ b \in Block
  <2>1. list[i] \in VMs /\ code[list[i]] \in Nat
    BY DEF CellForRow, IInv, TypeOK
  <2>2. Show(c, [vm |-> list[i], code |-> code[list[i]]]) \in Block
    BY <2>1, Blocks DEF Value
  <2> QED  BY <2>2 DEF CellForRow, Setup, IInv, TypeOK
<1>2. DOMAIN rows' = DOMAIN rows /\ rows'[i] = c /\ \A j \in DOMAIN rows : j # i => rows'[j] = rows[j]
  BY <1>1
<1>3. \A j \in DOMAIN rows : rows[j] # c
  BY CellAssumption DEF CellForRow, Pool, Table
<1>4. RowsDistinct'
  BY <1>2, <1>3 DEF Table, RowsDistinct
<1>5. \A j \in DOMAIN rows' : rows'[j] # NoCell => rows'[j] \in made'
  BY <1>1, <1>2 DEF Table
<1>6. \A d \in Cells \ made' : viewModel'[d] = NoVM
  BY <1>1 DEF Table
<1>7. TableMatches'
  <2>1. ReloadWaits => ReloadWaits'
    <3>1. PICK b \in Block : queue' = Append(queue, b)
      BY <1>1
    <3>2. \A j \in DOMAIN queue : j \in DOMAIN queue' /\ queue'[j] = queue[j]
      BY <3>1, AppendProperties DEF IInv, TypeOK
    <3> QED  BY <3>2 DEF ReloadWaits
  <2>2. ASSUME ~ReloadWaits, NEW j \in DOMAIN rows, rows'[j] # NoCell
        PROVE  viewModel'[rows'[j]] = list[j]
    <3>1. CASE j = i
      BY <1>1, <1>2, <3>1
    <3>2. CASE j # i
      <4>1. rows'[j] = rows[j] /\ rows[j] # c /\ rows[j] \in Cells
        BY <1>2, <1>3, <2>2, <3>2 DEF IInv, TypeOK
      <4>2. viewModel[rows[j]] = list[j]
        BY <2>2, <4>1 DEF Table, TableMatches
      <4> QED  BY <1>1, <4>1, <4>2
    <3> QED  BY <3>1, <3>2
  <2> QED  BY <1>1, <1>2, <2>1, <2>2 DEF Table, TableMatches
<1> QED  BY <1>1, <1>4, <1>5, <1>6, <1>7 DEF Table

(* Every step keeps the table in order.                                    *)
LEMMA NextTable ==
  IInv /\ Table /\ [Next]_vars => Table'
<1> SUFFICES ASSUME IInv, Table, [Next]_vars PROVE Table'
  OBVIOUS
<1>1. CASE Relaunch
  <2>1. queue' = <<ReloadBlock>> /\ rows' = <<>> /\ list' = <<>>
    BY <1>1 DEF Relaunch
  <2>2. ReloadWaits'
    BY <2>1 DEF ReloadWaits
  <2> QED  BY <1>1, <2>1, <2>2 DEF Relaunch, Table, TableMatches, RowsDistinct, IsInjective
<1>2. ASSUME NEW n \in 0 .. MaxRows, NEW new \in [1 .. n -> Fresh], IsInjective(new), Load(new)
      PROVE  Table'
  <2>1. n \in Nat /\ new \in [1 .. n -> VMs]
    BY CellAssumption DEF Fresh
  <2>2. new \in Seq(VMs)
    BY <2>1, SeqDef
  <2> QED  BY <1>2, <2>2, SetAccountsTable DEF Load
<1>3. ASSUME NEW v \in Fresh, SaveAccount(v) PROVE Table'
  <2>1. list \in Seq(VMs) /\ v \in VMs /\ v \notin ToSet(list)
    BY DEF Fresh, IInv, TypeOK
  <2>2. /\ Append(list, v) \in Seq(VMs) /\ DOMAIN Append(list, v) = 1 .. Len(list) + 1
        /\ \A i \in 1 .. Len(list) : Append(list, v)[i] = list[i]
        /\ Append(list, v)[Len(list) + 1] = v /\ DOMAIN list = 1 .. Len(list)
        /\ Len(list) \in Nat
    BY <2>1, AppendProperties
  <2>3. \A i \in DOMAIN list : list[i] # v
    BY <2>1 DEF ToSet
  <2>4. IsInjective(Append(list, v))
    BY <2>2, <2>3 DEF Table, IsInjective
  <2> QED  BY <1>3, <2>2, <2>4, SetAccountsTable DEF SaveAccount
<1>4. ASSUME NEW i \in DOMAIN list, DeleteAccount(i) PROVE Table'
  <2>1. RemoveAt(list, i) \in Seq(VMs) /\ IsInjective(RemoveAt(list, i))
    BY RemoveRow, RemoveAtInjective DEF IInv, TypeOK, Table
  <2> QED  BY <1>4, <2>1, SetAccountsTable DEF DeleteAccount
<1>5. ASSUME NEW v \in ToSet(list), Publish(v) PROVE Table'
  <2>1. \A j \in DOMAIN queue : j \in DOMAIN queue' /\ queue'[j] = queue[j]
    <3>1. CASE listener[v] = NoCell
      BY <1>5, <3>1 DEF Publish
    <3>2. CASE listener[v] # NoCell
      <4>1. v \in VMs /\ code[v] + 1 \in Nat /\ listener[v] \in Cells
        BY <3>2 DEF ToSet, IInv, TypeOK
      <4>2. Show(listener[v], [vm |-> v, code |-> code[v] + 1]) \in Block
        BY <4>1, Blocks DEF Value
      <4> QED  BY <1>5, <3>2, <4>2, AppendProperties DEF Publish, IInv, TypeOK
    <3> QED  BY <3>1, <3>2
  <2>2. ReloadWaits => ReloadWaits'
    BY <2>1 DEF ReloadWaits
  <2> QED  BY <1>5, <2>2 DEF Publish, Table, TableMatches, RowsDistinct
<1>6. ASSUME NEW i \in DOMAIN rows, NEW c \in Cells, CellForRow(i, c) PROVE Table'
  BY <1>6, CellForRowTable
<1>7. ASSUME NEW i \in DOMAIN rows, CellForRowTraps(i) PROVE Table'
  BY <1>7 DEF CellForRowTraps, Table, TableMatches, RowsDistinct, ReloadWaits
<1>8. ASSUME NEW i \in DOMAIN rows, ScrollOut(i) PROVE Table'
  <2>1. /\ rows' = [rows EXCEPT ![i] = NoCell]
        /\ UNCHANGED <<list, viewModel, made, queue>>
    BY <1>8 DEF ScrollOut
  <2>2. DOMAIN rows' = DOMAIN rows /\ \A j \in DOMAIN rows : rows'[j] # NoCell => rows'[j] = rows[j]
    BY <2>1
  <2> QED  BY <2>1, <2>2 DEF Table, TableMatches, RowsDistinct, ReloadWaits
<1>9. CASE Reload
  <2>1. /\ rows' = [i \in DOMAIN list |-> NoCell] /\ UNCHANGED <<list, viewModel, made>>
    BY <1>9 DEF Reload
  <2> QED  BY <2>1 DEF Table, TableMatches, RowsDistinct
<1>10. CASE SetLabel
  <2>1. /\ DOMAIN queue = 1 .. Len(queue) /\ Len(queue) \in Nat /\ Head(queue) = queue[1]
        /\ DOMAIN queue' = 1 .. Len(queue) - 1
        /\ \A j \in 1 .. Len(queue) - 1 : queue'[j] = queue[j + 1]
        /\ Head(queue) # ReloadBlock
    BY <1>10, HeadTailProperties DEF SetLabel, IInv, TypeOK
  <2>2. ReloadWaits => ReloadWaits'
    <3> SUFFICES ASSUME NEW j \in DOMAIN queue, queue[j] = ReloadBlock PROVE ReloadWaits'
      BY DEF ReloadWaits
    <3>1. j - 1 \in DOMAIN queue' /\ queue'[j - 1] = ReloadBlock
      BY <2>1
    <3> QED  BY <3>1 DEF ReloadWaits
  <2> QED  BY <1>10, <2>2 DEF SetLabel, Table, TableMatches, RowsDistinct
<1>11. CASE UNCHANGED vars
  BY <1>11 DEF vars, Table, TableMatches, RowsDistinct, ReloadWaits
<1> QED
  BY <1>1, <1>2, <1>3, <1>4, <1>5, <1>6, <1>7, <1>8, <1>9, <1>10, <1>11 DEF Next

(* Table and list match in every behaviour.                                *)
LEMMA TableInvariance ==
  Spec => [](IInv /\ Table)
<1>1. Init => Table
  BY DEF Init, Table, TableMatches, RowsDistinct, ReloadWaits, IsInjective
<1> QED  BY <1>1, InitIInv, NextIInv, NextTable, PTL DEF Spec

(* cellForRowAt traps only while a reload is on its way to the table.      *)
THEOREM TrapCause ==
  Spec => TrapOnlyBeforeReload
<1>1. IInv /\ Table /\ [Next]_vars => [~crashed /\ crashed' => ReloadWaits]_vars
  <2> SUFFICES ASSUME IInv, Table, Next, ~crashed, crashed' PROVE ReloadWaits
    BY DEF vars
  <2>1. ASSUME NEW i \in DOMAIN rows, CellForRowTraps(i) PROVE ReloadWaits
    BY <2>1 DEF CellForRowTraps, Table, TableMatches
  <2> QED
    BY <2>1 DEF Next, Relaunch, Load, SaveAccount, DeleteAccount, SetAccounts, Publish,
                CellForRow, ScrollOut, Reload, SetLabel
<1> QED  BY <1>1, TableInvariance, PTL DEF Spec, TrapOnlyBeforeReload

(* A row on the screen loses its listener only to the reuse of a cell that *)
(* was bound to the same view model before, or before a reload.            *)
THEOREM FreezeCause ==
  Spec => RowFreezesOnlyByReuse
<1> DEFINE Freezes(i, v) == /\ rows[i] # NoCell /\ listener[v] = rows[i]
                            /\ i \in DOMAIN rows' /\ rows'[i] = rows[i]
                            /\ viewModel'[rows[i]] = v /\ listener'[v] # rows[i]
           Cause(v) == \/ \E d \in Pool : viewModel[d] = v /\ viewModel'[d] # v
                       \/ ReloadWaits /\ listener'[v] # NoCell
<1>1. IInv /\ Table /\ [Next]_vars
        => [\A i \in DOMAIN rows, v \in VMs : Freezes(i, v) => Cause(v)]_vars
  <2> SUFFICES ASSUME IInv, Table, Next, NEW i \in DOMAIN rows, NEW v \in VMs, Freezes(i, v)
               PROVE  Cause(v)
    BY DEF vars
  <2>1. rows[i] \in Cells /\ viewModel[rows[i]] = v
    BY DEF IInv, TypeOK, LiveRowCurrent
  <2>2. ASSUME NEW j \in DOMAIN rows, NEW d \in Cells, CellForRow(j, d) PROVE Cause(v)
    <3>1. /\ listener' = [PrepareForReuse(d) EXCEPT ![list[j]] = d]
          /\ viewModel' = [viewModel EXCEPT ![d] = list[j]]
          /\ viewModel \in [Cells -> VMs \cup {NoVM}] /\ listener \in [VMs -> Cells \cup {NoCell}]
          /\ rows[j] = NoCell /\ j \in DOMAIN list /\ list[j] \in VMs
          /\ d \in Pool \/ d \notin made
      BY <2>2 DEF CellForRow, Setup, IInv, TypeOK
    <3>2. PrepareForReuse(d) \in [VMs -> Cells \cup {NoCell}]
      BY <3>1 DEF PrepareForReuse
    <3>3. CASE list[j] = v
      <4>1. listener'[v] = d /\ d # NoCell
        BY <3>1, <3>2, <3>3, CellAssumption
      <4>2. ReloadWaits
        <5> SUFFICES ASSUME ~ReloadWaits PROVE FALSE
          OBVIOUS
        <5>1. list[i] = v /\ i \in DOMAIN list
          BY <2>1 DEF Table, TableMatches
        <5>2. i = j
          BY <3>1, <3>3, <5>1 DEF Table, IsInjective
        <5> QED  BY <3>1, <5>2
      <4> QED  BY <4>1, <4>2
    <3>4. CASE list[j] # v
      <4>1. listener'[v] = PrepareForReuse(d)[v]
        BY <3>1, <3>2, <3>4
      <4>2. viewModel[d] = v
        BY <3>1, <4>1 DEF PrepareForReuse
      <4>3. d \in Pool
        BY <3>1, <4>2, CellAssumption DEF Table
      <4>4. viewModel'[d] # v
        BY <3>1, <3>4
      <4> QED  BY <4>2, <4>3, <4>4
    <3> QED  BY <3>3, <3>4
  <2>3. ASSUME NEW new, SetAccounts(new) PROVE FALSE
    <3>1. v \in ToSet(new)
      BY <2>1, <2>3, CellAssumption DEF SetAccounts
    <3> QED  BY <2>3, <3>1 DEF SetAccounts
  <2>4. CASE Relaunch
    BY <2>1, <2>4, CellAssumption DEF Relaunch
  <2> QED
    BY <2>2, <2>3, <2>4 DEF Next, Load, SaveAccount, DeleteAccount, Publish,
                CellForRowTraps, ScrollOut, Reload, SetLabel
<1> QED  BY <1>1, TableInvariance, PTL DEF Spec, RowFreezesOnlyByReuse
=============================================================================
