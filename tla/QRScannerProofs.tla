---------------------------- MODULE QRScannerProofs ----------------------------
(***************************************************************************)
(* Machine-checked proofs about QRScanner, for every bound.                *)
(*                                                                         *)
(* CameraOnlyOnScreen is inductive with the types of the variables: each   *)
(* way off the screen goes through viewWillDisappear or through a callback *)
(* that has stopped the session first.                                     *)
(*                                                                         *)
(* What parseResult cuts out of a text is settled for texts of any length  *)
(* by FirstPlace: a marker that occurs has a first place, which is Index.  *)
(***************************************************************************)
EXTENDS QRScanner, SequenceTheorems, WellFoundedInduction, TLAPS

IInv == TypeOK /\ CameraOnlyOnScreen

-----------------------------------------------------------------------------
(* Facts about OtpUri.                                                     *)

(* A set of naturals that is not empty has a least element.                *)
LEMMA LeastNat ==
  ASSUME NEW T, T \subseteq Nat, T # {}
  PROVE  \E x \in T : \A y \in T : ~(y < x)
<1>1. IsWellFoundedOn(OpToRel(<, Nat), Nat)
  BY NatLessThanWellFounded
<1>2. PICK x \in T : \A y \in T : ~(<<y, x>> \in OpToRel(<, Nat))
  BY <1>1, WFMin, Zenon
<1>3. \A y \in T : ~(y < x)
  BY <1>2 DEF OpToRel
<1> QED  BY <1>2, <1>3

(* index(of:) finds the first place of a marker that occurs.               *)
LEMMA FirstPlace ==
  ASSUME NEW text \in Seq(Marker), NEW m, Occurs(m, text)
  PROVE  /\ Index(m, text) \in DOMAIN text /\ text[Index(m, text)] = m
         /\ \A j \in DOMAIN text : j < Index(m, text) => text[j] # m
<1> DEFINE T == {i \in DOMAIN text : text[i] = m}
<1>1. T \subseteq Nat /\ T # {}
  BY DEF Occurs
<1>2. PICK i \in T : \A y \in T : ~(y < i)
  BY <1>1, LeastNat, Zenon
<1>3. i \in DOMAIN text /\ text[i] = m /\ \A j \in DOMAIN text : j < i => text[j] # m
  BY <1>2
<1> QED  BY <1>3 DEF Index

(* A text that has all markers and does not trap is a URI of the account   *)
(* that parseResult returns.                                               *)
LEMMA ParsedIsUri ==
  ASSUME NEW text \in Seq(Marker), HasFields(text), ~Traps(text)
  PROVE  IsUri(text, ParseResult(text)) /\ ParseResult(text) \in Account
<1> DEFINE c == Index(EmailMarker, text)
           s == Index(SecretMarker, text)
           i == Index(IssuerMarker, text)
<1>1. /\ c \in DOMAIN text /\ text[c] = EmailMarker
      /\ \A j \in DOMAIN text : j < c => text[j] # EmailMarker
  BY FirstPlace DEF HasFields, Marker
<1>2. /\ s \in DOMAIN text /\ text[s] = SecretMarker
      /\ \A j \in DOMAIN text : j < s => text[j] # SecretMarker
  BY FirstPlace DEF HasFields, Marker
<1>3. /\ i \in DOMAIN text /\ text[i] = IssuerMarker
      /\ \A j \in DOMAIN text : j < i => text[j] # IssuerMarker
  BY FirstPlace DEF HasFields, Marker
<1>4. ~(c > s) /\ ~(s > i)
  BY DEF Traps
<1>5. ParseResult(text) =
        [email |-> Pieces(c, s - 1), secret |-> Pieces(s, i - 1), issuer |-> Pieces(i, Len(text))]
  BY DEF ParseResult
<1> HIDE DEF c, s, i
<1>6. c # s /\ s # i
  BY <1>1, <1>2, <1>3 DEF EmailMarker, SecretMarker, IssuerMarker
<1>7. c \in Nat \ {0} /\ s \in Nat \ {0} /\ i \in Nat \ {0} /\ Len(text) \in Nat
  BY <1>1, <1>2, <1>3
<1>8. c < s /\ s < i
  BY <1>4, <1>6, <1>7
<1>9. IsUri(text, ParseResult(text))
  BY <1>1, <1>2, <1>3, <1>5, <1>8 DEF IsUri
<1>10. Pieces(c, s - 1) \in Field /\ Pieces(s, i - 1) \in Field /\ Pieces(i, Len(text)) \in Field
  BY <1>7 DEF Pieces, Field
<1> QED  BY <1>5, <1>9, <1>10 DEF Account

(* A URI has all its markers in order, and does not trap.                  *)
LEMMA UriDoesNotTrap ==
  ASSUME NEW text \in Seq(Marker), NEW account, IsUri(text, account)
  PROVE  ~Traps(text)
<1>1. PICK c, s, i \in DOMAIN text :
        /\ c < s /\ s < i
        /\ text[c] = EmailMarker /\ text[s] = SecretMarker /\ text[i] = IssuerMarker
        /\ \A j \in DOMAIN text : /\ j < c => text[j] # EmailMarker
                                  /\ j < s => text[j] # SecretMarker
                                  /\ j < i => text[j] # IssuerMarker
  BY DEF IsUri
<1>2. /\ Occurs(EmailMarker, text) /\ Occurs(SecretMarker, text) /\ Occurs(IssuerMarker, text)
  BY <1>1 DEF Occurs
<1>3. Index(EmailMarker, text) = c
  BY <1>1, <1>2, FirstPlace
<1>4. Index(SecretMarker, text) = s
  BY <1>1, <1>2, FirstPlace
<1>5. Index(IssuerMarker, text) = i
  BY <1>1, <1>2, FirstPlace
<1> QED  BY <1>1, <1>3, <1>4, <1>5 DEF Traps

(* What is waiting has a text.                                             *)
LEMMA MetadataTexts ==
  \A metadata \in Metadata : metadata.text \in Seq(Marker)
<1>1. <<>> \in Seq(Marker)
  BY EmptySeq
<1>2. \A text \in Texts : Scan(text).text \in Seq(Marker)
  BY ScannerAssumption DEF Scan
<1>3. Unreadable.text = <<>> /\ Nothing.text = <<>>
  BY DEF Unreadable, Nothing
<1> QED  BY <1>1, <1>2, <1>3 DEF Metadata

-----------------------------------------------------------------------------
(* IInv holds when the process starts.                                     *)
LEMMA InitIInv ==
  Init => IInv
<1> SUFFICES ASSUME Init PROVE IInv
  OBVIOUS
<1>1. callbacks \in Seq(Metadata) /\ saved \in Seq(Account)
  BY EmptySeq DEF Init
<1> QED  BY <1>1 DEF Init, IInv, TypeOK, CameraOnlyOnScreen

(* A session has one of its three states whatever setupCamera() finds.     *)
LEMMA SessionStates ==
  /\ \A camera \in Camera : WillAppear(SetupCamera(camera)) \in {"nil", "stopped", "running"}
  /\ \A s \in {"nil", "stopped", "running"} :
       /\ WillAppear(s) \in {"nil", "stopped", "running"}
       /\ WillDisappear(s) \in {"nil", "stopped"}
BY DEF Camera, SetupCamera, WillAppear, WillDisappear

(* Every step keeps IInv.                                                  *)
LEMMA NextIInv ==
  IInv /\ [Next]_vars => IInv'
<1> SUFFICES ASSUME IInv, [Next]_vars PROVE IInv'
  OBVIOUS
<1> USE DEF IInv, TypeOK, CameraOnlyOnScreen
<1>1. CASE Relaunch
  BY <1>1, EmptySeq DEF Relaunch
<1>2. ASSUME NEW camera \in Camera, ScanQRButtonTapped(camera) PROVE IInv'
  BY <1>2, SessionStates, EmptySeq DEF ScanQRButtonTapped
<1>3. ASSUME NEW metadata \in Metadata, Detect(metadata) PROVE IInv'
  BY <1>3, AppendProperties DEF Detect
<1>4. CASE MetadataOutput
  <2>1. callbacks' \in Seq(Metadata) /\ Head(callbacks) \in Metadata
    BY <1>4, HeadTailProperties DEF MetadataOutput
  <2>2. saved' \in Seq(Account)
    BY <1>4, <2>1, MetadataTexts, ParsedIsUri, AppendProperties DEF MetadataOutput
  <2> QED  BY <1>4, <2>1, <2>2 DEF MetadataOutput, Pop
<1>5. CASE MetadataUnreadable
  BY <1>5, HeadTailProperties DEF MetadataUnreadable
<1>6. CASE ParseTraps
  BY <1>6 DEF ParseTraps
<1>7. ASSUME NEW how \in {"popped", "swiped"}, Leave(how) PROVE IInv'
  BY <1>7, SessionStates DEF Leave
<1>8. CASE CancelSwipe
  BY <1>8, SessionStates DEF CancelSwipe
<1>9. CASE Gone
  BY <1>9, EmptySeq DEF Gone
<1>10. CASE UNCHANGED vars
  BY <1>10 DEF vars
<1> QED
  BY <1>1, <1>2, <1>3, <1>4, <1>5, <1>6, <1>7, <1>8, <1>9, <1>10 DEF Next

(* The inductive invariant holds in every behaviour.                       *)
THEOREM Invariance ==
  Spec => []IInv
<1> QED  BY InitIInv, NextIInv, PTL DEF Spec

(* Type correctness of the scanner, for texts and backlogs of any length.  *)
THEOREM TypeCorrect ==
  Spec => []TypeOK
<1>1. IInv => TypeOK
  BY DEF IInv
<1> QED  BY <1>1, Invariance, PTL

(* The camera runs only while the scanner is on the screen.                *)
THEOREM CameraOff ==
  Spec => []CameraOnlyOnScreen
<1>1. IInv => CameraOnlyOnScreen
  BY DEF IInv
<1> QED  BY <1>1, Invariance, PTL

(* A scanner that stays on the screen is stopped by nothing but a code     *)
(* without a string.                                                       *)
THEOREM FreezeCause ==
  Spec => FreezesOnlyUnreadable
<1> DEFINE Freezes == /\ scanner = "shown" /\ session = "running"
                      /\ scanner' = "shown" /\ session' # "running"
<1>1. IInv /\ [Next]_vars => [Freezes => Head(callbacks) = Unreadable]_vars
  <2> SUFFICES ASSUME IInv, Next, Freezes PROVE Head(callbacks) = Unreadable
    BY DEF vars
  <2>1. ~MetadataOutput
    BY DEF MetadataOutput, Pop
  <2>2. CASE MetadataUnreadable
    BY <2>2 DEF MetadataUnreadable
  <2> QED
    BY <2>1, <2>2 DEF Next, Relaunch, ScanQRButtonTapped, Detect, ParseTraps, Leave,
                      CancelSwipe, Gone
<1> QED  BY <1>1, Invariance, PTL DEF Spec, FreezesOnlyUnreadable

(* An account is saved only by a callback that brings its URI.             *)
THEOREM SavesScanned ==
  Spec => SavesWhatWasScanned
<1> DEFINE Matches == Len(saved') > Len(saved) => IsUri(Head(callbacks).text, saved'[Len(saved')])
<1>1. IInv /\ [Next]_vars => [Matches]_vars
  <2> SUFFICES ASSUME IInv, Next, Len(saved') > Len(saved)
               PROVE  IsUri(Head(callbacks).text, saved'[Len(saved')])
    BY DEF vars
  <2>1. saved \in Seq(Account) /\ Len(saved) \in Nat
    BY DEF IInv, TypeOK
  <2>2. ASSUME saved' = <<>> PROVE FALSE
    BY <2>1, <2>2, EmptySeq
  <2>3. CASE MetadataOutput
    <3>1. Head(callbacks) \in Metadata
      BY <2>3, HeadTailProperties DEF MetadataOutput, IInv, TypeOK
    <3>2. /\ saved' = Append(saved, ParseResult(Head(callbacks).text))
          /\ HasFields(Head(callbacks).text) /\ ~Traps(Head(callbacks).text)
      BY <2>3 DEF MetadataOutput
    <3>3. IsUri(Head(callbacks).text, ParseResult(Head(callbacks).text))
          /\ ParseResult(Head(callbacks).text) \in Account
      BY <3>1, <3>2, MetadataTexts, ParsedIsUri
    <3>4. saved'[Len(saved')] = ParseResult(Head(callbacks).text)
      BY <2>1, <3>2, <3>3, AppendProperties
    <3> QED  BY <3>3, <3>4
  <2>4. UNCHANGED saved => FALSE
    BY <2>1
  <2> QED
    BY <2>2, <2>3, <2>4 DEF Next, Relaunch, ScanQRButtonTapped, Detect, MetadataUnreadable,
                            ParseTraps, Leave, CancelSwipe, Gone
<1> QED  BY <1>1, Invariance, PTL DEF Spec, SavesWhatWasScanned

(* No text of the documented form makes parseResult trap.                  *)
THEOREM NoTrapOnUri ==
  Spec => UrisNeverTrap
<1> DEFINE NotUri == ~IsUri(Head(callbacks).text, ParseResult(Head(callbacks).text))
<1>1. IInv /\ [Next]_vars => [~crashed /\ crashed' => NotUri]_vars
  <2> SUFFICES ASSUME IInv, Next, ~crashed, crashed' PROVE NotUri
    BY DEF vars
  <2>1. ParseTraps
    BY DEF Next, Relaunch, ScanQRButtonTapped, Detect, MetadataOutput, MetadataUnreadable,
           Leave, CancelSwipe, Gone
  <2>2. Head(callbacks) \in Metadata /\ Traps(Head(callbacks).text)
    BY <2>1, HeadTailProperties DEF ParseTraps, IInv, TypeOK
  <2> QED  BY <2>2, MetadataTexts, UriDoesNotTrap
<1> QED  BY <1>1, Invariance, PTL DEF Spec, UrisNeverTrap

(* A scanner that leaves the screen saves nothing but what was waiting.    *)
THEOREM BacklogOnly ==
  Spec => OnlyTheBacklogIsSaved
<1> DEFINE Bounded == scanner # "shown" => Len(saved') + Len(callbacks') <= Len(saved) + Len(callbacks)
<1>1. IInv /\ [Next]_vars => [Bounded]_vars
  <2> SUFFICES ASSUME IInv, Next, scanner # "shown"
               PROVE  Len(saved') + Len(callbacks') <= Len(saved) + Len(callbacks)
    BY DEF vars
  <2>1. /\ saved \in Seq(Account) /\ callbacks \in Seq(Metadata)
        /\ Len(saved) \in Nat /\ Len(callbacks) \in Nat
    BY DEF IInv, TypeOK
  <2>2. Len(<<>>) = 0
    BY EmptySeq
  <2>3. CASE MetadataOutput
    <3>1. Head(callbacks) \in Metadata /\ Len(callbacks') = Len(callbacks) - 1
      BY <2>1, <2>3, HeadTailProperties DEF MetadataOutput
    <3>2. Len(saved') <= Len(saved) + 1
      <4>1. CASE saved' = saved
        BY <2>1, <4>1
      <4>2. CASE saved' # saved
        <5>1. /\ saved' = Append(saved, ParseResult(Head(callbacks).text))
              /\ HasFields(Head(callbacks).text) /\ ~Traps(Head(callbacks).text)
          BY <2>3, <4>2 DEF MetadataOutput
        <5> QED  BY <2>1, <3>1, <5>1, MetadataTexts, ParsedIsUri, AppendProperties
      <4> QED  BY <4>1, <4>2
    <3>3. Len(saved') \in Nat /\ Len(callbacks') \in Nat
      BY NextIInv DEF IInv, TypeOK
    <3> QED  BY <2>1, <3>1, <3>2, <3>3
  <2>4. CASE MetadataUnreadable
    <3>1. saved' = saved /\ Len(callbacks') = Len(callbacks) - 1
      BY <2>1, <2>4, HeadTailProperties DEF MetadataUnreadable
    <3> QED  BY <2>1, <3>1
  <2>5. ASSUME saved' \in {saved, <<>>}, callbacks' \in {callbacks, <<>>}
        PROVE  Len(saved') + Len(callbacks') <= Len(saved) + Len(callbacks)
    BY <2>1, <2>2, <2>5
  <2>6. ASSUME NEW metadata \in Metadata, Detect(metadata) PROVE FALSE
    BY <2>6 DEF Detect, IInv, CameraOnlyOnScreen
  <2> QED
    BY <2>3, <2>4, <2>5, <2>6 DEF Next, Relaunch, ScanQRButtonTapped, ParseTraps, Leave,
                                  CancelSwipe, Gone
<1> QED  BY <1>1, Invariance, PTL DEF Spec, OnlyTheBacklogIsSaved
=============================================================================
