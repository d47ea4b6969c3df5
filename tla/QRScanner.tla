------------------------------- MODULE QRScanner -------------------------------
(***************************************************************************)
(* QRScannerViewController: its capture session, and what it does with the *)
(* codes the camera sees; their texts are read as in OtpUri.               *)
(*                                                                         *)
(* External, modelled from how the code uses it: AVFoundation, which sends *)
(* what a running session sees to the main queue, where it waits for the   *)
(* main thread whether or not the session is stopped meanwhile; and        *)
(* UINavigationController, which takes a popped controller off the screen  *)
(* in a transition, cancels one that was begun with the finger, does not   *)
(* pop below the account list, and releases the controller in the end      *)
(* (the delegate is weak: nothing is delivered after that).                *)
(***************************************************************************)
EXTENDS OtpUri

CONSTANTS
  Texts,      \* texts that a code may hold
  MaxQueue,   \* bound: callbacks waiting for the main thread
  MaxSaved    \* bound: accounts saved on one visit at which no code is seen

ASSUME ScannerAssumption ==
  /\ Texts \subseteq Seq(Marker)
  /\ {MaxQueue, MaxSaved} \subseteq Nat

VARIABLES
  scanner,    \* the controller: "absent", "shown", or leaving the screen,
              \* "popped" or "swiped" (with the finger, may be cancelled)
  session,    \* captureSession: "nil", "stopped" or "running"
  wired,      \* camera and metadata output are connected to the session
  callbacks,  \* calls of metadataOutput waiting for the main thread
  saved,      \* accounts saved since the scanner was opened, in order
  crashed     \* the process died in parseResult

vars == <<scanner, session, wired, callbacks, saved, crashed>>

(* What a callback brings: a code with a text, one without, or nothing.    *)
Scan(text) == [kind |-> "text", text |-> text]
Unreadable == [kind |-> "unreadable", text |-> <<>>]
Nothing    == [kind |-> "none", text |-> <<>>]
Metadata   == {Scan(text) : text \in Texts} \cup {Unreadable, Nothing}

(* What setupCamera() finds: all it needs, no device or one that cannot be *)
(* opened, or a session that refuses the input or the output.              *)
Camera == {"ok", "missing", "refused"}

-----------------------------------------------------------------------------
Init ==
  /\ scanner = "absent" /\ session = "nil" /\ wired = FALSE
  /\ callbacks = <<>> /\ saved = <<>>
  /\ crashed = FALSE

Relaunch ==
  /\ scanner' = "absent" /\ session' = "nil" /\ wired' = FALSE
  /\ callbacks' = <<>> /\ saved' = <<>>
  /\ crashed' = FALSE

(* setupCamera(): failed() drops the session; the early returns keep one   *)
(* that sees nothing.                                                      *)
SetupCamera(camera) ==
  CASE camera = "ok"      -> "running"
    [] camera = "missing" -> "stopped"
    [] camera = "refused" -> "nil"

(* viewWillAppear(_:) and viewWillDisappear(_:).                           *)
WillAppear(s)    == IF s = "stopped" THEN "running" ELSE s

(* Definitions named Slip... are variants of the definition that follows,  *)
(* each with one plausible mistake; nothing of the specification uses them *)
(* (PROJECT.json puts them in the place of the definition, as mutants).    *)
SlipWillDisappear(s) == s

WillDisappear(s) == IF s = "running" THEN "stopped" ELSE s

(* The scanner is pushed: viewDidLoad(), then viewWillAppear(_:).          *)
ScanQRButtonTapped(camera) ==
  /\ ~crashed /\ scanner = "absent"
  /\ scanner' = "shown"
  /\ session' = WillAppear(SetupCamera(camera))
  /\ wired' = (camera = "ok")
  /\ saved' = <<>>
  /\ UNCHANGED <<callbacks, crashed>>

(* The camera sees something.                                              *)
Detect(metadata) ==
  /\ ~crashed /\ session = "running" /\ wired
  /\ Len(callbacks) < MaxQueue /\ Len(saved) < MaxSaved
  /\ callbacks' = Append(callbacks, metadata)
  /\ UNCHANGED <<scanner, session, wired, saved, crashed>>

(* popViewController(animated:)                                            *)
Pop == scanner' = IF scanner = "shown" THEN "popped" ELSE scanner

SlipMetadataOutput ==
  /\ ~crashed /\ callbacks # <<>>
  /\ LET metadata == Head(callbacks)
         account  == metadata.kind = "text" /\ HasFields(metadata.text)
     IN  /\ metadata # Unreadable /\ ~Traps(metadata.text)
         /\ saved' = IF account THEN Append(saved, ParseResult(metadata.text)) ELSE saved
         /\ IF account THEN Pop ELSE UNCHANGED scanner
  /\ callbacks' = Tail(callbacks)
  /\ session' = "stopped"
  /\ UNCHANGED <<wired, crashed>>

SlipMetadataRuns ==
  /\ ~crashed /\ callbacks # <<>>
  /\ LET metadata == Head(callbacks)
     IN  /\ metadata # Unreadable /\ ~Traps(metadata.text)
         /\ saved' = IF metadata.kind = "text" /\ HasFields(metadata.text)
                        THEN Append(saved, ParseResult(metadata.text)) ELSE saved
  /\ callbacks' = Tail(callbacks)
  /\ Pop
  /\ UNCHANGED <<session, wired, crashed>>

(* metadataOutput: the session is stopped; an account is saved if the text *)
(* has the fields of one; the scanner is popped in any case.               *)
MetadataOutput ==
  /\ ~crashed /\ callbacks # <<>>
  /\ LET metadata == Head(callbacks)
     IN  /\ metadata # Unreadable /\ ~Traps(metadata.text)
         /\ saved' = IF metadata.kind = "text" /\ HasFields(metadata.text)
                        THEN Append(saved, ParseResult(metadata.text)) ELSE saved
  /\ callbacks' = Tail(callbacks)
  /\ session' = "stopped"
  /\ Pop
  /\ UNCHANGED <<wired, crashed>>

(* The guards return early: the session is stopped, the scanner stays.     *)
MetadataUnreadable ==
  /\ ~crashed /\ callbacks # <<>> /\ Head(callbacks) = Unreadable
  /\ callbacks' = Tail(callbacks)
  /\ session' = "stopped"
  /\ UNCHANGED <<scanner, wired, saved, crashed>>

(* A range of parseResult ends before it begins.                           *)
ParseTraps ==
  /\ ~crashed /\ callbacks # <<>> /\ Traps(Head(callbacks).text)
  /\ crashed' = TRUE
  /\ UNCHANGED <<scanner, session, wired, callbacks, saved>>

(* The user leaves: with the back button, or with a swipe that may end     *)
(* where it began.                                                         *)
Leave(how) ==
  /\ ~crashed /\ scanner = "shown"
  /\ scanner' = how
  /\ session' = WillDisappear(session)
  /\ UNCHANGED <<wired, callbacks, saved, crashed>>

CancelSwipe ==
  /\ ~crashed /\ scanner = "swiped"
  /\ scanner' = "shown"
  /\ session' = WillAppear(session)
  /\ UNCHANGED <<wired, callbacks, saved, crashed>>

(* The transition is over and the controller is released.                  *)
Gone ==
  /\ ~crashed /\ scanner \in {"popped", "swiped"}
  /\ scanner' = "absent" /\ session' = "nil" /\ wired' = FALSE
  /\ callbacks' = <<>>
  /\ UNCHANGED <<saved, crashed>>

Next ==
  \/ Relaunch
  \/ \E camera \in Camera : ScanQRButtonTapped(camera)
  \/ \E metadata \in Metadata : Detect(metadata)
  \/ MetadataOutput
  \/ MetadataUnreadable
  \/ ParseTraps
  \/ \E how \in {"popped", "swiped"} : Leave(how)
  \/ CancelSwipe
  \/ Gone

Spec == Init /\ [][Next]_vars

-----------------------------------------------------------------------------
(***************************************************************************)
(* Properties.                                                             *)
(***************************************************************************)

(* Every variable has its type.                                            *)
TypeOK ==
  /\ scanner \in {"absent", "shown", "popped", "swiped"}
  /\ session \in {"nil", "stopped", "running"}
  /\ wired \in BOOLEAN
  /\ callbacks \in Seq(Metadata)
  /\ saved \in Seq(Account)
  /\ crashed \in BOOLEAN

(* The camera runs only while the scanner is on the screen, whether it is  *)
(* left by a code, the back button, or a swipe that is cancelled and begun *)
(* again.                                                                  *)
CameraOnlyOnScreen == session = "running" => scanner = "shown"

(* A scanner that stays on the screen loses its picture only when a code   *)
(* without a string was seen: the two early returns do not pop.            *)
FreezesOnlyUnreadable ==
  [][(scanner = "shown" /\ session = "running" /\ scanner' = "shown" /\ session' # "running")
       => Head(callbacks) = Unreadable]_vars

(* Every account that is saved is the one the scanned URI describes: of    *)
(* each text, with whatever markers twice or in the fields, parseResult    *)
(* cuts the fields that the example of its comment names.                  *)
SavesWhatWasScanned ==
  [][Len(saved') > Len(saved) => IsUri(Head(callbacks).text, saved'[Len(saved')])]_vars

(* parseResult traps on no text of that form.                              *)
UrisNeverTrap ==
  [][~crashed /\ crashed' =>
       LET text == Head(callbacks).text IN ~IsUri(text, ParseResult(text))]_vars

(* Once the scanner has begun to leave the screen, only codes that were    *)
(* waiting already can be saved (each of them, though: stopRunning() does  *)
(* not take back the callbacks that are queued).                           *)
OnlyTheBacklogIsSaved ==
  [][scanner # "shown" =>
       Len(saved') + Len(callbacks') <= Len(saved) + Len(callbacks)]_vars
=============================================================================
