-------------------------------- MODULE OtpUri --------------------------------
(***************************************************************************)
(* parseResult(_:) of Functions.swift, which turns the text of a scanned   *)
(* code into an account, as in the example of its comment:                 *)
(*   otpauth://totp/Google%3Au.turkaev%40yandex.ru?secret=tbrpy&issuer=Goo *)
(*                                                                         *)
(* All it looks at is where three markers occur first.  A text is          *)
(* therefore the sequence of the markers in it; the pieces of text between *)
(* them are known by their place, piece k being what follows marker k and  *)
(* piece 0 what precedes the first.  (The markers cannot overlap.)  A      *)
(* field of an account is the range of pieces it was cut from; that %40    *)
(* becomes @ in the email, and the new id, change none of this.            *)
(***************************************************************************)
EXTENDS Naturals, Sequences

EmailMarker  == "%3A"
SecretMarker == "?secret="
IssuerMarker == "&issuer="

Marker == {EmailMarker, SecretMarker, IssuerMarker}

Pieces(from, to) == [from |-> from, to |-> to]
Field == [from: Nat, to: Nat]
Account == [email: Field, secret: Field, issuer: Field]

Occurs(m, text) == \E i \in DOMAIN text : text[i] = m

(* index(of:) and endIndex(of:), as the place of the marker they find.     *)
Index(m, text) == CHOOSE i \in DOMAIN text : text[i] = m /\ \A j \in DOMAIN text : j < i => text[j] # m

(* The guard: every marker is found.                                       *)
HasFields(text) == \A m \in Marker : Occurs(m, text)

(* Definitions named Slip... are variants of the definition that follows,  *)
(* each with one plausible mistake; nothing of the specification uses them *)
(* (PROJECT.json puts them in the place of the definition, as mutants).    *)
SlipTraps(text) ==
  /\ HasFields(text)
  /\ \/ Index(SecretMarker, text) > Index(EmailMarker, text)
     \/ Index(SecretMarker, text) > Index(IssuerMarker, text)

(* A range that ends before it begins: the subscript traps.                *)
Traps(text) ==
  /\ HasFields(text)
  /\ \/ Index(EmailMarker, text) > Index(SecretMarker, text)
     \/ Index(SecretMarker, text) > Index(IssuerMarker, text)

SlipParseResult(text) ==
  [email  |-> Pieces(0, Index(SecretMarker, text) - 1),
   secret |-> Pieces(Index(SecretMarker, text), Index(IssuerMarker, text) - 1),
   issuer |-> Pieces(Index(IssuerMarker, text), Len(text))]

(* The account of a text that has all fields and does not trap.            *)
ParseResult(text) ==
  [email  |-> Pieces(Index(EmailMarker, text), Index(SecretMarker, text) - 1),
   secret |-> Pieces(Index(SecretMarker, text), Index(IssuerMarker, text) - 1),
   issuer |-> Pieces(Index(IssuerMarker, text), Len(text))]

(* What the example shows, as a grammar: the text is label %3A email       *)
(* ?secret= secret &issuer= issuer, no field holding a marker that begins  *)
(* a later one, and the account has these fields.                          *)
IsUri(text, account) ==
  \E c, s, i \in DOMAIN text :
    /\ c < s /\ s < i
    /\ text[c] = EmailMarker /\ text[s] = SecretMarker /\ text[i] = IssuerMarker
    /\ \A j \in DOMAIN text : /\ j < c => text[j] # EmailMarker
                              /\ j < s => text[j] # SecretMarker
                              /\ j < i => text[j] # IssuerMarker
    /\ account = [email |-> Pieces(c, s - 1), secret |-> Pieces(s, i - 1), issuer |-> Pieces(i, Len(text))]
=============================================================================
