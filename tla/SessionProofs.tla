----------------------------- MODULE SessionProofs -----------------------------
(***************************************************************************)
(* Machine-checked proofs about Session, for every set of users.           *)
(*                                                                         *)
(* ScreenMatchesSession is not inductive: what a failed or successful      *)
(* setData leaves behind depends on whom the request is for.  Halfway adds *)
(* that a user between the two halves of signUp is registered, has no      *)
(* profile, and is the one signed in, if anybody is.                       *)
(***************************************************************************)
EXTENDS Session, TLAPS

Halfway ==
  request # Idle /\ request.op = "setData" =>
    /\ request.user \in registered \ profiles
    /\ currentUser \in {request.user, NoUser}

(* A button is enabled only when an email was typed.                       *)
Typed == \A s \in Forms : form[s].isEnabled => form[s].email # NoUser

IInv ==
  /\ TypeOK
  /\ Typed
  /\ profiles \subseteq registered
  /\ RequestCovered
  /\ Halfway
  /\ ScreenMatchesSession

-----------------------------------------------------------------------------
(* IInv is inductive.                                                      *)

(* Empty forms are well typed and cannot be sent.                          *)
LEMMA EmptyForms ==
  /\ [s \in Forms |-> EmptyForm] \in [Forms -> Form]
  /\ \A s \in Forms : ~[t \in Forms |-> EmptyForm][s].isEnabled
BY DEF EmptyForm, Form

(* IInv holds when the app is launched.                                    *)
LEMMA InitIInv ==
  Init => IInv
<1> SUFFICES ASSUME Init PROVE IInv
  OBVIOUS
<1>1. TypeOK
  BY EmptyForms DEF Init, TypeOK, Forms, FirstScreen
<1>2. Typed
  BY EmptyForms DEF Init, Typed
<1>3. RequestCovered /\ Halfway /\ profiles \subseteq registered
  BY DEF Init, RequestCovered, Halfway
<1>4. ScreenMatchesSession
  BY DEF Init, ScreenMatchesSession, FirstScreen, Forms
<1> QED  BY <1>1, <1>2, <1>3, <1>4 DEF IInv

(* A launch after a kill, with a request done or not.                      *)
LEMMA RelaunchIInv ==
  ASSUME IInv, Relaunch
  PROVE  IInv'
<1> USE DEF IInv
<1>1. profiles' \subseteq registered' /\ registered' \in SUBSET Users /\ profiles' \in SUBSET Users
  BY DEF Relaunch, TypeOK, Halfway, serverVars, Request
<1>2. TypeOK'
  BY <1>1, EmptyForms DEF Relaunch, TypeOK, Forms, FirstScreen
<1>3. Typed'
  BY EmptyForms DEF Relaunch, Typed
<1>4. RequestCovered' /\ Halfway'
  BY DEF Relaunch, RequestCovered, Halfway
<1>5. ScreenMatchesSession'
  BY DEF Relaunch, ScreenMatchesSession, FirstScreen, Forms
<1> QED  BY <1>1, <1>2, <1>3, <1>4, <1>5

(* Typing into a form.                                                     *)
LEMMA EditIInv ==
  ASSUME IInv, NEW email \in Users \cup {NoUser}, NEW complete \in BOOLEAN,
         Edit(email, complete)
  PROVE  IInv'
<1> USE DEF IInv
<1> DEFINE f == [email |-> email, complete |-> complete,
                 isEnabled |-> IsEnabled(screen, email, complete)]
<1>1. f \in Form /\ (f.isEnabled => f.email # NoUser)
  BY DEF Form, IsEnabled
<1>2. form' = [form EXCEPT ![screen] = f] /\ screen \in Forms
      /\ UNCHANGED <<registered, profiles, currentUser, screen, sheet, request, revoked>>
  BY DEF Edit, serverVars
<1> HIDE DEF f
<1>3. TypeOK' /\ Typed'
  BY <1>1, <1>2 DEF TypeOK, Typed
<1> QED  BY <1>2, <1>3 DEF RequestCovered, Halfway, ScreenMatchesSession

(* Sending a request from a form covers the form.                          *)
LEMMA SendIInv ==
  ASSUME IInv, NEW s \in Forms, NEW op \in Op, op # "setData", FormOf(op) = s, Send(s, op)
  PROVE  IInv'
<1> USE DEF IInv
<1>1. request' \in Request /\ request'.op = op
  BY DEF Send, TypeOK, Typed, Form, Request
<1>2. TypeOK' /\ Typed'
  BY <1>1 DEF Send, TypeOK, Typed, serverVars
<1>3. RequestCovered'
  BY <1>1, SessionAssumption DEF Send, RequestCovered
<1>4. Halfway'
  BY <1>1 DEF Halfway
<1>5. ScreenMatchesSession' /\ profiles' \subseteq registered'
  BY DEF Send, ScreenMatchesSession, serverVars
<1> QED  BY <1>2, <1>3, <1>4, <1>5

(* The three buttons.                                                      *)
LEMMA ButtonsIInv ==
  ASSUME IInv,
         SignInButtonTapped \/ CreateAccountButtonTapped \/ ResetPasswordButtonTapped
  PROVE  IInv'
<1>1. CASE SignInButtonTapped
  BY <1>1, SendIInv DEF SignInButtonTapped, FormOf, Op, Forms
<1>2. CASE CreateAccountButtonTapped
  BY <1>2, SendIInv DEF CreateAccountButtonTapped, FormOf, Op, Forms
<1>3. CASE ResetPasswordButtonTapped
  BY <1>3, SendIInv DEF ResetPasswordButtonTapped, FormOf, Op, Forms
<1> QED  BY <1>1, <1>2, <1>3

(* Moving between screens happens with no request under way and never      *)
(* between a form and the home screen.                                     *)
LEMMA NavigateIInv ==
  ASSUME IInv, NEW p \in Paths, Navigate(p[1], p[2])
  PROVE  IInv'
<1> USE DEF IInv
<1>1. /\ screen' \in Forms \cup {"home", "settings"}
      /\ screen \in Forms <=> screen' \in Forms
      /\ sheet = "none" /\ request = Idle
      /\ UNCHANGED <<registered, profiles, currentUser, sheet, request, revoked>>
  BY DEF Navigate, Paths, Forms, RequestCovered, serverVars
<1>2. form' \in [Forms -> Form] /\ Typed'
  BY DEF Navigate, TypeOK, Typed, EmptyForm, Form
<1>3. TypeOK'
  BY <1>1, <1>2 DEF TypeOK
<1> QED  BY <1>1, <1>2, <1>3 DEF RequestCovered, Halfway, ScreenMatchesSession

(* Dismissing an alert, signing out, being signed out.                     *)
LEMMA LeaveIInv ==
  ASSUME IInv, DismissAlert \/ SignOut \/ Revoke
  PROVE  IInv'
<1> USE DEF IInv
<1>1. CASE DismissAlert
  <2>1. TypeOK' /\ Typed'
    BY <1>1 DEF DismissAlert, TypeOK, Typed, serverVars
  <2> QED
    BY <1>1, <2>1 DEF DismissAlert, RequestCovered, Halfway, ScreenMatchesSession, serverVars
<1>2. CASE SignOut
  <2>1. TypeOK' /\ Typed'
    BY <1>2, EmptyForms DEF SignOut, ShowLoginScreen, TypeOK, Typed, Forms, serverVars
  <2>2. request = Idle
    BY <1>2 DEF SignOut, RequestCovered
  <2> QED
    BY <1>2, <2>1, <2>2 DEF SignOut, ShowLoginScreen, RequestCovered, Halfway,
                            ScreenMatchesSession, Forms, serverVars
<1>3. CASE Revoke
  <2>1. TypeOK' /\ Typed'
    BY <1>3 DEF Revoke, TypeOK, Typed, serverVars
  <2>2. ScreenMatchesSession'
    BY <1>3 DEF Revoke, ScreenMatchesSession, TypeOK
  <2> QED  BY <1>3, <2>1, <2>2 DEF Revoke, RequestCovered, Halfway, serverVars
<1> QED  BY <1>1, <1>2, <1>3

(* An answer that shows the home screen.                                   *)
LEMMA HomeIInv ==
  ASSUME IInv, SignInSucceeds \/ SetDataSucceeds
  PROVE  IInv'
<1> USE DEF IInv
<1>1. request \in Request
  BY DEF SignInSucceeds, SetDataSucceeds, Completes, TypeOK
<1>2. TypeOK' /\ Typed'
  <2>1. form' = [s \in Forms |-> EmptyForm] /\ screen' = "home" /\ sheet' = "none"
    BY DEF SignInSucceeds, SetDataSucceeds, ShowHomeScreen
  <2>2. registered' \in SUBSET Users /\ profiles' \in SUBSET Users
        /\ currentUser' \in Users \cup {NoUser} /\ request' = Idle /\ revoked' \in BOOLEAN
    BY <1>1 DEF SignInSucceeds, SetDataSucceeds, TypeOK, Request, serverVars
  <2> QED  BY <2>1, <2>2, EmptyForms DEF TypeOK, Typed
<1>3. profiles' \subseteq registered'
  BY DEF SignInSucceeds, SetDataSucceeds, Completes, Halfway, serverVars
<1>4. RequestCovered' /\ Halfway'
  BY DEF SignInSucceeds, SetDataSucceeds, ShowHomeScreen, RequestCovered, Halfway
<1>5. ScreenMatchesSession'
  <2>1. CASE SignInSucceeds
    BY <1>1, <2>1, SessionAssumption DEF SignInSucceeds, ShowHomeScreen, ScreenMatchesSession,
                                         Forms, Request
  <2>2. CASE SetDataSucceeds
    BY <2>2 DEF SetDataSucceeds, ShowHomeScreen, ScreenMatchesSession, Forms
  <2> QED  BY <2>1, <2>2
<1> QED  BY <1>2, <1>3, <1>4, <1>5

(* The first half of signUp succeeds.                                      *)
LEMMA CreateUserIInv ==
  ASSUME IInv, CreateUserSucceeds
  PROVE  IInv'
<1> USE DEF IInv
<1>1. /\ request \in Request /\ request # Idle /\ request.op = "createUser"
      /\ request.user \in Users /\ request.user \notin registered
  BY DEF CreateUserSucceeds, Completes, TypeOK, Request
<1>2. request' \in Request /\ request'.op = "setData" /\ request'.user = request.user
  BY <1>1 DEF CreateUserSucceeds, Request, Op
<1>3. TypeOK' /\ Typed'
  BY <1>1, <1>2 DEF CreateUserSucceeds, TypeOK, Typed
<1>4. RequestCovered'
  BY <1>1, <1>2, SessionAssumption DEF CreateUserSucceeds, RequestCovered, FormOf
<1>5. Halfway' /\ profiles' \subseteq registered'
  BY <1>1, <1>2 DEF CreateUserSucceeds, Halfway
<1>6. ScreenMatchesSession'
  BY <1>1, SessionAssumption DEF CreateUserSucceeds, ScreenMatchesSession
<1> QED  BY <1>3, <1>4, <1>5, <1>6

(* The answers that leave the user on a form.                              *)
LEMMA FormIInv ==
  ASSUME IInv,
         SignInFails \/ CreateUserFails \/ SetDataFails \/ ResetSucceeds \/ ResetFails
  PROVE  IInv'
<1> USE DEF IInv
<1>1. /\ request' = Idle /\ sheet' \in {"none", "success", "error"}
      /\ UNCHANGED <<profiles, currentUser, revoked>>
      /\ registered \subseteq registered' /\ registered' \in SUBSET Users
  BY DEF SignInFails, CreateUserFails, SetDataFails, ResetSucceeds, ResetFails, Completes,
         serverVars, TypeOK, Request
<1>2. screen \in Forms /\ screen' \in Forms
  BY DEF SignInFails, CreateUserFails, SetDataFails, ResetSucceeds, ResetFails, Completes,
         RequestCovered, FormOf, Forms
<1>3. form' \in [Forms -> Form] /\ Typed'
  <2>1. CASE ResetSucceeds
    BY <2>1 DEF ResetSucceeds, TypeOK, Typed, EmptyForm, Form
  <2>2. CASE ~ResetSucceeds
    BY <2>2 DEF SignInFails, CreateUserFails, SetDataFails, ResetFails, TypeOK, Typed
  <2> QED  BY <2>1, <2>2
<1>4. TypeOK'
  BY <1>1, <1>2, <1>3 DEF TypeOK
<1>5. RequestCovered' /\ Halfway' /\ profiles' \subseteq registered'
  BY <1>1 DEF RequestCovered, Halfway
<1>6. ScreenMatchesSession'
  BY <1>1, <1>2 DEF ScreenMatchesSession
<1> QED  BY <1>3, <1>4, <1>5, <1>6

(* Every step keeps IInv.                                                  *)
LEMMA NextIInv ==
  IInv /\ [Next]_vars => IInv'
<1> SUFFICES ASSUME IInv, [Next]_vars PROVE IInv'
  OBVIOUS
<1>1. CASE Relaunch
  BY <1>1, RelaunchIInv
<1>2. ASSUME NEW email \in Users \cup {NoUser}, NEW complete \in BOOLEAN, Edit(email, complete)
      PROVE  IInv'
  BY <1>2, EditIInv
<1>3. CASE SignInButtonTapped \/ CreateAccountButtonTapped \/ ResetPasswordButtonTapped
  BY <1>3, ButtonsIInv
<1>4. ASSUME NEW p \in Paths, Navigate(p[1], p[2]) PROVE IInv'
  BY <1>4, NavigateIInv
<1>5. CASE DismissAlert \/ SignOut \/ Revoke
  BY <1>5, LeaveIInv
<1>6. CASE SignInSucceeds \/ SetDataSucceeds
  BY <1>6, HomeIInv
<1>7. CASE CreateUserSucceeds
  BY <1>7, CreateUserIInv
<1>8. CASE SignInFails \/ CreateUserFails \/ SetDataFails \/ ResetSucceeds \/ ResetFails
  BY <1>8, FormIInv
<1>9. CASE UNCHANGED vars
  <2>1. TypeOK' /\ Typed'
    BY <1>9 DEF vars, IInv, TypeOK, Typed
  <2> QED
    BY <1>9, <2>1 DEF vars, IInv, RequestCovered, Halfway, ScreenMatchesSession
<1> QED
  BY <1>1, <1>2, <1>3, <1>4, <1>5, <1>6, <1>7, <1>8, <1>9 DEF Next

-----------------------------------------------------------------------------
(* The inductive invariant holds in every behaviour.                       *)
THEOREM Invariance ==
  Spec => []IInv
<1> QED  BY InitIInv, NextIInv, PTL DEF Spec

(* Type correctness of screens, forms and requests.                        *)
THEOREM TypeCorrect ==
  Spec => []TypeOK
<1>1. IInv => TypeOK
  BY DEF IInv
<1> QED  BY <1>1, Invariance, PTL

(* The activity covers a form exactly while its request is under way, for  *)
(* any number of users, failures and launches.                             *)
THEOREM Covered ==
  Spec => []RequestCovered
<1>1. IInv => RequestCovered
  BY DEF IInv
<1> QED  BY <1>1, Invariance, PTL

(* The screen fits the session, but for a revoked session and a profile    *)
(* that was not stored.                                                    *)
THEOREM ScreenFits ==
  Spec => []ScreenMatchesSession
<1>1. IInv => ScreenMatchesSession
  BY DEF IInv
<1> QED  BY <1>1, Invariance, PTL
=============================================================================
