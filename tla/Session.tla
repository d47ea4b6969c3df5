-------------------------------- MODULE Session --------------------------------
(***************************************************************************)
(* Signing up, in and out, and which screen the app shows meanwhile: the   *)
(* login, sign-up, forgot-password and settings controllers, AuthManager,  *)
(* SceneDelegate and resetWindow.                                          *)
(*                                                                         *)
(* A tap presents an ActivityController over the whole screen, which takes *)
(* all touches until it is dismissed, and sends a request to Firebase.     *)
(* Signing up takes two requests: FirebaseAuth creates and signs in the    *)
(* user, then Firestore stores the document users/<uid>.                   *)
(*                                                                         *)
(* External, modelled from how the code uses it: FirebaseAuth and          *)
(* Firestore, whose answers may be lost or be errors.  An email stands for *)
(* the user it belongs to; what is typed for a password is complete or not.*)
(***************************************************************************)
EXTENDS Naturals

CONSTANTS
  Users,   \* Firebase users
  NoUser,  \* currentUser = nil; an empty email field
  Idle     \* no request is under way

Op      == {"signIn", "createUser", "setData", "reset"}
Request == [op: Op, user: Users]

(* The text fields and the button of a form.                               *)
Form == [email: Users \cup {NoUser}, complete: BOOLEAN, isEnabled: BOOLEAN]

Forms == {"login", "signUp", "forgot"}

ASSUME SessionAssumption ==
  /\ NoUser \notin Users
  /\ Idle \notin Request

VARIABLES
  registered,   \* users FirebaseAuth knows
  profiles,     \* users with a document users/<uid>
  currentUser,  \* Auth.auth().currentUser, kept in the keychain
  screen,       \* the controller in front: a form, "home" or "settings"
  form,         \* form[s]: the fields of form s, while it exists
  sheet,        \* what is presented over the screen
  request,      \* the request whose completion is outstanding
  revoked       \* the session was ended under the home screen

vars == <<registered, profiles, currentUser, screen, form, sheet, request, revoked>>

serverVars == <<registered, profiles>>

-----------------------------------------------------------------------------
(* viewDidLoad(): empty fields, the button disabled.                       *)
EmptyForm == [email |-> NoUser, complete |-> FALSE, isEnabled |-> FALSE]

(* textFieldDidChangeSelection(_:): when the button is enabled.            *)
IsEnabled(s, email, complete) ==
  email # NoUser /\ (s = "forgot" \/ complete)

(* scene(willConnectTo:) chooses the first screen.                         *)
FirstScreen(user) == IF user = NoUser THEN "login" ELSE "home"

(* showHomeScreen() and showLoginScreen(): resetWindow replaces the root   *)
(* controller and with it whatever was on top.                             *)
ShowHomeScreen ==
  /\ screen' = "home" /\ sheet' = "none"
  /\ form' = [s \in Forms |-> EmptyForm]

ShowLoginScreen ==
  /\ screen' = "login" /\ sheet' = "none"
  /\ form' = [s \in Forms |-> EmptyForm]

Init ==
  /\ registered \in SUBSET Users
  /\ profiles \in SUBSET registered
  /\ currentUser \in registered \cup {NoUser}
  /\ screen = FirstScreen(currentUser)
  /\ form = [s \in Forms |-> EmptyForm]
  /\ sheet = "none" /\ request = Idle /\ revoked = FALSE

(* The process is killed and started again.  What it had asked for may     *)
(* have been done, or may be: Firestore keeps unsent writes on disk.       *)
Relaunch ==
  /\ \/ UNCHANGED serverVars
     \/ /\ request # Idle /\ request.op = "createUser"
        /\ registered' = registered \cup {request.user}
        /\ UNCHANGED profiles
     \/ /\ request # Idle /\ request.op = "setData"
        /\ profiles' = profiles \cup {request.user}
        /\ UNCHANGED registered
  /\ screen' = FirstScreen(currentUser)
  /\ form' = [s \in Forms |-> EmptyForm]
  /\ sheet' = "none" /\ request' = Idle /\ revoked' = FALSE
  /\ UNCHANGED currentUser

-----------------------------------------------------------------------------
(***************************************************************************)
(* The user.                                                               *)
(***************************************************************************)
Edit(email, complete) ==
  /\ screen \in Forms /\ sheet = "none"
  /\ form' = [form EXCEPT ![screen] = [email |-> email, complete |-> complete,
                isEnabled |-> IsEnabled(screen, email, complete)]]
  /\ UNCHANGED <<serverVars, currentUser, screen, sheet, request, revoked>>

(* A tap on the button of form s that sends a request.                     *)
Send(s, op) ==
  /\ screen = s /\ sheet = "none"
  /\ form[s].isEnabled
  /\ sheet' = "activity"
  /\ request' = [op |-> op, user |-> form[s].email]
  /\ UNCHANGED <<serverVars, currentUser, screen, form, revoked>>

SignInButtonTapped        == Send("login", "signIn")
CreateAccountButtonTapped == form["signUp"].complete /\ Send("signUp", "createUser")
ResetPasswordButtonTapped == Send("forgot", "reset")

(* Pushing and popping the sign-up form, presenting and closing the one    *)
(* for a forgotten password, opening and leaving the settings.             *)
Navigate(from, to) ==
  /\ screen = from /\ sheet = "none"
  /\ screen' = to
  /\ form' = [s \in Forms |-> IF s = "login" THEN form[s] ELSE EmptyForm]
  /\ UNCHANGED <<serverVars, currentUser, sheet, request, revoked>>

Paths == {<<"login", "signUp">>, <<"signUp", "login">>, <<"login", "forgot">>,
          <<"forgot", "login">>, <<"home", "settings">>, <<"settings", "home">>}

(* OK on the alert after a reset mail.                                     *)
DismissAlert ==
  /\ sheet \in {"error", "success"}
  /\ sheet' = "none"
  /\ UNCHANGED <<serverVars, currentUser, screen, form, request, revoked>>

(* Definitions named Slip... are variants of the definition that follows,  *)
(* each with one plausible mistake; nothing of the specification uses them *)
(* (PROJECT.json puts them in the place of the definition, as mutants).    *)
SlipSignOut ==
  /\ screen = "settings" /\ sheet = "none"
  /\ ShowLoginScreen
  /\ revoked' = FALSE
  /\ UNCHANGED <<serverVars, currentUser, request>>

(* "Sign Out" in the settings.                                             *)
SignOut ==
  /\ screen = "settings" /\ sheet = "none"
  /\ currentUser' = NoUser
  /\ ShowLoginScreen
  /\ revoked' = FALSE
  /\ UNCHANGED <<serverVars, request>>

(* FirebaseAuth signs the user out by force.  No screen changes.           *)
Revoke ==
  /\ currentUser # NoUser
  /\ currentUser' = NoUser
  /\ revoked' = (screen \in {"home", "settings"})
  /\ UNCHANGED <<serverVars, screen, form, sheet, request>>

-----------------------------------------------------------------------------
(***************************************************************************)
(* Completions.                                                            *)
(***************************************************************************)
Completes(op) == request # Idle /\ request.op = op

SignInSucceeds ==
  /\ Completes("signIn") /\ request.user \in registered
  /\ currentUser' = request.user
  /\ ShowHomeScreen
  /\ request' = Idle /\ revoked' = FALSE
  /\ UNCHANGED serverVars

(* An error dismisses the activity and leaves the form.                    *)
SignInFails ==
  /\ Completes("signIn")
  /\ sheet' = "none" /\ request' = Idle
  /\ UNCHANGED <<serverVars, currentUser, screen, form, revoked>>

(* The first half of signUp: the user exists, is signed in, and gets a     *)
(* profile document.                                                       *)
CreateUserSucceeds ==
  /\ Completes("createUser") /\ request.user \notin registered
  /\ registered' = registered \cup {request.user}
  /\ currentUser' = request.user
  /\ request' = [request EXCEPT !.op = "setData"]
  /\ UNCHANGED <<profiles, screen, form, sheet, revoked>>

(* The first half fails, possibly with the user created and only the       *)
(* answer lost.                                                            *)
CreateUserFails ==
  /\ Completes("createUser")
  /\ registered' \in {registered, registered \cup {request.user}}
  /\ sheet' = "none" /\ request' = Idle
  /\ UNCHANGED <<profiles, currentUser, screen, form, revoked>>

SetDataSucceeds ==
  /\ Completes("setData")
  /\ profiles' = profiles \cup {request.user}
  /\ ShowHomeScreen
  /\ revoked' = (currentUser = NoUser)
  /\ request' = Idle
  /\ UNCHANGED <<registered, currentUser>>

SlipSetDataFails ==
  /\ Completes("setData")
  /\ request' = Idle
  /\ UNCHANGED <<serverVars, currentUser, screen, form, sheet, revoked>>

(* The second half fails: back to the form, signed in.                     *)
SetDataFails ==
  /\ Completes("setData")
  /\ sheet' = "none" /\ request' = Idle
  /\ UNCHANGED <<serverVars, currentUser, screen, form, revoked>>

(* The form is dismissed and its delegate, the login form, says so.        *)
ResetSucceeds ==
  /\ Completes("reset")
  /\ screen' = "login" /\ sheet' = "success" /\ request' = Idle
  /\ form' = [form EXCEPT !["forgot"] = EmptyForm]
  /\ UNCHANGED <<serverVars, currentUser, revoked>>

ResetFails ==
  /\ Completes("reset")
  /\ sheet' = "error" /\ request' = Idle
  /\ UNCHANGED <<serverVars, currentUser, screen, form, revoked>>

Next ==
  \/ Relaunch
  \/ \E email \in Users \cup {NoUser}, complete \in BOOLEAN : Edit(email, complete)
  \/ SignInButtonTapped
  \/ CreateAccountButtonTapped
  \/ ResetPasswordButtonTapped
  \/ \E p \in Paths : Navigate(p[1], p[2])
  \/ DismissAlert
  \/ SignOut
  \/ Revoke
  \/ SignInSucceeds
  \/ SignInFails
  \/ CreateUserSucceeds
  \/ CreateUserFails
  \/ SetDataSucceeds
  \/ SetDataFails
  \/ ResetSucceeds
  \/ ResetFails

Spec == Init /\ [][Next]_vars

-----------------------------------------------------------------------------
(***************************************************************************)
(* Properties.                                                             *)
(***************************************************************************)

(* Every variable has its type.                                            *)
TypeOK ==
  /\ registered \in SUBSET Users
  /\ profiles \in SUBSET Users
  /\ currentUser \in Users \cup {NoUser}
  /\ screen \in Forms \cup {"home", "settings"}
  /\ form \in [Forms -> Form]
  /\ sheet \in {"none", "activity", "error", "success"}
  /\ request \in Request \cup {Idle}
  /\ revoked \in BOOLEAN

(* The form a request was sent from.                                       *)
FormOf(op) ==
  CASE op = "signIn" -> "login"
    [] op \in {"createUser", "setData"} -> "signUp"
    [] op = "reset" -> "forgot"

(* The activity covers the form a request was sent from for as long as the *)
(* request is under way, through both halves of signUp, and not longer: no *)
(* second request is sent meanwhile and no completion finds its form gone. *)
RequestCovered ==
  /\ sheet = "activity" <=> request # Idle
  /\ request # Idle => screen = FormOf(request.op)

(* The screen fits the session: without a user the home screen is in front *)
(* only after the session was revoked under it, and a user who is signed   *)
(* in sees a form only while, or because, the profile is not stored.       *)
ScreenMatchesSession ==
  /\ currentUser = NoUser /\ screen \notin Forms => revoked
  /\ currentUser # NoUser /\ screen \in Forms => currentUser \in registered \ profiles
=============================================================================
