-------------------------------- MODULE Session --------------------------------
(***************************************************************************)
(* Who is signed in, and which authentication screens lie on the home      *)
(* screen: HomeViewController.checkIfValidUser and handleOptions,          *)
(* RegisterViewController, LoginViewController.  A screen asks Firebase    *)
(* Auth and goes on taking taps; the answer finds the app as it is then.   *)
(* Auth changes the current user first and runs the completion handler     *)
(* later, on the main queue.                                               *)
(*                                                                         *)
(* From UIKit: presenting is ignored while the view is in no window or     *)
(* presents something already; dismiss on a screen takes away what it      *)
(* presents, and itself if it presents nothing; a screen that is gone has  *)
(* no window.                                                              *)
(***************************************************************************)
EXTENDS Integers, Sequences

CONSTANTS
    Accounts,     \* accounts, each with an email, a password and a username
    Nobody,       \* no account
    MaxScreens,   \* bound: authentication screens presented
    MaxCalls      \* bound: calls of Firebase Auth

ASSUME NobodyIsNoAccount == Nobody \notin Accounts
ASSUME BoundsAreNaturals == MaxScreens \in Nat /\ MaxCalls \in Nat

VARIABLES
    registered,   \* the accounts that exist
    currentUser,  \* Auth.auth().currentUser
    starting,     \* handleOptions is due, performed after delay 0
    stack,        \* the screens presented over the home screen, topmost last
    screens,      \* screens presented so far: the next one's identity
    calls,        \* calls of Auth not completed
    called,       \* calls so far
    records,      \* accounts with a record Users/<uid>
    displayName,  \* of each account: the account whose username it got
    crashed,      \* a forced unwrap met nil
    excuses,      \* history: what went wrong since the home screen was left
    guest         \* history: the home screen was reached by Login's cancel

authVars   == <<registered, currentUser>>
callVars   == <<calls, called>>
screenVars == <<stack, screens>>
userVars   == <<records, displayName>>
vars == <<authVars, starting, screenVars, callVars, userVars, crashed, excuses,
          guest>>

-----------------------------------------------------------------------------
(* Data *)

\* A screen; Register hides its cancel button if nobody is signed in when it
\* loads.
Screen(kind, id, cancel) == [kind |-> kind, id |-> id, cancel |-> cancel]
Screens == [kind: {"register", "login"}, id: 1..MaxScreens, cancel: BOOLEAN]

Call(kind, account, screen, n) ==
    [kind |-> kind, account |-> account, screen |-> screen, n |-> n,
     done |-> FALSE]
Calls == [kind: {"createUser", "signIn"}, account: Accounts,
          screen: 1..MaxScreens, n: 1..MaxCalls, done: BOOLEAN]

Top(kind) == stack # <<>> /\ stack[Len(stack)].kind = kind

\* Where a screen is in the stack: 0 if it is gone.
Position(id) ==
    IF \E i \in DOMAIN stack : stack[i].id = id
    THEN CHOOSE i \in DOMAIN stack : stack[i].id = id ELSE 0

\* dismiss of the screen at position i: what it presents goes, or itself.
Dismiss(i) ==
    stack' = IF i = 0 THEN stack
             ELSE SubSeq(stack, 1, IF i < Len(stack) THEN i ELSE i - 1)

Present(screen) ==
    /\ stack' = Append(stack, screen)
    /\ screens' = screens + 1

\* Slip: only the screen itself is dismissed.
DismissSelfOnSuccess == Dismiss(Len(stack))

\* dismissViewsOnSuccess: dismiss on the root takes every screen away.
DismissViewsOnSuccess == stack' = <<>>

-----------------------------------------------------------------------------
\* The app is launched: with nobody signed in, checkIfValidUser calls
\* handleOptions twice, at once (the view is in no window yet: nothing is
\* presented) and after a delay of 0.
Init ==
    /\ registered \in SUBSET Accounts
    /\ currentUser \in registered \cup {Nobody}
    /\ starting = (currentUser = Nobody)
    /\ stack = <<>>
    /\ screens = 0
    /\ calls = {}
    /\ called = 0
    /\ records = registered
    /\ displayName = [a \in Accounts |-> IF a \in registered THEN a ELSE Nobody]
    /\ crashed = FALSE
    /\ excuses = {}
    /\ guest = FALSE

-----------------------------------------------------------------------------
(* The home screen *)

\* Slip: Register shows its cancel button to everybody.
HandleOptionsShowsCancel ==
    /\ ~crashed
    /\ stack = <<>>
    /\ screens < MaxScreens
    /\ starting' = FALSE
    /\ currentUser' = Nobody
    /\ Present(Screen("register", screens + 1, TRUE))
    /\ guest' = FALSE
    /\ UNCHANGED <<registered, callVars, userVars, crashed, excuses>>

\* handleOptions, by its button or performed after launch: sign out, present
\* Register, whether signing out has thrown or not.
HandleOptions ==
    /\ ~crashed
    /\ stack = <<>>
    /\ screens < MaxScreens
    /\ starting' = FALSE
    /\ \/ /\ currentUser' = Nobody
          /\ Present(Screen("register", screens + 1, FALSE))
          /\ UNCHANGED excuses
       \/ /\ currentUser # Nobody
          /\ Present(Screen("register", screens + 1, TRUE))
          /\ excuses' = excuses \cup {"signOutFailed"}
          /\ UNCHANGED currentUser
    /\ guest' = FALSE
    /\ UNCHANGED <<registered, callVars, userVars, crashed>>

\* Nothing is tapped or called back before the call due at launch, or after a
\* crash.
Running == ~starting /\ ~crashed

-----------------------------------------------------------------------------
(* The authentication screens *)

RegisterHandleLogin ==
    /\ Running
    /\ Top("register")
    /\ screens < MaxScreens
    /\ Present(Screen("login", screens + 1, TRUE))
    /\ UNCHANGED <<authVars, starting, callVars, userVars, crashed, excuses,
                   guest>>

RegisterHandleCancel ==
    /\ Running
    /\ Top("register")
    /\ stack[Len(stack)].cancel
    /\ Dismiss(Len(stack))
    /\ excuses' = {}
    /\ UNCHANGED <<authVars, starting, screens, callVars, userVars, crashed,
                   guest>>

LoginHandleCancel ==
    /\ Running
    /\ Top("login")
    /\ DismissViewsOnSuccess
    /\ excuses' = {}
    /\ guest' = TRUE
    /\ UNCHANGED <<authVars, starting, screens, callVars, userVars, crashed>>

\* handleRegistration and handleLogin up to the call: the button stays enabled.
CallAuth(kind, account) ==
    /\ Running
    /\ called < MaxCalls
    /\ called' = called + 1
    /\ calls' = calls \cup {Call(kind, account, stack[Len(stack)].id, called + 1)}
    /\ UNCHANGED <<authVars, starting, screenVars, userVars, crashed, excuses,
                   guest>>

HandleRegistration(account) == Top("register") /\ CallAuth("createUser", account)

HandleLogin(account) == Top("login") /\ CallAuth("signIn", account)

-----------------------------------------------------------------------------
(* Firebase Auth and the completion handlers *)

\* The call fails; its handler only prints the error.
CallFails(call) ==
    /\ Running
    /\ ~call.done
    /\ calls' = calls \ {call}
    /\ UNCHANGED <<authVars, starting, screenVars, called, userVars, crashed,
                   excuses, guest>>

\* The call succeeds: Auth signs the account in and queues the handler.
CallSucceeds(call) ==
    /\ Running
    /\ ~call.done
    /\ call.account \in registered <=> call.kind = "signIn"
    /\ registered' = registered \cup {call.account}
    /\ currentUser' = call.account
    /\ calls' = (calls \ {call}) \cup {[call EXCEPT !.done = TRUE]}
    /\ UNCHANGED <<starting, screenVars, called, userVars, crashed, excuses,
                   guest>>

\* Slip: the screen takes itself out from under the one it presents.
OnCreateUserRemovesSelf(call) ==
    /\ Running /\ call.done /\ call.kind = "createUser"
    /\ calls' = calls \ {call}
    /\ records' = records \cup {call.account}
    /\ stack' = SelectSeq(stack, LAMBDA s : s.id # call.screen)
    /\ UNCHANGED <<authVars, starting, screens, called, displayName, crashed,
                   excuses, guest>>

\* The handler of createUser: the username goes to whoever is signed in now,
\* the record to the new account, and the screen is dismissed; if Login lies
\* on it, that goes instead.
OnCreateUser(call) ==
    LET i == Position(call.screen)
    IN  /\ Running /\ call.done /\ call.kind = "createUser"
        /\ calls' = calls \ {call}
        /\ displayName' = IF currentUser = Nobody THEN displayName
                          ELSE [displayName EXCEPT ![currentUser] = call.account]
        /\ records' = records \cup {call.account}
        /\ Dismiss(i)
        /\ excuses' = IF i = 0 \/ i < Len(stack)
                      THEN excuses \cup {"lateRegistration"} ELSE {}
        /\ UNCHANGED <<authVars, starting, screens, called, crashed, guest>>

\* The handler of signIn: dismissViewsOnSuccess unwraps the window of its own
\* screen by force.
OnSignIn(call) ==
    /\ Running /\ call.done /\ call.kind = "signIn"
    /\ calls' = calls \ {call}
    /\ \/ /\ Position(call.screen) # 0
          /\ DismissViewsOnSuccess
          /\ excuses' = {}
          /\ UNCHANGED crashed
       \/ /\ Position(call.screen) = 0
          /\ crashed' = TRUE
          /\ UNCHANGED <<stack, excuses>>
    /\ UNCHANGED <<authVars, starting, screens, called, userVars, guest>>

-----------------------------------------------------------------------------
Tap ==
    \/ HandleOptions
    \/ RegisterHandleLogin
    \/ RegisterHandleCancel
    \/ LoginHandleCancel
    \/ \E a \in Accounts : HandleRegistration(a) \/ HandleLogin(a)

Complete(call) ==
    CallFails(call) \/ CallSucceeds(call) \/ OnCreateUser(call) \/ OnSignIn(call)

Next == Tap \/ \E call \in calls : Complete(call)

Spec == Init /\ [][Next]_vars

-----------------------------------------------------------------------------
(* Properties *)

\* Login only ever lies on a Register screen, and nothing lies on it.
Shape ==
    /\ Len(stack) <= 2
    /\ \A i \in DOMAIN stack :
          stack[i].kind = IF i = 1 THEN "register" ELSE "login"

TypeOK ==
    /\ registered \subseteq Accounts
    /\ currentUser \in registered \cup {Nobody}
    /\ starting \in BOOLEAN
    /\ stack \in Seq(Screens) /\ Shape
    /\ screens \in 0..MaxScreens
    /\ calls \subseteq Calls
    /\ called \in 0..MaxCalls
    /\ records \subseteq registered
    /\ displayName \in [Accounts -> Accounts \cup {Nobody}]
    /\ crashed \in BOOLEAN
    /\ excuses \subseteq {"signOutFailed", "lateRegistration"}
    /\ guest \in BOOLEAN

\* With no call under way, a signed-in user faces an authentication screen only
\* because signing out failed, or because a registration was answered when its
\* screen was covered or gone.  (Register offers no way back then: it hid its
\* cancel button when it loaded.)
SignedInIsLetIn ==
    (currentUser # Nobody /\ stack # <<>> /\ calls = {} /\ ~crashed)
    => excuses # {}

\* Nobody gets to the home screen signed out, except by cancelling Login.
GuestsHaveCancelled ==
    (currentUser = Nobody /\ stack = <<>> /\ ~starting /\ ~crashed) => guest

\* What dismissViewsOnSuccess asserts with "self.view.window!": a login screen
\* is in a window when its sign-in completes.
LoginHasWindow ==
    \A call \in calls : call.done /\ call.kind = "signIn"
                        => Position(call.screen) # 0
===============================================================================
