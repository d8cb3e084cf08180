----------------------------- MODULE SessionProofs ----------------------------
(***************************************************************************)
(* Theorems about Session, for any accounts and any number of screens and  *)
(* calls.  The inductive invariant ties the calls of Auth to the screens   *)
(* that made them: ids are not reused, a call belongs to a screen of its   *)
(* kind, and a finished call finds its screen only while somebody is       *)
(* signed in.                                                              *)
(***************************************************************************)
EXTENDS Session, SequenceTheorems, TLAPS

\* The screens: ids are fresh and distinct, and Register shows its cancel button
\* only over a signed-in user.
ScreensInv ==
    /\ \A i \in DOMAIN stack : stack[i].id <= screens
    /\ \A i, j \in DOMAIN stack : stack[i].id = stack[j].id => i = j
    /\ \A i \in DOMAIN stack :
          stack[i].kind = "register" /\ stack[i].cancel => currentUser # Nobody

KindOf(call) == IF call.kind = "createUser" THEN "register" ELSE "login"

\* The calls: of screens presented before, and of their kind; the account of a
\* finished one exists, and nobody signs out under the screen that waits for it.
CallsInv ==
    \A call \in calls :
        /\ call.screen <= screens
        /\ call.done => call.account \in registered
        /\ \A i \in DOMAIN stack : stack[i].id = call.screen =>
              /\ stack[i].kind = KindOf(call)
              /\ call.done => currentUser # Nobody

\* A signed-in user before an authentication screen waits for a handler, or has
\* an excuse.
LetIn ==
    (currentUser # Nobody /\ stack # <<>> /\ ~crashed)
    => \/ excuses # {}
       \/ \E call \in calls : call.done

IInv == TypeOK /\ ScreensInv /\ CallsInv /\ LetIn /\ GuestsHaveCancelled

-----------------------------------------------------------------------------
(* The stack *)

\* What is left of the stack when its top screens are dismissed.
LEMMA CutStack ==
  ASSUME TypeOK, NEW k \in 0..Len(stack)
  PROVE  /\ SubSeq(stack, 1, k) \in Seq(Screens)
         /\ Len(SubSeq(stack, 1, k)) = k
         /\ DOMAIN SubSeq(stack, 1, k) = 1..k
         /\ 1..k \subseteq DOMAIN stack
         /\ \A i \in 1..k : SubSeq(stack, 1, k)[i] = stack[i]
<1>1. stack \in Seq(Screens) /\ Len(stack) \in Nat /\ DOMAIN stack = 1..Len(stack)
  BY DEF TypeOK
<1>2. k \in Int /\ 1 \in Int /\ k >= 0 /\ k <= Len(stack)
  BY <1>1
<1>3. \A i \in 1..k : i \in DOMAIN stack /\ stack[i] \in Screens
  BY <1>1, <1>2, ElementOfSeq
<1>4. /\ SubSeq(stack, 1, k) \in Seq(Screens)
      /\ Len(SubSeq(stack, 1, k)) = IF 1 <= k THEN k - 1 + 1 ELSE 0
      /\ \A i \in 1..(k - 1 + 1) : SubSeq(stack, 1, k)[i] = stack[1 + i - 1]
  BY <1>2, <1>3, SubSeqProperties
<1>5. Len(SubSeq(stack, 1, k)) = k
  BY <1>2, <1>4
<1>6. \A i \in 1..k : SubSeq(stack, 1, k)[i] = stack[i]
  BY <1>2, <1>4
<1>7. DOMAIN SubSeq(stack, 1, k) = 1..k
  BY <1>4, <1>5, LenProperties
<1>8. QED
  BY <1>3, <1>4, <1>5, <1>6, <1>7

\* Dismissing screens breaks nothing that is said of the others.
LEMMA CutGood ==
  ASSUME TypeOK, ScreensInv, CallsInv, NEW k \in 0..Len(stack),
         stack' = SubSeq(stack, 1, k), UNCHANGED <<screens, authVars>>,
         calls' \subseteq calls
  PROVE  /\ stack' \in Seq(Screens) /\ Shape'
         /\ ScreensInv' /\ CallsInv'
<1>1. /\ stack' \in Seq(Screens) /\ Len(stack') = k
      /\ DOMAIN stack' = 1..k /\ 1..k \subseteq DOMAIN stack
      /\ \A i \in 1..k : stack'[i] = stack[i]
  BY CutStack
<1>2. Shape'
  BY <1>1 DEF Shape, TypeOK
<1>3. ScreensInv'
  BY <1>1 DEF ScreensInv, authVars
<1>4. CallsInv'
  BY <1>1 DEF CallsInv, KindOf, authVars
<1>5. QED
  BY <1>1, <1>2, <1>3, <1>4

LEMMA EmptyCut ==
  ASSUME TypeOK
  PROVE  /\ 0 \in 0..Len(stack) /\ SubSeq(stack, 1, 0) = <<>>
         /\ Len(stack) \in Nat
<1>1. Len(stack) \in Nat
  BY LenProperties DEF TypeOK
<1>2. SubSeq(stack, 1, 0) = <<>>
  BY SubSeqEmpty
<1>3. QED
  BY <1>1, <1>2

\* A new screen on top.
LEMMA PresentGood ==
  ASSUME TypeOK, ScreensInv, CallsInv, screens < MaxScreens,
         NEW kind \in {"register", "login"}, NEW cancel \in BOOLEAN,
         Present(Screen(kind, screens + 1, cancel)),
         IF kind = "register" THEN stack = <<>>
                              ELSE Len(stack) = 1,
         kind = "register" /\ cancel => currentUser' # Nobody,
         stack # <<>> => UNCHANGED currentUser,
         UNCHANGED <<registered, calls>>
  PROVE  /\ stack' \in Seq(Screens) /\ Shape' /\ stack' # <<>>
         /\ screens' \in 0..MaxScreens
         /\ ScreensInv' /\ CallsInv'
<1> DEFINE new == Screen(kind, screens + 1, cancel)
<1>1. screens \in Nat /\ MaxScreens \in Nat /\ screens' = screens + 1
  BY BoundsAreNaturals DEF TypeOK, Present
<1>2. new \in Screens /\ new.kind = kind /\ new.id = screens + 1
      /\ new.cancel = cancel
  BY <1>1 DEF Screen, Screens
<1>3. stack \in Seq(Screens) /\ stack' = Append(stack, new)
  BY DEF Present, TypeOK
<1> HIDE DEF new
<1> DEFINE n == Len(stack)
<1>4. /\ stack' \in Seq(Screens) /\ Len(stack') = n + 1 /\ n \in Nat
      /\ \A i \in 1..n : stack'[i] = stack[i]
      /\ stack'[n + 1] = new
  BY <1>2, <1>3, AppendProperties, LenProperties
<1>5. DOMAIN stack' = 1..(n + 1) /\ DOMAIN stack = 1..n
  BY <1>3, <1>4, LenProperties
<1>6. n = IF kind = "register" THEN 0 ELSE 1
  BY <1>3
<1> HIDE DEF n
<1>7. stack' # <<>>
  BY <1>4
<1>8. Shape'
  <2>1. Len(stack') <= 2
    BY <1>4, <1>6
  <2>2. \A i \in DOMAIN stack' :
            stack'[i].kind = IF i = 1 THEN "register" ELSE "login"
    BY <1>2, <1>4, <1>5, <1>6 DEF TypeOK, Shape
  <2>3. QED
    BY <2>1, <2>2 DEF Shape
<1>9. \A i \in DOMAIN stack' : \/ i \in DOMAIN stack /\ stack'[i] = stack[i]
                               \/ i = n + 1 /\ stack'[i] = new
  BY <1>4, <1>5
<1>10. \A i \in DOMAIN stack : stack # <<>> /\ stack[i].id < screens + 1
                               /\ stack[i].id \in Nat
  <2>1. \A i \in DOMAIN stack : stack[i] \in Screens
    BY <1>3, <1>5, ElementOfSeq DEF n
  <2>2. QED
    BY <2>1, <1>1, <1>5, EmptySeq DEF ScreensInv, Screens, n
<1>11. ScreensInv'
  <2>1. \A i \in DOMAIN stack' : stack'[i].id <= screens'
    BY <1>1, <1>2, <1>9, <1>10
  <2>2. \A i, j \in DOMAIN stack' : stack'[i].id = stack'[j].id => i = j
    BY <1>1, <1>2, <1>9, <1>10 DEF ScreensInv
  <2>3. \A i \in DOMAIN stack' :
            stack'[i].kind = "register" /\ stack'[i].cancel => currentUser' # Nobody
    BY <1>2, <1>9, <1>10 DEF ScreensInv
  <2>4. QED
    BY <2>1, <2>2, <2>3 DEF ScreensInv
<1>12. CallsInv'
  <2> SUFFICES ASSUME NEW call \in calls
               PROVE  /\ call.screen <= screens'
                      /\ call.done => call.account \in registered
                      /\ \A i \in DOMAIN stack' : stack'[i].id = call.screen =>
                            /\ stack'[i].kind = KindOf(call)
                            /\ call.done => currentUser' # Nobody
    BY DEF CallsInv, KindOf
  <2>1. call.screen <= screens /\ call.screen \in Nat
    BY DEF CallsInv, TypeOK, Calls
  <2>2. QED
    BY <2>1, <1>1, <1>2, <1>9, <1>10 DEF CallsInv
<1>13. QED
  BY <1>1, <1>4, <1>7, <1>8, <1>11, <1>12
LEMMA NonEmptyStack ==
  ASSUME TypeOK, stack # <<>>
  PROVE  Len(stack) \in {1, 2} /\ Len(stack) \in DOMAIN stack
<1>1. /\ DOMAIN stack = 1..Len(stack) /\ Len(stack) \in Nat
      /\ Len(stack) # 0 /\ Len(stack) <= 2
  <2>1. stack \in Seq(Screens) /\ Len(stack) <= 2
    BY DEF TypeOK, Shape
  <2>2. QED
    BY <2>1, LenProperties, EmptySeq
<1>2. QED
  BY <1>1

\* Register is alone on the stack when it can be tapped.
LEMMA TopRegister ==
  ASSUME TypeOK, Top("register")
  PROVE  Len(stack) = 1 /\ 1 \in DOMAIN stack /\ stack[1].kind = "register"
<1>1. stack # <<>> /\ stack[Len(stack)].kind = "register"
  BY DEF Top
<1>2. Len(stack) \in {1, 2} /\ Len(stack) \in DOMAIN stack
  BY <1>1, NonEmptyStack
<1>3. stack[Len(stack)].kind = IF Len(stack) = 1 THEN "register" ELSE "login"
  BY <1>2 DEF TypeOK, Shape
<1>4. QED
  BY <1>1, <1>2, <1>3

-----------------------------------------------------------------------------
(* The actions *)

LEMMA InitGood ==
  ASSUME Init
  PROVE  IInv
<1>1. stack = <<>> /\ DOMAIN stack = {} /\ stack \in Seq(Screens) /\ Len(stack) = 0
  BY EmptySeq DEF Init
<1>2. starting \in BOOLEAN
  BY DEF Init
<1>3. displayName \in [Accounts -> Accounts \cup {Nobody}]
  BY DEF Init
<1>4. TypeOK
  <2>1. /\ registered \subseteq Accounts /\ currentUser \in registered \cup {Nobody}
        /\ screens = 0 /\ calls = {} /\ called = 0 /\ records = registered
        /\ crashed = FALSE /\ excuses = {} /\ guest = FALSE
    BY DEF Init
  <2>2. 0 \in 0..MaxScreens /\ 0 \in 0..MaxCalls
    BY BoundsAreNaturals
  <2>3. Shape
    BY <1>1 DEF Shape
  <2>4. /\ screens \in 0..MaxScreens /\ called \in 0..MaxCalls
        /\ calls \subseteq Calls /\ records \subseteq registered
        /\ crashed \in BOOLEAN /\ guest \in BOOLEAN
        /\ excuses \subseteq {"signOutFailed", "lateRegistration"}
    BY <2>1, <2>2
  <2>5. QED
    BY <1>1, <1>2, <1>3, <2>1, <2>3, <2>4 DEF TypeOK
<1>5. QED
  BY <1>1, <1>4
     DEF Init, IInv, ScreensInv, CallsInv, LetIn, GuestsHaveCancelled

LEMMA HandleOptionsGood ==
  ASSUME IInv, HandleOptions
  PROVE  IInv'
<1> USE DEF callVars, userVars
<1>1. PICK cancel \in BOOLEAN :
          /\ Present(Screen("register", screens + 1, cancel))
          /\ cancel => currentUser' # Nobody
          /\ currentUser' \in {currentUser, Nobody}
          /\ \/ currentUser' = Nobody /\ excuses' = excuses
             \/ excuses' = excuses \cup {"signOutFailed"}
  BY DEF HandleOptions
<1>2. /\ stack' \in Seq(Screens) /\ Shape' /\ stack' # <<>>
      /\ screens' \in 0..MaxScreens
      /\ ScreensInv' /\ CallsInv'
  BY <1>1, PresentGood DEF IInv, HandleOptions
<1>3. TypeOK'
  BY <1>1, <1>2 DEF IInv, TypeOK, HandleOptions
<1>4. LetIn'
  BY <1>1 DEF LetIn
<1>5. GuestsHaveCancelled'
  BY <1>2 DEF GuestsHaveCancelled
<1>6. QED
  BY <1>2, <1>3, <1>4, <1>5 DEF IInv

LEMMA RegisterHandleLoginGood ==
  ASSUME IInv, RegisterHandleLogin
  PROVE  IInv'
<1> USE DEF callVars, userVars, authVars
<1>1. Present(Screen("login", screens + 1, TRUE)) /\ Len(stack) = 1 /\ stack # <<>>
  BY TopRegister DEF RegisterHandleLogin, IInv, Top
<1>2. /\ stack' \in Seq(Screens) /\ Shape' /\ stack' # <<>>
      /\ screens' \in 0..MaxScreens
      /\ ScreensInv' /\ CallsInv'
  BY <1>1, PresentGood DEF IInv, RegisterHandleLogin
<1>3. TypeOK'
  BY <1>2 DEF IInv, TypeOK, RegisterHandleLogin
<1>4. LetIn'
  BY <1>1 DEF LetIn, IInv, RegisterHandleLogin
<1>5. GuestsHaveCancelled'
  BY <1>2 DEF GuestsHaveCancelled
<1>6. QED
  BY <1>2, <1>3, <1>4, <1>5 DEF IInv

\* Every way back to the home screen empties the stack.
LEMMA EmptiedGood ==
  ASSUME IInv, stack' = <<>>, UNCHANGED <<authVars, starting, screens>>,
         calls' \subseteq calls, UNCHANGED called,
         records' \subseteq registered, crashed' \in BOOLEAN, guest' \in BOOLEAN,
         excuses' \subseteq {"signOutFailed", "lateRegistration"},
         displayName' \in [Accounts -> Accounts \cup {Nobody}],
         currentUser = Nobody => guest' \/ starting
  PROVE  IInv'
<1>1. stack' \in Seq(Screens) /\ Shape' /\ ScreensInv' /\ CallsInv'
  BY EmptyCut, CutGood DEF IInv
<1>2. TypeOK'
  BY <1>1 DEF IInv, TypeOK, authVars
<1>3. LetIn' /\ GuestsHaveCancelled'
  BY DEF LetIn, GuestsHaveCancelled, authVars
<1>4. QED
  BY <1>1, <1>2, <1>3 DEF IInv

LEMMA CancelsGood ==
  ASSUME IInv, RegisterHandleCancel \/ LoginHandleCancel
  PROVE  IInv'
<1> USE DEF callVars, userVars
<1>1. CASE RegisterHandleCancel
  <2>1. Len(stack) = 1 /\ 1 \in DOMAIN stack /\ stack[1].kind = "register"
    BY <1>1, TopRegister DEF IInv, RegisterHandleCancel
  <2>2. currentUser # Nobody
    BY <1>1, <2>1 DEF IInv, ScreensInv, RegisterHandleCancel
  <2>3. stack' = <<>>
    BY <1>1, <2>1, EmptyCut DEF IInv, RegisterHandleCancel, Dismiss
  <2>4. QED
    BY <1>1, <2>2, <2>3, EmptiedGood DEF RegisterHandleCancel, IInv, TypeOK
<1>2. CASE LoginHandleCancel
  BY <1>2, EmptiedGood
     DEF LoginHandleCancel, DismissViewsOnSuccess, IInv, TypeOK
<1>3. QED
  BY <1>1, <1>2

LEMMA CallAuthGood ==
  ASSUME IInv, NEW account \in Accounts,
         HandleRegistration(account) \/ HandleLogin(account)
  PROVE  IInv'
<1> USE DEF authVars, screenVars, userVars
<1>1. PICK kind \in {"createUser", "signIn"} :
          /\ CallAuth(kind, account)
          /\ Top(IF kind = "createUser" THEN "register" ELSE "login")
  BY DEF HandleRegistration, HandleLogin
<1> DEFINE n == Len(stack)
           call == Call(kind, account, stack[n].id, called + 1)
<1>2. n \in DOMAIN stack /\ stack[n] \in Screens /\ stack # <<>>
  <2>1. stack # <<>> /\ stack \in Seq(Screens)
    BY <1>1 DEF Top, IInv, TypeOK
  <2>2. n \in DOMAIN stack /\ DOMAIN stack = 1..n
    BY <2>1, NonEmptyStack, LenProperties DEF IInv
  <2>3. QED
    BY <2>1, <2>2, ElementOfSeq
<1>3. /\ call \in Calls /\ call.screen = stack[n].id /\ call.kind = kind
      /\ ~call.done
  <2>1. called + 1 \in 1..MaxCalls
    BY <1>1, BoundsAreNaturals DEF CallAuth, IInv, TypeOK
  <2>2. stack[n].id \in 1..MaxScreens
    BY <1>2 DEF Screens
  <2>3. QED
    BY <2>1, <2>2 DEF Call, Calls
<1>4. calls' = calls \cup {call} /\ called' = called + 1 /\ called < MaxCalls
  BY <1>1 DEF CallAuth
<1>5. stack[n].kind = KindOf(call)
  BY <1>1, <1>3 DEF Top, KindOf
<1> HIDE DEF call
<1>6. UNCHANGED <<registered, currentUser, starting, stack, screens, records,
                  displayName, crashed, excuses, guest>>
  BY <1>1 DEF CallAuth
<1>7. TypeOK'
  <2>1. calls' \subseteq Calls /\ called' \in 0..MaxCalls
    BY <1>3, <1>4, BoundsAreNaturals DEF IInv, TypeOK
  <2>2. QED
    BY <1>6, <2>1 DEF IInv, TypeOK, Shape
<1>8. CallsInv'
  BY <1>2, <1>3, <1>4, <1>5, <1>6 DEF IInv, CallsInv, ScreensInv, KindOf
<1>9. ScreensInv' /\ LetIn' /\ GuestsHaveCancelled'
  BY <1>4, <1>6 DEF IInv, ScreensInv, LetIn, GuestsHaveCancelled
<1>10. QED
  BY <1>7, <1>8, <1>9 DEF IInv

LEMMA CallFailsGood ==
  ASSUME IInv, NEW call \in calls, CallFails(call)
  PROVE  IInv'
<1> USE DEF authVars, screenVars, userVars
<1>1. TypeOK'
  BY DEF IInv, TypeOK, Shape, CallFails
<1>2. ScreensInv' /\ CallsInv' /\ GuestsHaveCancelled'
  BY DEF IInv, ScreensInv, CallsInv, KindOf, GuestsHaveCancelled, CallFails
<1>3. LetIn'
  BY DEF IInv, LetIn, CallFails
<1>4. QED
  BY <1>1, <1>2, <1>3 DEF IInv

LEMMA CallSucceedsGood ==
  ASSUME IInv, NEW call \in calls, CallSucceeds(call)
  PROVE  IInv'
<1> USE DEF screenVars, userVars
<1> DEFINE done == [call EXCEPT !.done = TRUE]
<1>1. call \in Calls /\ call.account \in Accounts /\ call.account # Nobody
  BY NobodyIsNoAccount DEF IInv, TypeOK, Calls
<1>2. /\ done \in Calls /\ done.done /\ done.screen = call.screen
      /\ done.kind = call.kind /\ done.account = call.account
  BY <1>1 DEF Calls
<1>3. /\ calls' = (calls \ {call}) \cup {done}
      /\ registered' = registered \cup {call.account}
      /\ currentUser' = call.account
  BY DEF CallSucceeds
<1> HIDE DEF done
<1>4. UNCHANGED <<starting, stack, screens, called, records, displayName, crashed,
                  excuses, guest>>
  BY DEF CallSucceeds
<1>5. TypeOK'
  BY <1>1, <1>2, <1>3, <1>4 DEF IInv, TypeOK, Shape
<1>6. ScreensInv'
  BY <1>1, <1>3, <1>4 DEF IInv, ScreensInv
<1>7. CallsInv'
  BY <1>1, <1>2, <1>3, <1>4 DEF IInv, CallsInv, KindOf
<1>8. LetIn' /\ GuestsHaveCancelled'
  BY <1>1, <1>2, <1>3 DEF LetIn, GuestsHaveCancelled
<1>9. QED
  BY <1>5, <1>6, <1>7, <1>8 DEF IInv

\* Where a screen is, if it is anywhere.
LEMMA PositionGood ==
  ASSUME TypeOK, NEW id
  PROVE  \/ /\ Position(id) = 0
            /\ \A i \in DOMAIN stack : stack[i].id # id
         \/ /\ Position(id) \in DOMAIN stack
            /\ stack[Position(id)].id = id
            /\ Position(id) \in 1..Len(stack)
<1>1. DOMAIN stack = 1..Len(stack) /\ Len(stack) \in Nat
  BY LenProperties DEF TypeOK
<1>2. CASE \E i \in DOMAIN stack : stack[i].id = id
  BY <1>1, <1>2 DEF Position
<1>3. CASE ~\E i \in DOMAIN stack : stack[i].id = id
  BY <1>3 DEF Position
<1>4. QED
  BY <1>2, <1>3

LEMMA OnCreateUserGood ==
  ASSUME IInv, NEW call \in calls, OnCreateUser(call)
  PROVE  IInv'
<1> USE DEF userVars
<1> DEFINE i == Position(call.screen)
           n == Len(stack)
<1>1. /\ call \in Calls /\ call.account \in Accounts /\ call.account \in registered
      /\ call.done /\ call.kind = "createUser"
  BY DEF IInv, TypeOK, Calls, CallsInv, OnCreateUser
<1>2. /\ records' \subseteq registered
      /\ displayName' \in [Accounts -> Accounts \cup {Nobody}]
      /\ excuses' \subseteq {"signOutFailed", "lateRegistration"}
      /\ calls' \subseteq calls
      /\ UNCHANGED <<authVars, starting, screens, called, crashed, guest>>
  BY <1>1 DEF OnCreateUser, IInv, TypeOK
<1>3. n \in Nat /\ DOMAIN stack = 1..n /\ n <= 2
  BY LenProperties DEF IInv, TypeOK, Shape
<1>4. \/ i = 0
      \/ i = 1 /\ 1 \in DOMAIN stack /\ stack[1].id = call.screen /\ n \in {1, 2}
  <2>1. \/ i = 0
        \/ i \in DOMAIN stack /\ stack[i].id = call.screen /\ i \in 1..n
    BY PositionGood DEF IInv
  <2> HIDE DEF i, n
  <2>2. ASSUME i \in DOMAIN stack, stack[i].id = call.screen
        PROVE  i = 1
    <3>1. stack[i].kind = "register"
      BY <1>1, <2>2 DEF IInv, CallsInv, KindOf
    <3>2. QED
      BY <2>2, <3>1 DEF IInv, TypeOK, Shape
  <2>3. QED
    BY <2>1, <2>2, <1>3
<1>5. CASE i = 1 /\ n = 1
  <2>1. stack' = <<>>
    BY <1>5, EmptyCut DEF OnCreateUser, Dismiss, IInv
  <2>2. currentUser # Nobody
    BY <1>1, <1>4, <1>5 DEF IInv, CallsInv
  <2>3. QED
    BY <1>2, <2>1, <2>2, EmptiedGood DEF IInv, TypeOK
<1>6. CASE i = 0 \/ (i = 1 /\ n = 2)
  <2>1. excuses' = excuses \cup {"lateRegistration"}
    BY <1>6 DEF OnCreateUser
  <2> DEFINE k == IF i = 0 THEN n ELSE 1
  <2>2. /\ k \in 0..n /\ stack' = SubSeq(stack, 1, k)
        /\ stack' = <<>> => stack = <<>>
    <3>1. CASE i = 0
      <4>1. SubSeq(stack, 1, n) = stack
        BY SubSeqFull DEF IInv, TypeOK
      <4>2. stack' = stack
        BY <3>1 DEF OnCreateUser, Dismiss
      <4> HIDE DEF i, n
      <4>3. QED
        BY <1>3, <3>1, <4>1, <4>2
    <3>2. CASE i = 1 /\ n = 2
      <4>1. stack' = SubSeq(stack, 1, 1) /\ 1 \in 0..n
        BY <3>2 DEF OnCreateUser, Dismiss
      <4>2. Len(SubSeq(stack, 1, 1)) = 1
        BY <4>1, CutStack DEF IInv
      <4> HIDE DEF i, n
      <4>3. QED
        BY <3>2, <4>1, <4>2
    <3>3. QED
      BY <1>6, <3>1, <3>2
  <2> HIDE DEF i, n, k
  <2>3. stack' \in Seq(Screens) /\ Shape' /\ ScreensInv' /\ CallsInv'
    BY <1>2, <2>2, CutGood DEF IInv, n
  <2>4. TypeOK'
    BY <1>2, <2>3 DEF IInv, TypeOK, authVars
  <2>5. LetIn'
    BY <2>1 DEF LetIn
  <2>6. GuestsHaveCancelled'
    BY <1>2, <2>2 DEF GuestsHaveCancelled, IInv, authVars
  <2>7. QED
    BY <2>3, <2>4, <2>5, <2>6 DEF IInv
<1> HIDE DEF i, n
<1>7. QED
  BY <1>4, <1>5, <1>6

LEMMA OnSignInGood ==
  ASSUME IInv, NEW call \in calls, OnSignIn(call)
  PROVE  IInv'
<1> USE DEF userVars
<1>1. call.done
  BY DEF OnSignIn
<1>2. CASE Position(call.screen) # 0 /\ DismissViewsOnSuccess /\ excuses' = {}
           /\ UNCHANGED crashed
  <2>1. currentUser # Nobody
    BY <1>1, <1>2, PositionGood DEF IInv, CallsInv
  <2>2. QED
    BY <1>2, <2>1, EmptiedGood DEF OnSignIn, DismissViewsOnSuccess, IInv, TypeOK
<1>3. CASE crashed' = TRUE /\ UNCHANGED <<stack, excuses>>
  <2>1. calls' \subseteq calls
        /\ UNCHANGED <<registered, currentUser, starting, stack, screens, called,
                       records, displayName, excuses, guest>>
    BY <1>3 DEF OnSignIn, authVars
  <2>2. TypeOK'
    BY <1>3, <2>1 DEF IInv, TypeOK, Shape
  <2>3. ScreensInv' /\ CallsInv'
    BY <2>1 DEF IInv, ScreensInv, CallsInv, KindOf
  <2>4. LetIn' /\ GuestsHaveCancelled'
    BY <1>3 DEF LetIn, GuestsHaveCancelled
  <2>5. QED
    BY <2>2, <2>3, <2>4 DEF IInv
<1>4. QED
  BY <1>2, <1>3 DEF OnSignIn

LEMMA NextGood ==
  ASSUME IInv, [Next]_vars
  PROVE  IInv'
<1>1. CASE Tap
  BY <1>1, HandleOptionsGood, RegisterHandleLoginGood, CancelsGood, CallAuthGood
     DEF Tap
<1>2. ASSUME NEW call \in calls, Complete(call)
      PROVE  IInv'
  BY <1>2, CallFailsGood, CallSucceedsGood, OnCreateUserGood, OnSignInGood
     DEF Complete
<1>3. CASE UNCHANGED vars
  <2> USE DEF vars, authVars, screenVars, callVars, userVars
  <2>1. TypeOK'
    BY <1>3 DEF IInv, TypeOK, Shape
  <2>2. ScreensInv' /\ CallsInv' /\ LetIn' /\ GuestsHaveCancelled'
    BY <1>3 DEF IInv, ScreensInv, CallsInv, KindOf, LetIn, GuestsHaveCancelled
  <2>3. QED
    BY <2>1, <2>2 DEF IInv
<1>4. QED
  BY <1>1, <1>2, <1>3 DEF Next

-----------------------------------------------------------------------------
(* The theorems *)

LEMMA Invariance == Spec => []IInv
<1>1. Init => IInv
  BY InitGood
<1>2. IInv /\ [Next]_vars => IInv'
  BY NextGood
<1>3. QED
  BY <1>1, <1>2, PTL DEF Spec

\* The variables keep their types, and Login only ever lies on Register.
THEOREM TypeCorrect == Spec => []TypeOK
<1>1. IInv => TypeOK
  BY DEF IInv
<1>2. QED
  BY <1>1, Invariance, PTL

\* A signed-in user is let in once the calls of Auth are through
\* (dismissViewsOnSuccess, and the dismiss of handleRegistration), unless signing
\* out failed or a registration was answered too late.
THEOREM SignedInCorrect == Spec => []SignedInIsLetIn
<1>1. IInv => SignedInIsLetIn
  BY DEF IInv, LetIn, SignedInIsLetIn
<1>2. QED
  BY <1>1, Invariance, PTL

\* The only way onto the home screen without an account is Login's cancel.
THEOREM GuestsCorrect == Spec => []GuestsHaveCancelled
<1>1. IInv => GuestsHaveCancelled
  BY DEF IInv
<1>2. QED
  BY <1>1, Invariance, PTL
===============================================================================
