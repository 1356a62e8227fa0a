---------------------------- MODULE Access_proofs -----------------------------
(***************************************************************************)
(* What holds of the sessions for any set of add-ons, any limit and any    *)
(* number of registrations, ticks and restarts: no more sessions than the  *)
(* limit, no token accepted beyond what its add-on was promised, no token  *)
(* of an issued challenge given twice, and the promise of AddonTokens,     *)
(* which lets the token of the empty challenge come again and again.       *)
(*                                                                         *)
(* A token is accepted through two look-ups, so the strengthening says     *)
(* what each of them can lead to: a token in the index was given to the    *)
(* add-on it leads to (IndexedWasGiven), and a session has the last word   *)
(* its add-on was told, and the challenge it waits on was not used         *)
(* (SessionsAsTold).                                                       *)
(*                                                                         *)
(* The second part is about the termination lock, the consent notifier and *)
(* the control bridge, for any addresses, dashboards, calls, services,     *)
(* limits and periods, whatever the others do with the clock. Limits count *)
(* marks in a window that moves: the lists that are kept and pruned agree  *)
(* with all that happened, as far as the window goes (Keeps). The copies   *)
(* of the password agree where the user was told one (Copies), what a      *)
(* dashboard does not know is on its way to it (OnItsWay), and a call was  *)
(* logged before the host could see it (LineBefore).                       *)
(***************************************************************************)
EXTENDS AddonSessions, Doors, Sequences, FiniteSetTheorems, WellFoundedInduction, TLAPS

Types ==
    /\ sessions \in [Addons -> Session \cup {NoSession}]
    /\ index \in [Tokens -> Addons \cup {NoAddon}]
    /\ now \in 0..MaxTime /\ last \in 0..MaxChallenges
    /\ asked \in [Serials -> Addons \cup {NoAddon}]
    /\ given \subseteq Tokens
    /\ until \in [Addons -> Nat]
    /\ restarts \in 0..MaxRestarts

WithinLimit == IsFiniteSet(Active) /\ Cardinality(Active) <= MaxSessions

IndexedWasGiven == \A t \in Tokens : index[t] # NoAddon => index[t] = TokenOf(t) /\ t \in given

AsTold(a, s) ==
    /\ s.serial <= last
    /\ asked[s.serial] = a
    /\ s.open <=> s.token = NoToken
    /\ s.open => s.serial \notin given
    /\ ~ s.open => until[a] = s.expires

SessionsAsTold == \A a \in Active : AsTold(a, sessions[a])

UnissuedUngiven == \A n \in Serials : n > last => n \notin given

IInv == Types /\ WithinLimit /\ IndexedWasGiven /\ SessionsAsTold /\ UnissuedUngiven
(* All steps but two kinds only drop sessions, and let the clock advance.    *)
Shrinks ==
    /\ Types'
    /\ \A a \in Addons : sessions'[a] \in {sessions[a], NoSession}
    /\ \A t \in Tokens : index'[t] \in {index[t], NoAddon}
    /\ \A a \in Active' : until'[a] = until[a]
    /\ now <= now'
    /\ UNCHANGED <<last, asked, given>>

-----------------------------------------------------------------------------
LEMMA DroppedType ==
    ASSUME Types, NEW gone
    PROVE  /\ Dropped(gone) \in [Addons -> Session \cup {NoSession}]
           /\ \A a \in Addons : Dropped(gone)[a] = IF a \in gone THEN NoSession ELSE sessions[a]
BY DEF Types, Dropped

LEMMA ForgottenType ==
    ASSUME Types, NEW gone
    PROVE  /\ Forgotten(gone) \in [Tokens -> Addons \cup {NoAddon}]
           /\ \A t \in Tokens : Forgotten(gone)[t] \in {index[t], NoAddon}
BY DEF Types, Forgotten

(* Some session is the oldest of those that are there. *)
LEMMA OldestExists ==
    ASSUME Types, NEW others \in SUBSET Active, others # {}
    PROVE  Oldest(others) # {}
<1> DEFINE serials == {sessions[a].serial : a \in others}
<1>1. \A a \in others : sessions[a] \in Session /\ sessions[a].serial \in Nat
  BY DEF Types, Active, Session, Serials
<1>2. serials \subseteq Nat /\ serials # {}
  BY <1>1
<1>3. PICK n \in serials : \A m \in serials : ~ (<<m, n>> \in OpToRel(<, Nat))
  <2> HIDE DEF serials
  <2> QED BY <1>2, NatLessThanWellFounded, WFMin
<1>4. \A m \in serials : n <= m
  <2> SUFFICES ASSUME NEW m \in serials, ~ (n <= m) PROVE FALSE
    OBVIOUS
  <2>1. m \in Nat /\ n \in Nat
    BY <1>2
  <2> HIDE DEF serials
  <2>2. m < n
    BY <2>1
  <2>3. <<m, n>> \in OpToRel(<, Nat)
    BY <2>1, <2>2 DEF OpToRel
  <2> QED BY <2>3, <1>3
<1>5. PICK a \in others : sessions[a].serial = n
  OBVIOUS
<1> QED BY <1>4, <1>5 DEF Oldest

(* What is left of the sessions after an eviction has room for one more.    *)
LEMMA RoomForOne ==
    ASSUME Types, WithinLimit, NEW a \in Addons
    PROVE  /\ IsFiniteSet((Active \ (Expired \cup Evicted(a))) \cup {a})
           /\ Cardinality((Active \ (Expired \cup Evicted(a))) \cup {a}) <= MaxSessions
<1> DEFINE others == (Active \ Expired) \ {a}
           kept == others \ Evicted(a)
<1> USE AddonAssumption
<1>1. IsFiniteSet(others) /\ Cardinality(others) \in Nat /\ Cardinality(others) <= MaxSessions
  <2>1. others \in SUBSET Active
    OBVIOUS
  <2> HIDE DEF others
  <2>2. IsFiniteSet(others) /\ Cardinality(others) <= Cardinality(Active)
    BY <2>1, FS_Subset DEF WithinLimit
  <2> QED BY <2>2, FS_CardinalityType DEF WithinLimit
<1>2. IsFiniteSet(kept) /\ Cardinality(kept) \in Nat /\ Cardinality(kept) <= MaxSessions - 1
  <2>1. CASE Cardinality(others) >= MaxSessions
    <3>1. others # {}
      BY <1>1, <2>1, FS_EmptySet
    <3>2. Evicted(a) = Oldest(others)
      BY <2>1 DEF Evicted
    <3>3. PICK b \in others : b \in Evicted(a)
      BY <3>1, <3>2, OldestExists DEF Oldest
    <3>4. kept \in SUBSET (others \ {b})
      BY <3>3
    <3> HIDE DEF others, kept
    <3>5. IsFiniteSet(others \ {b}) /\ Cardinality(others \ {b}) = Cardinality(others) - 1
      BY <1>1, <3>3, FS_RemoveElement
    <3>6. IsFiniteSet(kept) /\ Cardinality(kept) <= Cardinality(others \ {b})
      BY <3>4, <3>5, FS_Subset
    <3>7. Cardinality(kept) \in Nat
      BY <3>6, FS_CardinalityType
    <3> QED BY <1>1, <3>5, <3>6, <3>7
  <2>2. CASE ~ (Cardinality(others) >= MaxSessions)
    <3>1. Evicted(a) = {}
      BY <2>2 DEF Evicted
    <3>2. kept = others
      BY <3>1
    <3> HIDE DEF others, kept
    <3> QED BY <1>1, <2>2, <3>2
  <2> QED BY <2>1, <2>2
<1>3. (Active \ (Expired \cup Evicted(a))) \cup {a} = kept \cup {a}
  OBVIOUS
<1>4. IsFiniteSet(kept \cup {a}) /\ Cardinality(kept \cup {a}) = Cardinality(kept) + 1
  <2>1. a \notin kept
    OBVIOUS
  <2> HIDE DEF kept
  <2> QED BY <1>2, <2>1, FS_AddElement
<1>5. Cardinality(kept \cup {a}) \in Nat
  BY <1>4, FS_CardinalityType
<1> HIDE DEF kept
<1>6. IsFiniteSet(kept \cup {a}) /\ Cardinality(kept \cup {a}) <= MaxSessions
  BY <1>2, <1>4, <1>5
<1> QED BY <1>3, <1>6

-----------------------------------------------------------------------------
LEMMA InitHolds == Init => IInv
<1> SUFFICES ASSUME Init PROVE IInv
  OBVIOUS
<1> USE AddonAssumption DEF Init
<1>1. Types
  BY DEF Types
<1>2. Active = {}
  BY DEF Active
<1>3. WithinLimit
  BY <1>2, FS_EmptySet DEF WithinLimit
<1>4. IndexedWasGiven /\ SessionsAsTold /\ UnissuedUngiven
  BY <1>2 DEF IndexedWasGiven, SessionsAsTold, UnissuedUngiven
<1> QED BY <1>1, <1>3, <1>4 DEF IInv

(* Dropping what has expired, or one add-on's session. *)
LEMMA ExpiredShrinks == IInv /\ RegisterRefused => Shrinks
<1> SUFFICES ASSUME IInv, RegisterRefused PROVE Shrinks
  OBVIOUS
<1>1. Types
  BY DEF IInv
<1>2. Types'
  BY <1>1, DroppedType, ForgottenType DEF RegisterRefused, Types
<1>3. \A a \in Addons : sessions'[a] \in {sessions[a], NoSession}
  BY <1>1, DroppedType DEF RegisterRefused
<1>4. \A t \in Tokens : index'[t] \in {index[t], NoAddon}
  BY <1>1, ForgottenType DEF RegisterRefused
<1>5. now <= now' /\ UNCHANGED <<last, asked, given, until>>
  BY <1>1 DEF RegisterRefused, Types
<1> QED BY <1>2, <1>3, <1>4, <1>5 DEF Shrinks

LEMMA ChallengeExpiredShrinks ==
    ASSUME IInv, NEW a \in Active, ChallengeExpired(a)
    PROVE  Shrinks
<1>1. Types
  BY DEF IInv
<1>2. Types'
  BY <1>1, DroppedType DEF ChallengeExpired, Types
<1>3. \A b \in Addons : sessions'[b] \in {sessions[b], NoSession}
  BY <1>1, DroppedType DEF ChallengeExpired
<1>4. now <= now' /\ UNCHANGED <<index, last, asked, given, until>>
  BY <1>1 DEF ChallengeExpired, Types
<1> QED BY <1>1, <1>2, <1>3, <1>4 DEF Shrinks

LEMMA RefuseShrinks ==
    ASSUME IInv, NEW t \in Tokens, Refuse(t)
    PROVE  Shrinks
<1>1. Types
  BY DEF IInv
<1>2. Types'
  BY <1>1, DroppedType DEF Refuse, Types
<1>3. \A b \in Addons : sessions'[b] \in {sessions[b], NoSession}
  BY <1>1, DroppedType DEF Refuse
<1>4. \A u \in Tokens : index'[u] \in {index[u], NoAddon}
  BY <1>1 DEF Refuse, Types
<1>5. now <= now' /\ UNCHANGED <<last, asked, given, until>>
  BY <1>1 DEF Refuse, Types
<1> QED BY <1>2, <1>3, <1>4, <1>5 DEF Shrinks

(* Logging out resets the add-on's promise, but its session is gone. *)
LEMMA LogoutShrinks ==
    ASSUME IInv, NEW t \in Tokens, Logout(t)
    PROVE  Shrinks
<1>1. Types /\ index[t] \in Addons
  BY DEF IInv, Logout, Accepted, Active
<1>2. Types'
  BY <1>1, DroppedType, ForgottenType DEF Logout, Types
<1>3. \A b \in Addons : sessions'[b] \in {sessions[b], NoSession}
  BY <1>1, DroppedType DEF Logout
<1>4. \A u \in Tokens : index'[u] \in {index[u], NoAddon}
  BY <1>1, ForgottenType DEF Logout
<1>5. \A b \in Active' : until'[b] = until[b]
  <2>1. sessions'[index[t]] = NoSession
    BY <1>1, DroppedType DEF Logout
  <2>2. \A b \in Active' : b \in Addons /\ b # index[t]
    BY <2>1 DEF Active
  <2> QED BY <1>1, <2>2 DEF Logout, Types
<1>6. now <= now' /\ UNCHANGED <<last, asked, given>>
  BY <1>1 DEF Logout, Types
<1> QED BY <1>2, <1>3, <1>4, <1>5, <1>6 DEF Shrinks

LEMMA TickShrinks == IInv /\ Tick => Shrinks
<1> SUFFICES ASSUME IInv, Tick PROVE Shrinks
  OBVIOUS
<1>1. Types
  BY DEF IInv
<1>2. Types' /\ now <= now'
  BY <1>1, AddonAssumption DEF Tick, Types
<1> QED BY <1>1, <1>2 DEF Shrinks, Tick, Types

LEMMA RestartShrinks == IInv /\ Restart => Shrinks
<1> SUFFICES ASSUME IInv, Restart PROVE Shrinks
  OBVIOUS
<1>1. Types
  BY DEF IInv
<1>2. Types' /\ now <= now'
  BY <1>1, AddonAssumption DEF Restart, Types
<1> QED BY <1>1, <1>2 DEF Shrinks, Restart

LEMMA PresentShrinks ==
    ASSUME IInv, UNCHANGED vars
    PROVE  Shrinks
<1>1. Types
  BY DEF IInv
<1>2. Types' /\ now <= now'
  BY <1>1 DEF vars, Types
<1> QED BY <1>2 DEF Shrinks, vars

(* Every step registers, authenticates or drops sessions. *)
LEMMA EveryStep ==
    ASSUME IInv, [Next]_vars
    PROVE  \/ Shrinks
           \/ \E a \in Addons : Register(a)
           \/ \E a \in Active : Authenticate(a)
<1>1. CASE UNCHANGED vars
  BY <1>1, PresentShrinks
<1>2. CASE RegisterRefused
  BY <1>2, ExpiredShrinks
<1>3. ASSUME NEW a \in Active, ChallengeExpired(a) PROVE Shrinks
  BY <1>3, ChallengeExpiredShrinks
<1>4. ASSUME NEW t \in Tokens, Refuse(t) \/ Present(t) \/ Logout(t) PROVE Shrinks
  BY <1>4, RefuseShrinks, PresentShrinks, LogoutShrinks DEF Present
<1>5. CASE Tick
  BY <1>5, TickShrinks
<1>6. CASE Restart
  BY <1>6, RestartShrinks
<1> QED BY <1>1, <1>2, <1>3, <1>4, <1>5, <1>6 DEF Next
-----------------------------------------------------------------------------
LEMMA ShrinkingKeeps ==
    ASSUME IInv, Shrinks
    PROVE  IInv'
<1> USE DEF IInv
<1>1. Types /\ Types'
  BY DEF Shrinks
<1>2. Active' \subseteq Active /\ \A a \in Active' : sessions'[a] = sessions[a]
  BY DEF Shrinks, Active
<1>3. WithinLimit'
  <2>1. IsFiniteSet(Active') /\ Cardinality(Active') <= Cardinality(Active)
    BY <1>2, FS_Subset DEF WithinLimit
  <2> QED BY <2>1, FS_CardinalityType, AddonAssumption DEF WithinLimit
<1>4. IndexedWasGiven'
  BY DEF IndexedWasGiven, TokenOf, Shrinks
<1>5. SessionsAsTold'
  BY <1>2 DEF SessionsAsTold, AsTold, Shrinks
<1>6. UnissuedUngiven'
  BY DEF UnissuedUngiven, Shrinks
<1> QED BY <1>1, <1>3, <1>4, <1>5, <1>6

(* What registering does to the sessions and the index. *)
LEMMA RegisterEffect ==
    ASSUME IInv, NEW a \in Addons, Register(a)
    PROVE  /\ Types'
           /\ last + 1 \in Serials
           /\ sessions'[a] \in Session
           /\ sessions'[a].serial = last + 1 /\ sessions'[a].open
           /\ sessions'[a].token = NoToken
           /\ \A b \in Addons \ {a} : sessions'[b] =
                 IF b \in Expired \cup Evicted(a) THEN NoSession ELSE sessions[b]
           /\ \A t \in Tokens : index'[t] \in {index[t], NoAddon}
           /\ \A n \in Serials : asked'[n] = IF n = last + 1 THEN a ELSE asked[n]
<1> DEFINE gone == Expired \cup Evicted(a)
           session == [serial |-> last + 1, place |-> PlaceOf(a), open |-> TRUE,
                       issued |-> now, token |-> NoToken, expires |-> 0]
<1>1. Types
  BY DEF IInv
<1>2. last + 1 \in Serials /\ last + 1 \in 0..MaxChallenges
  BY <1>1, AddonAssumption DEF Register, Types, Serials
<1>3. session \in Session
  <2>1. PlaceOf(a) \in Serials
    BY <1>1, <1>2 DEF PlaceOf, Active, Types, Session
  <2> QED BY <1>1, <1>2, <2>1 DEF Session, Types
<1>4. /\ sessions' = [Dropped(gone) EXCEPT ![a] = session]
      /\ index' = Forgotten(gone)
      /\ asked' = [asked EXCEPT ![last + 1] = a]
      /\ last' = last + 1
      /\ UNCHANGED <<now, given, until, restarts>>
  BY DEF Register
<1> HIDE DEF gone, session
<1>5. /\ sessions' \in [Addons -> Session \cup {NoSession}]
      /\ sessions'[a] = session
      /\ \A b \in Addons \ {a} : sessions'[b] = IF b \in gone THEN NoSession ELSE sessions[b]
  BY <1>1, <1>3, <1>4, DroppedType
<1>6. /\ index' \in [Tokens -> Addons \cup {NoAddon}]
      /\ \A t \in Tokens : index'[t] \in {index[t], NoAddon}
  BY <1>1, <1>4, ForgottenType
<1>7. /\ asked' \in [Serials -> Addons \cup {NoAddon}]
      /\ \A n \in Serials : asked'[n] = IF n = last + 1 THEN a ELSE asked[n]
  BY <1>1, <1>2, <1>4 DEF Types
<1>8. Types'
  BY <1>1, <1>2, <1>4, <1>5, <1>6, <1>7 DEF Types
<1>9. session.serial = last + 1 /\ session.open /\ session.token = NoToken
  BY DEF session
<1>10. \A b \in Addons \ {a} : sessions'[b] =
          IF b \in Expired \cup Evicted(a) THEN NoSession ELSE sessions[b]
  BY <1>5 DEF gone
<1> QED BY <1>2, <1>3, <1>5, <1>6, <1>7, <1>8, <1>9, <1>10

LEMMA RegisterKeeps ==
    ASSUME IInv, NEW a \in Addons, Register(a)
    PROVE  IInv'
<1> USE DEF IInv
<1>1. Types /\ Types' /\ last \in Nat /\ last' = last + 1 /\ UNCHANGED <<given, until>>
  <2>1. last' = last + 1 /\ UNCHANGED <<given, until>>
    BY DEF Register
  <2>2. Types /\ Types'
    BY RegisterEffect
  <2> QED BY <2>1, <2>2, AddonAssumption DEF Types
<1>2. Active' = (Active \ (Expired \cup Evicted(a))) \cup {a}
  <2>1. a \in Active'
    <3>1. sessions'[a] # NoSession
      <4>1. sessions'[a] \in Session
        BY RegisterEffect
      <4> QED BY <4>1, AddonAssumption
    <3> QED BY <3>1 DEF Active
  <2>2. \A b \in Addons \ {a} : b \in Active' <=> b \in Active \ (Expired \cup Evicted(a))
    BY RegisterEffect DEF Active
  <2>3. Active \subseteq Addons /\ Active' \subseteq Addons
    BY DEF Active
  <2> QED BY <2>1, <2>2, <2>3
<1>3. WithinLimit'
  BY <1>1, <1>2, RoomForOne DEF WithinLimit
<1>4. last + 1 \notin given
  BY <1>1, RegisterEffect DEF UnissuedUngiven, Serials
<1>5. IndexedWasGiven'
  <2> SUFFICES ASSUME NEW t \in Tokens, index'[t] # NoAddon
               PROVE  index'[t] = TokenOf(t)' /\ t \in given'
    BY DEF IndexedWasGiven
  <2>1. index[t] = TokenOf(t) /\ t \in given /\ index'[t] = index[t]
    BY RegisterEffect DEF IndexedWasGiven
  <2>2. TokenOf(t)' = TokenOf(t)
    BY <1>4, <2>1, RegisterEffect DEF TokenOf, Tokens
  <2> QED BY <1>1, <2>1, <2>2
<1>6. SessionsAsTold'
  <2> SUFFICES ASSUME NEW b \in Active' PROVE AsTold(b, sessions[b])'
    BY DEF SessionsAsTold
  <2>1. CASE b = a
    <3>1. sessions'[b].serial = last + 1 /\ sessions'[b].open /\ sessions'[b].token = NoToken
      BY <2>1, RegisterEffect
    <3>2. asked'[last + 1] = a
      BY RegisterEffect
    <3> QED BY <1>1, <1>4, <2>1, <3>1, <3>2 DEF AsTold
  <2>2. CASE b # a
    <3>1. b \in Active /\ sessions'[b] = sessions[b]
      BY <2>2, RegisterEffect DEF Active
    <3>2. AsTold(b, sessions[b]) /\ sessions[b].serial \in Serials
      BY <1>1, <3>1 DEF SessionsAsTold, Types, Active, Session
    <3>3. sessions[b].serial <= last + 1 /\ sessions[b].serial # last + 1
      BY <1>1, <3>2 DEF AsTold, Serials
    <3>4. asked'[sessions[b].serial] = asked[sessions[b].serial]
      BY <3>2, <3>3, RegisterEffect
    <3> QED BY <1>1, <3>1, <3>2, <3>3, <3>4 DEF AsTold
  <2> QED BY <2>1, <2>2
<1>7. UnissuedUngiven'
  BY <1>1 DEF UnissuedUngiven, Serials
<1> QED BY <1>1, <1>3, <1>5, <1>6, <1>7

(* What authenticating does: one session and one token change, and the token *)
(* is new, or the add-on's lasting one.                                     *)
LEMMA AuthenticateEffect ==
    ASSUME IInv, NEW a \in Active, Authenticate(a)
    PROVE  LET s == sessions[a]  t == TokenFor(a)  end == now + SessionTTL IN
           /\ a \in Addons /\ t \in Tokens /\ TokenOf(t) = a
           /\ t \in Serials => t = s.serial /\ t <= last
           /\ t \in Addons \/ (t \notin given /\ index[t] = NoAddon)
           /\ end \in Nat /\ now <= end
           /\ sessions' = [sessions EXCEPT ![a] =
                 [s EXCEPT !.open = FALSE, !.token = t, !.expires = end]]
           /\ index' = [index EXCEPT ![t] = a]
           /\ given' = given \cup {t}
           /\ until' = [until EXCEPT ![a] = end]
           /\ UNCHANGED <<now, last, asked, restarts>>
<1> DEFINE s == sessions[a]
           t == TokenFor(a)
           end == now + SessionTTL
<1>1. Types /\ a \in Addons /\ s \in Session
  BY DEF IInv, Active, Types
<1>2. s.serial \in Serials /\ AsTold(a, s)
  BY <1>1 DEF IInv, SessionsAsTold, Session
<1>3. /\ t \in Tokens /\ TokenOf(t) = a
      /\ t \in Serials => t = s.serial /\ t <= last
      /\ t \in Addons \/ (t \notin given /\ index[t] = NoAddon)
  <2>1. CASE s.open
    <3>1. t = s.serial
      BY <2>1 DEF TokenFor
    <3>2. t \in Tokens /\ t \notin Addons /\ t <= last /\ asked[t] = a /\ t \notin given
      BY <1>2, <2>1, <3>1, AddonAssumption DEF AsTold, Tokens
    <3>3. index[t] = NoAddon
      BY <3>2 DEF IInv, IndexedWasGiven
    <3> QED BY <3>1, <3>2, <3>3 DEF TokenOf
  <2>2. CASE ~ s.open
    BY <1>1, <2>2, AddonAssumption DEF TokenFor, Tokens, TokenOf
  <2> QED BY <2>1, <2>2
<1>4. now \in Nat /\ end \in Nat /\ now <= end
  BY <1>1, AddonAssumption DEF Types
<1>5. /\ sessions' = [sessions EXCEPT ![a] = [s EXCEPT !.open = FALSE, !.token = t, !.expires = end]]
      /\ index' = [index EXCEPT ![t] = a]
      /\ given' = given \cup {t}
      /\ until' = [until EXCEPT ![a] = end]
      /\ UNCHANGED <<now, last, asked, restarts>>
  BY DEF Authenticate
<1> QED BY <1>1, <1>3, <1>4, <1>5

LEMMA AuthenticateKeeps ==
    ASSUME IInv, NEW a \in Active, Authenticate(a)
    PROVE  IInv'
<1> DEFINE s == sessions[a]
           t == TokenFor(a)
           end == now + SessionTTL
           new == [s EXCEPT !.open = FALSE, !.token = t, !.expires = end]
<1>1. Types /\ s \in Session /\ AsTold(a, s)
  BY DEF IInv, Active, Types, SessionsAsTold
<1>2. /\ a \in Addons /\ t \in Tokens /\ TokenOf(t) = a
      /\ t \in Serials => t = s.serial /\ t <= last
      /\ end \in Nat
      /\ sessions' = [sessions EXCEPT ![a] = new]
      /\ index' = [index EXCEPT ![t] = a]
      /\ given' = given \cup {t}
      /\ until' = [until EXCEPT ![a] = end]
      /\ UNCHANGED <<now, last, asked, restarts>>
  BY AuthenticateEffect
<1>3. /\ new \in Session /\ new # NoSession
      /\ new.serial = s.serial /\ ~ new.open /\ new.token = t /\ new.expires = end
  <2> HIDE DEF s, t, end
  <2>1. new \in Session /\ new.serial = s.serial /\ ~ new.open /\ new.token = t /\ new.expires = end
    BY <1>1, <1>2 DEF Session
  <2> HIDE DEF new
  <2> QED BY <2>1, AddonAssumption
<1>4. t # NoToken /\ s.serial \in Serials
  BY <1>1, <1>2, AddonAssumption DEF Session
<1> HIDE DEF s, t, end, new
<1>5. Types'
  BY <1>1, <1>2, <1>3 DEF Types
<1>6. /\ sessions'[a] = new /\ until'[a] = end /\ index'[t] = a
      /\ \A b \in Addons \ {a} : sessions'[b] = sessions[b] /\ until'[b] = until[b]
      /\ \A u \in Tokens \ {t} : index'[u] = index[u]
  BY <1>1, <1>2 DEF Types
<1>7. Active' = Active
  BY <1>3, <1>6 DEF Active
<1>8. WithinLimit'
  BY <1>7 DEF IInv, WithinLimit
<1>9. IndexedWasGiven'
  BY <1>2, <1>6 DEF IInv, IndexedWasGiven, TokenOf
<1>10. SessionsAsTold'
  <2> SUFFICES ASSUME NEW b \in Active PROVE AsTold(b, sessions[b])'
    BY <1>7 DEF SessionsAsTold
  <2>1. CASE b = a
    BY <1>1, <1>2, <1>3, <1>4, <1>6, <2>1 DEF AsTold
  <2>2. CASE b # a
    <3>1. b \in Addons /\ sessions'[b] = sessions[b] /\ until'[b] = until[b]
      BY <1>6, <2>2 DEF Active
    <3>2. AsTold(b, sessions[b]) /\ sessions[b].serial \in Serials
      BY <1>1, <3>1 DEF IInv, SessionsAsTold, Types, Active, Session
    <3>3. sessions[b].serial # t
      <4>1. sessions[b].serial # s.serial
        BY <1>1, <2>2, <3>2 DEF AsTold
      <4> QED BY <1>2, <3>2, <4>1
    <3> QED BY <1>2, <3>1, <3>2, <3>3 DEF AsTold
  <2> QED BY <2>1, <2>2
<1>11. UnissuedUngiven'
  <2>1. \A n \in Serials : n > last => n # t
    BY <1>1, <1>2 DEF Serials, Types
  <2> QED BY <1>2, <2>1 DEF IInv, UnissuedUngiven
<1> QED BY <1>5, <1>8, <1>9, <1>10, <1>11 DEF IInv

LEMMA InvariantHolds == Spec => []IInv
<1>1. IInv /\ [Next]_vars => IInv'
  BY EveryStep, ShrinkingKeeps, RegisterKeeps, AuthenticateKeeps
<1> QED BY InitHolds, <1>1, PTL DEF Spec

-----------------------------------------------------------------------------
(* Every variable has its type, and there are never more sessions than the    *)
(* limit of register_addon, whatever expires and comes back.                *)
THEOREM TypeCorrect == Spec => []TypeOK
<1>1. IInv => TypeOK
  BY DEF IInv, Types, WithinLimit, TypeOK
<1> QED BY InvariantHolds, <1>1, PTL

(* validate_session accepts a token only for the add-on it was promised to,   *)
(* and only while that has a session it was promised and not given up.       *)
THEOREM AcceptanceIsPromised == Spec => []AcceptedWhilePromised
<1>1. IInv => AcceptedWhilePromised
  <2> SUFFICES ASSUME IInv, NEW t \in Tokens, Accepted(t)
               PROVE  t \in given /\ index[t] = TokenOf(t) /\ now <= until[TokenOf(t)]
    BY DEF AcceptedWhilePromised
  <2>1. index[t] \in Addons /\ index[t] # NoAddon
    BY AddonAssumption DEF Accepted, Active
  <2>2. t \in given /\ index[t] = TokenOf(t)
    BY <2>1 DEF IInv, IndexedWasGiven
  <2>3. until[index[t]] = sessions[index[t]].expires
    BY DEF IInv, SessionsAsTold, AsTold, Accepted, Authenticated
  <2> QED BY <2>2, <2>3 DEF Accepted
<1> QED BY InvariantHolds, <1>1, PTL

(* A session waits only on a challenge whose token was not given: register,   *)
(* authenticate, evictions and restarts never open a used challenge again.   *)
(* The empty challenge a used one is cleared to is not among them.           *)
THEOREM ChallengesYieldOnce == Spec => []ChallengeUsedOnce
<1>1. IInv => ChallengeUsedOnce
  BY DEF IInv, SessionsAsTold, AsTold, ChallengeUsedOnce
<1> QED BY InvariantHolds, <1>1, PTL
-----------------------------------------------------------------------------
(* What an accepted token is to the promise. *)
LEMMA LiveIsGiven ==
    ASSUME IInv, NEW t \in Tokens, Accepted(t)
    PROVE  Given[t] = index[t] /\ index[t] \in Addons /\ index[t] # NoAddon
BY AddonAssumption DEF Accepted, Active, IInv, IndexedWasGiven, Given

(* A step that drops sessions, or begins one that is not yet authenticated,   *)
(* ends tokens at most.                                                     *)
LEMMA ShrinkingEnds ==
    ASSUME IInv, Shrinks
    PROVE  Promise!End
<1>1. Given' = Given
  BY DEF Given, TokenOf, Shrinks
<1>2. Live' \subseteq Live
  <2> SUFFICES ASSUME NEW t \in Tokens, Accepted(t)' PROVE Accepted(t)
    BY DEF Live
  <2>1. index'[t] \in Addons /\ index'[t] = index[t]
    BY AddonAssumption DEF Accepted, Active, Shrinks
  <2>2. sessions'[index[t]] = sessions[index[t]] /\ index[t] \in Active
    BY <2>1 DEF Accepted, Active, Shrinks
  <2>3. now \in Nat /\ now' \in Nat /\ now <= now' /\ now' <= sessions[index[t]].expires
    BY <2>1, <2>2, AddonAssumption DEF Accepted, Shrinks, IInv, Types
  <2>4. sessions[index[t]].expires \in Nat
    BY <2>2 DEF IInv, Types, Session, Active
  <2> QED BY <2>1, <2>2, <2>3, <2>4 DEF Accepted, Authenticated
<1> QED BY <1>1, <1>2 DEF Promise!End

LEMMA RegisteringEnds ==
    ASSUME IInv, NEW a \in Addons, Register(a)
    PROVE  Promise!End
<1>1. UNCHANGED <<now, given>>
  BY DEF Register
<1>2. Given' = Given
  <2>1. last + 1 \notin given
    <3>1. last \in Nat /\ last + 1 \in Serials
      BY RegisterEffect, AddonAssumption DEF IInv, Types
    <3> QED BY <3>1 DEF IInv, UnissuedUngiven
  <2>2. \A t \in Tokens : t \in given => TokenOf(t)' = TokenOf(t)
    BY <2>1, RegisterEffect DEF TokenOf, Tokens
  <2> QED BY <1>1, <2>2 DEF Given
<1>3. Live' \subseteq Live
  <2> SUFFICES ASSUME NEW t \in Tokens, Accepted(t)' PROVE Accepted(t)
    BY DEF Live
  <2>1. index'[t] \in Addons /\ sessions'[index'[t]] # NoSession
             /\ sessions'[index'[t]].token # NoToken
    BY DEF Accepted, Active, Authenticated
  <2>2. index'[t] = index[t]
    BY <2>1, RegisterEffect, AddonAssumption
  <2>3. index[t] # a
    <3>1. sessions'[a].token = NoToken
      BY RegisterEffect
    <3> QED BY <2>1, <2>2, <3>1
  <2>4. sessions'[index[t]] = sessions[index[t]]
    BY <2>1, <2>2, <2>3, RegisterEffect
  <2> QED BY <1>1, <2>1, <2>2, <2>4 DEF Accepted, Active, Authenticated
<1> QED BY <1>2, <1>3 DEF Promise!End

LEMMA AuthenticatingGrants ==
    ASSUME IInv, NEW a \in Active, Authenticate(a)
    PROVE  \E b \in Addons, t \in Tokens : Promise!Grant(b, t)
<1> DEFINE s == sessions[a]
           t == TokenFor(a)
           end == now + SessionTTL
           new == [s EXCEPT !.open = FALSE, !.token = t, !.expires = end]
<1>1. /\ a \in Addons /\ t \in Tokens /\ TokenOf(t) = a
      /\ t \in Addons \/ (t \notin given /\ index[t] = NoAddon)
      /\ end \in Nat /\ now <= end
      /\ sessions' = [sessions EXCEPT ![a] = new]
      /\ index' = [index EXCEPT ![t] = a]
      /\ given' = given \cup {t}
      /\ UNCHANGED <<now, asked>>
  BY AuthenticateEffect
<1>2. new.token = t /\ new.expires = end /\ new \in Session /\ t # NoToken
  <2>1. s \in Session
    BY DEF IInv, Active, Types
  <2> HIDE DEF s, t, end
  <2>2. new \in Session /\ new.token = t /\ new.expires = end
    BY <1>1, <2>1 DEF Session
  <2> HIDE DEF new
  <2> QED BY <1>1, <2>2, AddonAssumption
<1> HIDE DEF s, t, end, new
<1>3. Types
  BY DEF IInv
<1>4. /\ sessions'[a] = new /\ index'[t] = a
      /\ \A b \in Addons \ {a} : sessions'[b] = sessions[b]
      /\ \A u \in Tokens \ {t} : index'[u] = index[u]
  BY <1>1, <1>3 DEF Types
<1>5. a \in Active'
  <2>1. new # NoSession
    BY <1>2, AddonAssumption
  <2> QED BY <1>1, <1>4, <2>1 DEF Active
<1>6. /\ Given[t] = NoAddon \/ (Given[t] = a /\ t \in Addons)
      /\ Given' = [Given EXCEPT ![t] = a]
  BY <1>1, <1>3 DEF Given, TokenOf
<1>7. t \in Live'
  BY <1>1, <1>2, <1>4, <1>5 DEF Live, Accepted, Authenticated
<1>8. ASSUME NEW u \in Tokens, u # t, Given[u] # a
      PROVE  Accepted(u)' <=> Accepted(u)
  <2>1. index'[u] = index[u]
    BY <1>4, <1>8
  <2>2. index[u] # a
    BY <1>1, <1>8, AddonAssumption DEF IInv, IndexedWasGiven, Given
  <2>3. index[u] \in Addons => sessions'[index[u]] = sessions[index[u]]
    BY <1>4, <2>2
  <2> QED BY <1>1, <2>1, <2>3 DEF Accepted, Active, Authenticated
<1>9. Live' \ (Promise!TokensOf(a) \cup {t}) = Live \ Promise!TokensOf(a)
  <2>1. t \in Live => Given[t] = a
    BY <1>1, LiveIsGiven, AddonAssumption DEF Live, Given, Accepted, Active
  <2> QED BY <1>8, <2>1, AddonAssumption DEF Live, Promise!TokensOf
<1>10. Promise!Grant(a, t)
  BY <1>6, <1>7, <1>9 DEF Promise!Grant
<1> QED BY <1>1, <1>10

(* The sessions keep the promise of AddonTokens, whatever they drop.         *)
THEOREM KeepsPromise == Spec => PromiseKept
<1>1. Init => Promise!Init
  BY AddonAssumption DEF Init, Promise!Init, Given, Live, Accepted, Active
<1>2. IInv /\ [Next]_vars => [Promise!Next]_(Promise!vars)
  BY EveryStep, ShrinkingEnds, RegisteringEnds, AuthenticatingGrants DEF Promise!Next
<1> QED BY InvariantHolds, <1>1, <1>2, PTL DEF Spec, PromiseKept, Promise!Spec

-----------------------------------------------------------------------------
(* The lock, the notifier and the bridge                                    *)
(* What has happened until now, in its order. *)
History(h, time) ==
    /\ h \in SUBSET Mark /\ IsFiniteSet(h)
    /\ \A x \in h : x.at <= time /\ x.n <= Cardinality(h)
    /\ \A x, y \in h : x.n <= y.n => x.at <= y.at

(* The marks kept are all those of the last period. *)
Keeps(marks, h, time, period) ==
    marks \in SUBSET Mark /\ Within(marks, time, period) = Within(h, time, period)

(* At the start nothing has happened.                                       *)
LEMMA NoHistory ==
    ASSUME NEW time \in Nat, NEW period \in Nat, NEW limit \in Nat
    PROVE  /\ History({}, time) /\ Keeps({}, {}, time, period) /\ AtMost(limit, {}, period)
BY FS_EmptySet DEF History, Keeps, Within, AtMost

(* A history stays one as the clock goes on.                                *)
LEMMA HistoryAges ==
    ASSUME NEW h, NEW time \in Nat, NEW later \in Nat, time <= later, History(h, time)
    PROVE  History(h, later)
BY DEF History, Mark

(* What is kept is still enough later.                                      *)
LEMMA KeepsAges ==
    ASSUME NEW h, NEW marks, NEW time \in Nat, NEW later \in Nat, NEW period \in Nat,
           time <= later, h \in SUBSET Mark, Keeps(marks, h, time, period)
    PROVE  Keeps(marks, h, later, period)
<1>1. ASSUME NEW m \in Mark, later < m.at + period PROVE time < m.at + period
  BY <1>1 DEF Mark
<1>2. Within(marks, later, period) = Within(h, later, period)
  BY <1>1 DEF Keeps, Within
<1> QED BY <1>2 DEF Keeps

(* A new mark comes after all others.                                       *)
LEMMA NewMarkIsNew ==
    ASSUME NEW h, NEW time \in Nat, History(h, time)
    PROVE  /\ NewMark(h, time) \in Mark /\ NewMark(h, time) \notin h
           /\ NewMark(h, time).at = time
           /\ \A x \in h : x.n < NewMark(h, time).n
           /\ Cardinality(h \cup {NewMark(h, time)}) = NewMark(h, time).n
           /\ IsFiniteSet(h \cup {NewMark(h, time)})
<1>1. Cardinality(h) \in Nat
  BY FS_CardinalityType DEF History
<1>2. NewMark(h, time) \in Mark /\ NewMark(h, time).n = Cardinality(h) + 1
      /\ NewMark(h, time).at = time
  BY <1>1 DEF NewMark, Mark
<1>3. ASSUME NEW x \in h PROVE x.n < NewMark(h, time).n
  BY <1>1, <1>2, <1>3 DEF History, Mark
<1>4. NewMark(h, time) \notin h
  BY <1>1, <1>2, <1>3
<1>5. /\ Cardinality(h \cup {NewMark(h, time)}) = Cardinality(h) + 1
      /\ IsFiniteSet(h \cup {NewMark(h, time)})
  BY <1>4, FS_AddElement DEF History
<1> QED BY <1>2, <1>3, <1>4, <1>5

(* What happens now goes to the end of the history.                         *)
LEMMA HistoryGrows ==
    ASSUME NEW h, NEW time \in Nat, History(h, time)
    PROVE  History(h \cup {NewMark(h, time)}, time)
<1> DEFINE new == NewMark(h, time)
           all == h \cup {new}
<1>1. /\ new \in Mark /\ new.at = time /\ Cardinality(all) = new.n /\ IsFiniteSet(all)
      /\ \A x \in h : x.n < new.n
  BY NewMarkIsNew
<1>2. /\ \A x \in h : x \in Mark /\ x.at <= time
      /\ \A x, y \in h : x.n <= y.n => x.at <= y.at
  BY DEF History
<1>3. all \in SUBSET Mark
  BY <1>1, <1>2
<1> HIDE DEF new
<1>4. ASSUME NEW x \in all PROVE x.at <= time /\ x.n <= Cardinality(all)
  BY <1>1, <1>2, <1>4 DEF Mark
<1>5. ASSUME NEW x \in all, NEW y \in all, x.n <= y.n PROVE x.at <= y.at
  <2>1. x \in Mark /\ y \in Mark /\ new \in Mark
    BY <1>3, <1>1
  <2>2. CASE y = new
    BY <2>2, <1>1, <1>4
  <2>3. CASE y # new /\ x = new
    BY <2>1, <2>3, <1>1, <1>5 DEF Mark
  <2>4. CASE y # new /\ x # new
    BY <2>4, <1>2, <1>5
  <2> QED BY <2>2, <2>3, <2>4
<1>6. History(all, time)
  BY <1>1, <1>3, <1>4, <1>5 DEF History
<1> QED BY <1>6 DEF new

(* A new mark, taken where the last period has room, keeps the limit.       *)
LEMMA LimitKept ==
    ASSUME NEW h, NEW time \in Nat, NEW period \in Nat, NEW limit \in Nat,
           History(h, time), AtMost(limit, h, period),
           Cardinality(Within(h, time, period)) < limit
    PROVE  AtMost(limit, h \cup {NewMark(h, time)}, period)
<1> DEFINE new == NewMark(h, time)
           all == h \cup {new}
           From(x, s) == {y \in s : y.n >= x.n /\ y.at < x.at + period}
           recent == Within(h, time, period)
<1>1. /\ new \in Mark /\ new \notin h /\ new.at = time /\ \A x \in h : x.n < new.n
  BY NewMarkIsNew
<1>2. /\ IsFiniteSet(h) /\ \A x \in h : x \in Mark /\ x.at <= time
      /\ \A x, y \in h : x.n <= y.n => x.at <= y.at
  BY DEF History
<1>3. IsFiniteSet(recent) /\ recent \subseteq h
  BY <1>2, FS_Subset DEF Within
<1>4. /\ IsFiniteSet(recent \cup {new})
      /\ Cardinality(recent \cup {new}) = Cardinality(recent) + 1
  BY <1>1, <1>3, FS_AddElement
<1>5. Cardinality(recent) \in Nat
  BY <1>3, FS_CardinalityType
<1> HIDE DEF new
<1>6. ASSUME NEW x \in all PROVE Cardinality(From(x, all)) <= limit
  <2>1. CASE x = new
    <3>1. From(x, all) \subseteq recent \cup {new}
      BY <2>1, <1>1, <1>2 DEF Mark
    <3>2. /\ IsFiniteSet(From(x, all)) 
          /\ Cardinality(From(x, all)) <= Cardinality(recent \cup {new})
      BY <3>1, <1>4, FS_Subset
    <3> QED BY <3>2, <1>4, <1>5, FS_CardinalityType
  <2>2. CASE x \in h /\ time < x.at + period
    <3>1. \A y \in h : y.n >= x.n => time < y.at + period
      BY <2>2, <1>2 DEF Mark
    <3>2. From(x, all) \subseteq recent \cup {new}
      BY <3>1 DEF Within
    <3>3. /\ IsFiniteSet(From(x, all)) 
          /\ Cardinality(From(x, all)) <= Cardinality(recent \cup {new})
      BY <3>2, <1>4, FS_Subset
    <3> QED BY <3>3, <1>4, <1>5, FS_CardinalityType
  <2>3. CASE x \in h /\ ~(time < x.at + period)
    <3>1. From(x, all) = From(x, h)
      BY <2>3, <1>1
    <3>2. Cardinality(From(x, h)) <= limit
      BY <2>3 DEF AtMost
    <3> QED BY <3>1, <3>2
  <2> QED BY <2>1, <2>2, <2>3
<1>7. AtMost(limit, all, period)
  BY <1>6 DEF AtMost
<1> QED BY <1>7 DEF new

(* Dropping what is a period old and adding the new mark keeps the last     *)
(* period.                                                                  *)
LEMMA KeepsNew ==
    ASSUME NEW h, NEW marks, NEW time \in Nat, NEW period \in Nat,
           History(h, time), Keeps(marks, h, time, period)
    PROVE  Keeps(Within(marks, time, period) \cup {NewMark(h, time)},
                 h \cup {NewMark(h, time)}, time, period)
<1>1. NewMark(h, time) \in Mark
  BY NewMarkIsNew
<1> QED BY <1>1 DEF Keeps, Within

(* Dropping what is a period old drops nothing of the last period.          *)
LEMMA KeepsPruned ==
    ASSUME NEW h, NEW marks, NEW time \in Nat, NEW period \in Nat,
           Keeps(marks, h, time, period)
    PROVE  Keeps(Within(marks, time, period), h, time, period)
BY DEF Keeps, Within

(* What is kept for a period is enough for any shorter one.                 *)
LEMMA KeepsForLess ==
    ASSUME NEW h, NEW marks, NEW time \in Nat, NEW period \in Nat, NEW shorter \in Nat,
           shorter <= period, h \in SUBSET Mark, Keeps(marks, h, time, period)
    PROVE  Within(Within(marks, time, period), time, shorter) = Within(h, time, shorter)
<1>1. ASSUME NEW m \in Mark, time < m.at + shorter PROVE time < m.at + period
  BY <1>1 DEF Mark
<1> QED BY <1>1 DEF Keeps, Within
-----------------------------------------------------------------------------
(* The termination lock *)

(* The window of routes/addon.py is that of SlidingWindow.                  *)
LEMMA LockWindow ==
    /\ Lock!Mark = Mark
    /\ \A h, time : Lock!NewMark(h, time) = NewMark(h, time)
    /\ \A m, time, period : Lock!Within(m, time, period) = Within(m, time, period)
    /\ \A limit, h, period : Lock!AtMost(limit, h, period) = AtMost(limit, h, period)
    /\ \A S : Lock!Cardinality(S) = Cardinality(S)
<1>1. Lock!Mark = Mark
  BY DEF Lock!Mark, Mark
<1>2. \A S : Lock!Cardinality(S) = Cardinality(S)
  <2>1. ASSUME NEW S PROVE Lock!Cardinality(S) = Cardinality(S)
    BY DEF Lock!Cardinality, Cardinality
  <2> QED BY <2>1
<1>3. ASSUME NEW h, NEW time PROVE Lock!NewMark(h, time) = NewMark(h, time)
  BY <1>2 DEF Lock!NewMark, NewMark
<1>4. ASSUME NEW m, NEW time, NEW period PROVE Lock!Within(m, time, period) = Within(m, time, period)
  BY DEF Lock!Within, Within
<1>5. ASSUME NEW limit, NEW h, NEW period PROVE Lock!AtMost(limit, h, period) = AtMost(limit, h, period)
  BY <1>2 DEF Lock!AtMost, AtMost
<1> QED BY <1>1, <1>2, <1>3, <1>4, <1>5

(* Where the three copies of the password agree.                            *)
Copies ==
    /\ at = "tell" => file = hash
    /\ (at \notin {"write", "tell"} /\ ~cut) => file = known
    /\ (at \in {"install", "serve", "relock"} /\ ~cut) => hash = known

(* A lock-out counts every wrong password of the last period.               *)
Counted(a) ==
    /\ History(judged[a], clock) /\ AtMost(MaxAttempts, judged[a], Lockout)
    /\ attempts[a] \in SUBSET Mark
    /\ ~stopping => Keeps(attempts[a], judged[a], clock, Lockout)

LockInv ==
    /\ clock \in Nat
    /\ cut \in BOOLEAN /\ stopping \in BOOLEAN
    /\ attempts \in [Addresses -> SUBSET Mark] /\ judged \in [Addresses -> SUBSET Mark]
    /\ Copies
    /\ \A a \in Addresses : Counted(a)

(* At the start all copies are the same, and nobody has tried.              *)
LEMMA LockInit == ASSUME Lock!Init PROVE LockInv
<1>1. /\ file = hash /\ file = known /\ at = "off" /\ cut = FALSE /\ stopping = FALSE
      /\ clock = 0 /\ attempts = [a \in Addresses |-> {}] /\ judged = attempts
  BY DEF Lock!Init
<1>2. Copies
  BY <1>1 DEF Copies
<1>3. MaxAttempts \in Nat /\ Lockout \in Nat
  BY DoorsAssumption DEF Lock!LockAssumption
<1>4. ASSUME NEW a \in Addresses PROVE Counted(a)
  <2>1. judged[a] = {} /\ attempts[a] = {} /\ clock \in Nat
    BY <1>1
  <2> QED BY <2>1, <1>3, NoHistory DEF Counted
<1> QED BY <1>1, <1>2, <1>4 DEF LockInv

(* The clock goes on, and nothing of the lock moves.                        *)
LEMMA LockAges ==
    ASSUME LockInv, UNCHANGED lockVars,
           clock' \in Nat, clock <= clock'
    PROVE  LockInv'
<1>1. Lockout \in Nat /\ clock \in Nat
  BY DoorsAssumption DEF Lock!LockAssumption, LockInv
<1>2. /\ file' = file /\ hash' = hash /\ at' = at /\ cut' = cut /\ known' = known
      /\ stopping' = stopping /\ attempts' = attempts /\ judged' = judged
  BY DEF lockVars
<1>3. Copies'
  BY <1>2 DEF LockInv, Copies
<1>4. ASSUME NEW a \in Addresses PROVE Counted(a)'
  <2>1. Counted(a)
    BY DEF LockInv
  <2>2. History(judged[a], clock')
    BY <2>1, <1>1, HistoryAges DEF Counted
  <2>3. ~stopping => Keeps(attempts[a], judged[a], clock', Lockout)
    BY <2>1, <1>1, KeepsAges DEF Counted, History
  <2> QED BY <2>1, <2>2, <2>3, <1>2 DEF Counted
<1> QED BY <1>2, <1>3, <1>4 DEF LockInv

(* A step that leaves the counting alone keeps it, and one that starts anew. *)
LEMMA CountingStays ==
    ASSUME LockInv, UNCHANGED <<attempts, judged, clock>>, stopping' \in BOOLEAN,
           cut' \in BOOLEAN, Copies', stopping => stopping'
    PROVE  LockInv'
BY DEF LockInv, Counted

(* An address that was never counted starts with an empty list.             *)
LEMMA CountingStarts ==
    ASSUME LockInv, Lock!Down, cut' \in BOOLEAN, Copies'
    PROVE  LockInv'
<1>1. Lockout \in Nat /\ MaxAttempts \in Nat /\ clock \in Nat
  BY DoorsAssumption DEF Lock!LockAssumption, LockInv
<1>2. /\ clock' = clock /\ stopping' = FALSE
      /\ attempts' = [a \in Addresses |-> {}] /\ judged' = attempts'
  BY DEF Lock!Down, Lock!bounds
<1>3. ASSUME NEW a \in Addresses PROVE Counted(a)'
  <2>1. judged'[a] = {} /\ attempts'[a] = {}
    BY <1>2
  <2> QED BY <2>1, <1>1, <1>2, NoHistory DEF Counted
<1> QED BY <1>1, <1>2, <1>3 DEF LockInv

(* _check_lockout only drops what is older than the lockout.                *)
LEMMA RefuseTooManyStep ==
    ASSUME LockInv, NEW a \in Addresses, Lock!RefuseTooMany(a)
    PROVE  LockInv'
<1>1. Lockout \in Nat /\ clock \in Nat
  BY DoorsAssumption DEF Lock!LockAssumption, LockInv
<1>2. /\ file' = file /\ hash' = hash /\ at' = at /\ cut' = cut /\ known' = known
      /\ stopping' = stopping /\ judged' = judged /\ clock' = clock
      /\ attempts' = [attempts EXCEPT ![a] = Within(attempts[a], clock, Lockout)]
  BY LockWindow DEF Lock!RefuseTooMany, Lock!Recent, Lock!memory, Lock!bounds, Lock!user
<1>3. ASSUME NEW b \in Addresses PROVE Counted(b)'
  <2>1. Counted(b)
    BY DEF LockInv
  <2>2. CASE b # a
    BY <2>1, <2>2, <1>2 DEF Counted, LockInv
  <2>3. CASE b = a
    <3>1. attempts'[b] = Within(attempts[b], clock, Lockout)
      BY <2>3, <1>2 DEF LockInv
    <3>2. attempts'[b] \in SUBSET Mark
      BY <3>1, <2>1 DEF Counted, Within
    <3>3. ~stopping => Keeps(attempts'[b], judged[b], clock, Lockout)
      BY <3>1, <2>1, <1>1, KeepsPruned DEF Counted
    <3> QED BY <2>1, <3>2, <3>3, <1>2 DEF Counted
  <2> QED BY <2>2, <2>3
<1>4. Copies'
  BY <1>2 DEF LockInv, Copies
<1>5. attempts' \in [Addresses -> SUBSET Mark]
  BY <1>2 DEF LockInv, Within
<1> QED BY <1>2, <1>3, <1>4, <1>5 DEF LockInv

(* A wrong password is judged, and counted, where the last period had room. *)
LEMMA RefuseShutdownStep ==
    ASSUME LockInv, NEW a \in Addresses, NEW p,
           Lock!RefuseShutdown(a, p)
    PROVE  LockInv'
<1> DEFINE new == NewMark(judged[a], clock)
           recent == Within(attempts[a], clock, Lockout)
<1>1. Lockout \in Nat /\ MaxAttempts \in Nat /\ clock \in Nat
  BY DoorsAssumption DEF Lock!LockAssumption, LockInv
<1>2. /\ file' = file /\ hash' = hash /\ at' = at /\ cut' = cut /\ known' = known
      /\ stopping' = stopping /\ ~stopping /\ clock' = clock
      /\ attempts' = [attempts EXCEPT ![a] = recent \cup {new}]
      /\ judged' = [judged EXCEPT ![a] = judged[a] \cup {new}]
      /\ ~(Cardinality(recent) >= MaxAttempts)
  BY LockWindow DEF Lock!RefuseShutdown, Lock!LockedOut, Lock!Recent, Lock!memory, Lock!bounds, Lock!user
<1>3. /\ History(judged[a], clock) /\ AtMost(MaxAttempts, judged[a], Lockout)
      /\ Keeps(attempts[a], judged[a], clock, Lockout)
  BY <1>2 DEF LockInv, Counted
<1>4. recent = Within(judged[a], clock, Lockout) /\ IsFiniteSet(judged[a])
  BY <1>3 DEF Keeps, History
<1>5. Cardinality(recent) \in Nat
  BY <1>4, FS_Subset, FS_CardinalityType DEF Within
<1>6. new \in Mark
  BY <1>3, <1>1, NewMarkIsNew
<1>7. History(judged[a] \cup {new}, clock)
  BY <1>3, <1>1, HistoryGrows
<1>8. AtMost(MaxAttempts, judged[a] \cup {new}, Lockout)
  BY <1>1, <1>2, <1>3, <1>4, <1>5, LimitKept
<1>9. Keeps(recent \cup {new}, judged[a] \cup {new}, clock, Lockout)
  BY <1>1, <1>3, KeepsNew
<1> HIDE DEF new
<1>10. recent \cup {new} \in SUBSET Mark /\ judged[a] \cup {new} \in SUBSET Mark
  BY <1>6, <1>3 DEF LockInv, Within, History
<1> HIDE DEF recent
<1>11. ASSUME NEW b \in Addresses PROVE Counted(b)'
  <2>1. CASE b # a
    BY <2>1, <1>2 DEF Counted, LockInv
  <2>2. CASE b = a
    <3>1. attempts'[b] = recent \cup {new} /\ judged'[b] = judged[a] \cup {new}
      BY <2>2, <1>2 DEF LockInv
    <3> QED BY <3>1, <1>2, <1>7, <1>8, <1>9, <1>10 DEF Counted
  <2> QED BY <2>1, <2>2
<1>12. Copies'
  BY <1>2 DEF LockInv, Copies
<1>13. attempts' \in [Addresses -> SUBSET Mark] /\ judged' \in [Addresses -> SUBSET Mark]
  BY <1>2, <1>10 DEF LockInv
<1> QED BY <1>2, <1>11, <1>12, <1>13 DEF LockInv

(* The right one empties the list; judged are the wrong ones.               *)
LEMMA ShutdownStep ==
    ASSUME LockInv, NEW a \in Addresses, Lock!Shutdown(a)
    PROVE  LockInv'
<1>1. /\ file' = file /\ hash' = hash /\ at' = at /\ cut' = cut /\ known' = known
      /\ stopping' = TRUE /\ clock' = clock /\ judged' = judged
      /\ attempts' = [attempts EXCEPT ![a] = {}]
  BY DEF Lock!Shutdown, Lock!bounds, Lock!user
<1>2. Copies'
  BY <1>1 DEF LockInv, Copies
<1>3. attempts' \in [Addresses -> SUBSET Mark]
  BY <1>1 DEF LockInv
<1> QED BY <1>1, <1>2, <1>3 DEF LockInv, Counted

(* Every other step of the lock leaves the counting alone, or starts it anew. *)
LEMMA LockStep == ASSUME LockInv, Lock!Next PROVE LockInv'
<1> USE DEF Lock!memory, Lock!bounds, Lock!user
<1>1. CASE Lock!Start
  <2>1. UNCHANGED <<attempts, judged, clock, stopping, cut>> /\ Copies'
    BY <1>1 DEF Lock!Start, Copies, LockInv
  <2> QED BY <2>1, CountingStays DEF LockInv
<1>2. CASE Lock!Load
  <2>1. UNCHANGED <<attempts, judged, clock, stopping, cut>> /\ Copies'
    BY <1>2 DEF Lock!Load, Copies, LockInv
  <2> QED BY <2>1, CountingStays DEF LockInv
<1>3. CASE Lock!Install
  <2>1. UNCHANGED <<attempts, judged, clock, stopping, cut>> /\ Copies'
    BY <1>3 DEF Lock!Install, Copies, LockInv
  <2> QED BY <2>1, CountingStays DEF LockInv
<1>4. CASE Lock!Truncate
  <2>1. UNCHANGED <<attempts, judged, clock, stopping>> /\ cut' \in BOOLEAN /\ Copies'
    BY <1>4 DEF Lock!Truncate, Lock!WriteTo, Lock!Works, Lock!Fails, Copies, LockInv
  <2> QED BY <2>1, CountingStays DEF LockInv
<1>5. CASE Lock!Write
  <2>1. UNCHANGED <<attempts, judged, clock, stopping>> /\ cut' \in BOOLEAN /\ Copies'
    BY <1>5 DEF Lock!Write, Lock!WriteTo, Lock!Works, Lock!Fails, Copies, LockInv
  <2> QED BY <2>1, CountingStays DEF LockInv
<1>6. CASE Lock!Tell
  <2>1. UNCHANGED <<attempts, judged, clock, stopping>> /\ cut' \in BOOLEAN /\ Copies'
    BY <1>6 DEF Lock!Tell, Copies, LockInv
  <2> QED BY <2>1, CountingStays DEF LockInv
<1>7. ASSUME NEW p \in Passwords, Lock!Generate(p) \/ Lock!RefusePut(p) \/ Lock!BeginPut(p)
      PROVE  LockInv'
  <2>1. UNCHANGED <<attempts, judged, clock, stopping, cut>> /\ Copies'
    BY <1>7 DEF Lock!Generate, Lock!RefusePut, Lock!BeginPut, Copies, LockInv
  <2> QED BY <2>1, CountingStays DEF LockInv
<1>8. CASE Lock!SetPassword
  <2>1. UNCHANGED <<attempts, judged, clock, stopping, cut>> /\ Copies'
    BY <1>8 DEF Lock!SetPassword, Copies, LockInv
  <2> QED BY <2>1, CountingStays DEF LockInv
<1>9. CASE Lock!Signal
  <2>1. UNCHANGED <<attempts, judged, clock, cut>> /\ stopping' = TRUE /\ Copies'
    BY <1>9 DEF Lock!Signal, Copies, LockInv
  <2> QED BY <2>1, CountingStays DEF LockInv
<1>10. CASE Lock!Exit
  <2>1. Lock!Down /\ cut' \in BOOLEAN /\ Copies'
    BY <1>10 DEF Lock!Exit, Lock!Down, Copies, LockInv
  <2> QED BY <2>1, CountingStarts
<1>11. CASE Lock!Crash
  <2>1. Lock!Down /\ cut' \in BOOLEAN /\ Copies'
    BY <1>11 DEF Lock!Crash, Lock!Down, Copies, LockInv
  <2> QED BY <2>1, CountingStarts
<1>12. CASE Lock!Tick
  <2>1. UNCHANGED lockVars /\ clock' \in Nat /\ clock <= clock'
    BY <1>12 DEF Lock!Tick, lockVars, LockInv
  <2> QED BY <2>1, LockAges
<1> QED BY <1>1, <1>2, <1>3, <1>4, <1>5, <1>6, <1>7, <1>8, <1>9, <1>10, <1>11, <1>12,
           RefuseTooManyStep, RefuseShutdownStep, ShutdownStep DEF Lock!Next

-----------------------------------------------------------------------------
(* The consent notifier *)

(* A client at the other end of an open socket is registered; what is       *)
(* registered, served or found dead was opened; who is dead has left.       *)
Registered ==
    /\ \A c \in present : socket[c] \in {"accepted", "open"}
    /\ \A c \in present : socket[c] = "open" => c \in connections
    /\ \A c \in connections \cup listed : socket[c] \in {"open", "closed"}
    /\ \A r \in Requests : \A c \in targets[r] : socket[c] \in {"open", "closed"}
    /\ \A r \in Requests : \A c \in dead[r] : socket[c] \in {"open", "closed"} /\ c \notin present

(* What a client does not know yet is on its way to it.                     *)
OnItsWay ==
    \A c \in listed \cap present : \A r \in pending \ silent :
        r \in seen[c] \/ r \in notices \/ (r \in sending /\ c \in targets[r])

NotifierTypes ==
    /\ socket \in [Clients -> {"new", "accepted", "open", "closed"}]
    /\ connections \in SUBSET Clients /\ present \in SUBSET Clients
    /\ listed \in SUBSET Clients
    /\ targets \in [Requests -> SUBSET Clients] /\ dead \in [Requests -> SUBSET Clients]
    /\ seen \in [Clients -> SUBSET Requests]
    /\ pending \in SUBSET Requests /\ notices \in SUBSET Requests
    /\ sending \in SUBSET Requests /\ raised \in SUBSET Requests
    /\ pending \cup notices \cup silent \subseteq raised

NotifierInv == NotifierTypes /\ Registered /\ OnItsWay

(* No dashboard is connected.                                               *)
LEMMA NotifierInit == Notifier!Init => NotifierInv
BY DEF Notifier!Init, NotifierInv, NotifierTypes, Registered, OnItsWay

(* What a dashboard sees before it has listed the requests is no promise.   *)
LEMMA ConnectStep ==
    ASSUME NotifierInv, NEW c \in Clients,
           Notifier!Accept(c) \/ Notifier!Register(c)
    PROVE  NotifierInv'
<1> USE DEF Notifier!tasks, Notifier!ends, Notifier!views
<1>1. NotifierTypes'
  BY DEF NotifierInv, NotifierTypes, Notifier!Accept, Notifier!Register
<1>2. Registered'
  BY DEF NotifierInv, NotifierTypes, Registered, Notifier!Accept, Notifier!Register
<1>3. OnItsWay'
  BY DEF NotifierInv, NotifierTypes, Registered, OnItsWay, Notifier!Accept, Notifier!Register
<1> QED BY <1>1, <1>2, <1>3 DEF NotifierInv

(* A dashboard that leaves is owed nothing.                                 *)
LEMMA LeaveStep ==
    ASSUME NotifierInv, NEW c \in Clients,
           Notifier!Leave(c) \/ Notifier!Disconnect(c)
    PROVE  NotifierInv'
<1> USE DEF Notifier!tasks, Notifier!ends, Notifier!views
<1>1. NotifierTypes'
  BY DEF NotifierInv, NotifierTypes, Notifier!Leave, Notifier!Disconnect
<1>2. Registered'
  BY DEF NotifierInv, NotifierTypes, Registered, Notifier!Leave, Notifier!Disconnect
<1>3. OnItsWay'
  BY DEF NotifierInv, NotifierTypes, OnItsWay, Notifier!Leave, Notifier!Disconnect
<1> QED BY <1>1, <1>2, <1>3 DEF NotifierInv

(* A listing shows what is pending; notices of it are still to be raised or *)
(* under way.                                                               *)
LEMMA ListStep ==
    ASSUME NotifierInv, NEW c \in Clients, Notifier!List(c)
    PROVE  NotifierInv'
<1> USE DEF Notifier!tasks, Notifier!ends, Notifier!views
<1>1. NotifierTypes'
  BY DEF NotifierInv, NotifierTypes, Notifier!List
<1>2. Registered'
  BY DEF NotifierInv, NotifierTypes, Registered, Notifier!List
<1>3. OnItsWay'
  <2>1. /\ pending' = pending /\ silent' = silent /\ notices' = notices
        /\ sending' = sending /\ targets' = targets /\ present' = present
        /\ listed' = listed \cup {c}
        /\ seen' = [seen EXCEPT ![c] = seen[c] \cup pending]
    BY DEF Notifier!List
  <2>2. seen'[c] = seen[c] \cup pending /\ \A d \in Clients \ {c} : seen'[d] = seen[d]
    BY <2>1 DEF NotifierInv, NotifierTypes
  <2> QED BY <2>1, <2>2 DEF NotifierInv, NotifierTypes, OnItsWay
<1> QED BY <1>1, <1>2, <1>3 DEF NotifierInv

(* A request is pending and its notice on its way at once.                  *)
LEMMA RaiseStep ==
    ASSUME NotifierInv, NEW r \in Requests,
           Notifier!Raise(r) \/ Notifier!RaiseInThread(r) \/ Notifier!Respond(r)
    PROVE  NotifierInv'
<1> USE DEF Notifier!tasks, Notifier!ends, Notifier!views
<1>1. NotifierTypes'
  BY DEF NotifierInv, NotifierTypes, Notifier!Raise, Notifier!RaiseInThread, Notifier!Respond
<1>2. Registered'
  BY DEF NotifierInv, Registered, Notifier!Raise, Notifier!RaiseInThread, Notifier!Respond
<1>3. OnItsWay'
  BY DEF NotifierInv, NotifierTypes, OnItsWay, Notifier!Raise, Notifier!RaiseInThread,
         Notifier!Respond
<1> QED BY <1>1, <1>2, <1>3 DEF NotifierInv

(* A broadcast takes a notice from the list to the targets connected.       *)
LEMMA NotifyStep ==
    ASSUME NotifierInv, NEW r \in Requests, Notifier!Notify(r)
    PROVE  NotifierInv'
<1> USE DEF Notifier!tasks, Notifier!ends, Notifier!views
<1>1. /\ notices' = notices \ {r} /\ connections' = connections
      /\ socket' = socket /\ present' = present /\ dead' = dead
      /\ pending' = pending /\ silent' = silent /\ raised' = raised
      /\ seen' = seen /\ listed' = listed
      /\ sending' = IF connections = {} THEN sending ELSE sending \cup {r}
      /\ targets' = [targets EXCEPT ![r] = connections]
  BY DEF Notifier!Notify
<1>2. targets'[r] = connections /\ \A q \in Requests \ {r} : targets'[q] = targets[q]
  BY <1>1 DEF NotifierInv, NotifierTypes
<1>3. NotifierTypes'
  BY <1>1 DEF NotifierInv, NotifierTypes
<1>4. Registered'
  BY <1>1, <1>2 DEF NotifierInv, Registered
<1>5. ASSUME NEW c \in listed \cap present PROVE c \in connections
  BY DEF NotifierInv, Registered
<1>6. OnItsWay'
  BY <1>1, <1>2, <1>5 DEF NotifierInv, NotifierTypes, OnItsWay
<1> QED BY <1>3, <1>4, <1>6 DEF NotifierInv

(* Each target is sent the notice or is dead.                               *)
LEMMA SendStep ==
    ASSUME NotifierInv, NEW r \in Requests, NEW c \in Clients, Notifier!Send(r, c)
    PROVE  NotifierInv'
<1> USE DEF Notifier!tasks, Notifier!ends, Notifier!views
<1>1. /\ notices' = notices /\ connections' = connections /\ sending' = sending
      /\ socket' = socket /\ present' = present /\ pending' = pending
      /\ silent' = silent /\ raised' = raised /\ listed' = listed
      /\ targets' = [targets EXCEPT ![r] = targets[r] \ {c}]
      /\ c \in targets[r]
  BY DEF Notifier!Send
<1>2. \/ c \notin present /\ dead' = dead /\ seen' = seen
      \/ /\ c \in present /\ dead' = dead
         /\ seen' = [seen EXCEPT ![c] = seen[c] \cup {r}]
      \/ /\ c \notin present /\ seen' = seen
         /\ dead' = [dead EXCEPT ![r] = dead[r] \cup {c}]
  BY DEF Notifier!Send, NotifierInv, Registered
<1>3. /\ targets'[r] = targets[r] \ {c}
      /\ \A q \in Requests \ {r} : targets'[q] = targets[q]
  BY <1>1 DEF NotifierInv, NotifierTypes
<1>4. \A q \in Requests : \A d \in dead'[q] : d \in dead[q] \/ (d = c /\ c \notin present)
  BY <1>2 DEF NotifierInv, NotifierTypes
<1>5. \A d \in Clients : seen[d] \subseteq seen'[d] /\ (d = c /\ c \in present => r \in seen'[d])
  BY <1>2 DEF NotifierInv, NotifierTypes
<1>6. NotifierTypes'
  <2>1. dead' \in [Requests -> SUBSET Clients] /\ seen' \in [Clients -> SUBSET Requests]
    BY <1>2 DEF NotifierInv, NotifierTypes
  <2>2. targets' \in [Requests -> SUBSET Clients]
    BY <1>1 DEF NotifierInv, NotifierTypes
  <2> QED BY <1>1, <2>1, <2>2 DEF NotifierInv, NotifierTypes
<1>7. Registered'
  BY <1>1, <1>3, <1>4 DEF NotifierInv, Registered
<1>8. OnItsWay'
  <2> SUFFICES ASSUME NEW d \in listed \cap present, NEW q \in pending \ silent
               PROVE  \/ q \in seen'[d] \/ q \in notices
                      \/ (q \in sending /\ d \in targets'[q])
    BY <1>1 DEF OnItsWay
  <2>1. q \in seen[d] \/ q \in notices \/ (q \in sending /\ d \in targets[q])
    BY DEF NotifierInv, OnItsWay
  <2>2. d \in Clients /\ q \in Requests
    BY DEF NotifierInv, NotifierTypes
  <2> QED BY <2>1, <2>2, <1>3, <1>5
<1> QED BY <1>6, <1>7, <1>8 DEF NotifierInv

(* Only dead targets are pruned at the end of a broadcast.                  *)
LEMMA PruneStep ==
    ASSUME NotifierInv, NEW r \in Requests, Notifier!Prune(r)
    PROVE  NotifierInv'
<1> USE DEF Notifier!tasks, Notifier!ends, Notifier!views
<1>1. NotifierTypes'
  BY DEF NotifierInv, NotifierTypes, Notifier!Prune
<1>2. Registered'
  BY DEF NotifierInv, Registered, Notifier!Prune
<1>3. OnItsWay'
  BY DEF NotifierInv, OnItsWay, Notifier!Prune
<1> QED BY <1>1, <1>2, <1>3 DEF NotifierInv

(* Every step of the notifier keeps what a dashboard does not know on its   *)
(* way.                                                                     *)
LEMMA NotifierStep == NotifierInv /\ Notifier!Next => NotifierInv'
<1>1. pending \subseteq Requests \/ ~NotifierInv
  BY DEF NotifierInv, NotifierTypes
<1> QED BY <1>1, ConnectStep, LeaveStep, ListStep, RaiseStep, NotifyStep, SendStep, PruneStep
    DEF Notifier!Next

(* And none of another service touches it.                                  *)
LEMMA NotifierStays ==
    NotifierInv /\ UNCHANGED notifierVars => NotifierInv'
BY DEF NotifierInv, NotifierTypes, Registered, OnItsWay, notifierVars

-----------------------------------------------------------------------------
(* The control bridge *)

(* The window of the bridge and of the connector is that of SlidingWindow.  *)
LEMMA BridgeWindow ==
    /\ Bridge!Mark = Mark
    /\ \A h, time : Bridge!NewMark(h, time) = NewMark(h, time)
    /\ \A m, time, period : Bridge!Within(m, time, period) = Within(m, time, period)
    /\ \A limit, h, period : Bridge!AtMost(limit, h, period) = AtMost(limit, h, period)
    /\ \A S : Bridge!Cardinality(S) = Cardinality(S)
<1>1. Bridge!Mark = Mark
  BY DEF Bridge!Mark, Mark
<1>2. \A S : Bridge!Cardinality(S) = Cardinality(S)
  <2>1. ASSUME NEW S PROVE Bridge!Cardinality(S) = Cardinality(S)
    BY DEF Bridge!Cardinality, Cardinality
  <2> QED BY <2>1
<1>3. ASSUME NEW h, NEW time PROVE Bridge!NewMark(h, time) = NewMark(h, time)
  BY <1>2 DEF Bridge!NewMark, NewMark
<1>4. ASSUME NEW m, NEW time, NEW period
      PROVE  Bridge!Within(m, time, period) = Within(m, time, period)
  BY DEF Bridge!Within, Within
<1>5. ASSUME NEW limit, NEW h, NEW period
      PROVE  Bridge!AtMost(limit, h, period) = AtMost(limit, h, period)
  BY <1>2 DEF Bridge!AtMost, AtMost
<1> QED BY <1>1, <1>2, <1>3, <1>4, <1>5

LineBefore(c) ==
    /\ job[c][1] = "mcp" => <<c, "mcp_request">> \in logged \cup lost
    /\ job[c][1] = "llm" => <<c, "llm_request">> \in logged \cup lost

(* What the host has, or will have, was taken in and logged.                *)
CallsInv ==
    /\ stage \in [Calls -> {"new", "sent", "done"}]
    /\ job = [c \in Calls |-> job[c]]
    /\ inbox \in SUBSET Calls /\ reached \in SUBSET Calls
    /\ \A c \in inbox \cup reached : stage[c] # "new" /\ LineBefore(c)

(* The log of the calls is kept by what leaves calls, log and inbox alone.  *)
LEMMA CallsStay ==
    ASSUME CallsInv, stage' \in [Calls -> {"new", "sent", "done"}],
           \A c \in Calls : stage[c] # "new" => stage'[c] # "new",
           job' = job, inbox' \subseteq inbox, reached' \subseteq inbox \cup reached,
           logged \subseteq logged', lost \subseteq lost'
    PROVE  CallsInv'
BY DEF CallsInv, LineBefore

(* Another line in the log takes none away.                                 *)
LEMMA LogAdds ==
    ASSUME NEW c, NEW lines, Bridge!Log(c, lines)
    PROVE  /\ logged \subseteq logged' /\ lost \subseteq lost'
           /\ \A i \in DOMAIN lines : <<c, lines[i]>> \in logged' \cup lost'
BY DEF Bridge!Log

LEMMA BreakAdds ==
    ASSUME NEW c, NEW lines, Bridge!BreaksOff(c, lines)
    PROVE  logged \subseteq logged' /\ lost \subseteq lost'
BY DEF Bridge!BreaksOff

(* A call that is done stays taken in.                                      *)
LEMMA DoneStays ==
    ASSUME CallsInv, NEW c \in Calls, Bridge!Done(c),
           job' = job, inbox' \subseteq inbox, reached' = reached,
           logged \subseteq logged', lost \subseteq lost'
    PROVE  CallsInv'
<1>1. /\ stage' \in [Calls -> {"new", "sent", "done"}]
      /\ \A d \in Calls : stage[d] # "new" => stage'[d] # "new"
  BY DEF Bridge!Done, CallsInv
<1> QED BY <1>1, CallsStay

(* Steps at the end of a call take no line out of the log.                  *)
LEMMA EndStays ==
    ASSUME CallsInv, NEW c \in Calls, NEW lines, Bridge!End(c, lines),
           job' = job, inbox' \subseteq inbox, reached' = reached
    PROVE  CallsInv'
<1> DEFINE all == Append(lines, "http_request")
<1>1. Bridge!Done(c) /\ (Bridge!Log(c, all) \/ Bridge!BreaksOff(c, all))
  BY DEF Bridge!End
<1> HIDE DEF all
<1>2. logged \subseteq logged' /\ lost \subseteq lost'
  BY <1>1, LogAdds, BreakAdds
<1> QED BY <1>1, <1>2, DoneStays

(* An answer of the bridge itself is logged and forwards nothing.           *)
LEMMA AnswerStays ==
    ASSUME CallsInv, NEW c \in Calls, NEW lines, Bridge!Answer(c, lines)
    PROVE  CallsInv' /\ UNCHANGED <<passed, times, clock>>
BY EndStays DEF Bridge!Answer, Bridge!host

(* What is forwarded is logged, if it is a tool's or a chat's; a call whose  *)
(* log cannot be written at all is not forwarded.                           *)
LEMMA ForwardStays ==
    ASSUME CallsInv, NEW c \in Calls, NEW what, NEW lines,
           Bridge!Forward(c, what, lines),
           what[1] = "mcp" => \E i \in DOMAIN lines : lines[i] = "mcp_request",
           what[1] = "llm" => \E i \in DOMAIN lines : lines[i] = "llm_request"
    PROVE  CallsInv' /\ UNCHANGED <<times, clock>>
<1> DEFINE sent ==
         /\ Bridge!Log(c, lines)
         /\ job' = [job EXCEPT ![c] = what] /\ stage' = [stage EXCEPT ![c] = "sent"]
         /\ inbox' = inbox \cup {c}
<1>0. /\ stage[c] = "new" /\ reached' = reached /\ UNCHANGED <<times, clock>>
      /\ sent \/ (Bridge!BreaksOff(c, lines) /\ Bridge!Done(c) /\ UNCHANGED <<job, inbox>>)
  BY DEF Bridge!Forward, Bridge!Asks
<1> SUFFICES ASSUME sent PROVE CallsInv'
  BY <1>0, BreakAdds, DoneStays
<1>1. /\ stage[c] = "new"
      /\ job' = [job EXCEPT ![c] = what] /\ stage' = [stage EXCEPT ![c] = "sent"]
      /\ inbox' = inbox \cup {c} /\ reached' = reached
  BY <1>0
<1>2. /\ logged \subseteq logged' /\ lost \subseteq lost'
      /\ \A i \in DOMAIN lines : <<c, lines[i]>> \in logged' \cup lost'
  BY LogAdds
<1> HIDE DEF sent
<1>3. c \notin inbox \cup reached
  BY <1>1 DEF CallsInv
<1>4. /\ stage' \in [Calls -> {"new", "sent", "done"}] /\ inbox' \in SUBSET Calls
      /\ job' = [d \in Calls |-> job'[d]] /\ job'[c] = what
      /\ \A d \in Calls \ {c} : job'[d] = job[d]
      /\ \A d \in Calls : stage[d] # "new" => stage'[d] # "new"
      /\ stage'[c] # "new"
  BY <1>1 DEF CallsInv
<1>5. LineBefore(c)'
  BY <1>2, <1>4 DEF LineBefore
<1>6. ASSUME NEW d \in inbox' \cup reached' PROVE stage'[d] # "new" /\ LineBefore(d)'
  <2>1. CASE d = c
    BY <2>1, <1>4, <1>5
  <2>2. CASE d # c
    <3>1. d \in inbox \cup reached /\ d \in Calls \ {c}
      BY <2>2, <1>1 DEF CallsInv
    <3> QED BY <3>1, <1>2, <1>4 DEF CallsInv, LineBefore
  <2> QED BY <2>1, <2>2
<1> QED BY <1>1, <1>4, <1>6 DEF CallsInv

(* A limited service, and the connector.                                    *)
ServiceWithin(s) ==
    /\ History(passed[s], clock) /\ Keeps(counters[s], passed[s], clock, Day)
    /\ AtMost(PerHour, passed[s], Hour) /\ AtMost(PerDay, passed[s], Day)

ConnectorWithin ==
    /\ History(passed["connector"], clock)
    /\ Keeps(times, passed["connector"], clock, Minute)
    /\ AtMost(PerMinute, passed["connector"], Minute)

RatesInv ==
    /\ clock \in Nat
    /\ passed \in [Services \cup {"connector"} -> SUBSET Mark]
    /\ counters \in [Services -> SUBSET Mark]
    /\ \A s \in Services : ServiceWithin(s)
    /\ ConnectorWithin

RatesNat ==
    /\ Hour \in Nat /\ Day \in Nat /\ Minute \in Nat /\ Hour <= Day
    /\ PerHour \in Nat /\ PerDay \in Nat /\ PerMinute \in Nat
    /\ "connector" \notin Services

(* The limits and their periods are numbers, the hour no longer than the    *)
(* day.                                                                     *)
LEMMA RatesAreNat == RatesNat
BY DoorsAssumption DEF Bridge!BridgeAssumption, RatesNat

(* The counts are kept by what leaves them and the clock alone.             *)
LEMMA RatesStay ==
    RatesInv /\ UNCHANGED <<passed, counters, times, clock>> => RatesInv'
BY DEF RatesInv, ServiceWithin, ConnectorWithin

(* And by the clock as it goes on.                                          *)
LEMMA RatesAge ==
    ASSUME RatesNat, RatesInv, UNCHANGED <<passed, counters, times>>,
           clock' \in Nat, clock <= clock'
    PROVE  RatesInv'
<1>1. clock \in Nat
  BY DEF RatesInv
<1>2. ASSUME NEW s \in Services PROVE ServiceWithin(s)'
  <2>1. ServiceWithin(s)
    BY DEF RatesInv
  <2>2. History(passed[s], clock')
    BY <2>1, <1>1, HistoryAges DEF ServiceWithin
  <2>3. Keeps(counters[s], passed[s], clock', Day)
    BY <2>1, <1>1, KeepsAges DEF ServiceWithin, History, RatesNat
  <2> QED BY <2>1, <2>2, <2>3 DEF ServiceWithin
<1>3. ConnectorWithin'
  <2>1. ConnectorWithin
    BY DEF RatesInv
  <2>2. History(passed["connector"], clock')
    BY <2>1, <1>1, HistoryAges DEF ConnectorWithin
  <2>3. Keeps(times, passed["connector"], clock', Minute)
    BY <2>1, <1>1, KeepsAges DEF ConnectorWithin, History, RatesNat
  <2> QED BY <2>1, <2>2, <2>3 DEF ConnectorWithin
<1> QED BY <1>2, <1>3 DEF RatesInv

(* A refused request is counted nowhere; the list of a day keeps the hour   *)
(* too.                                                                     *)
LEMMA LimitProxyStep ==
    ASSUME RatesNat, RatesInv, NEW c, NEW s \in Services, Bridge!LimitProxy(c, s)
    PROVE  RatesInv'
<1>1. /\ counters' = [counters EXCEPT ![s] = Within(counters[s], clock, Day)]
      /\ UNCHANGED <<passed, times, clock>>
  BY BridgeWindow DEF Bridge!LimitProxy, Bridge!Answer, Bridge!host, Bridge!Kept
<1>2. ASSUME NEW r \in Services PROVE ServiceWithin(r)'
  <2>1. ServiceWithin(r) /\ clock \in Nat
    BY DEF RatesInv
  <2>2. counters'[r] = counters[r] \/ counters'[r] = Within(counters[r], clock, Day)
    BY <1>1 DEF RatesInv
  <2>3. Keeps(counters'[r], passed[r], clock, Day)
    BY <2>1, <2>2, KeepsPruned DEF ServiceWithin, RatesNat
  <2> QED BY <2>1, <2>3, <1>1 DEF ServiceWithin
<1>3. counters' \in [Services -> SUBSET Mark]
  BY <1>1 DEF RatesInv, Within
<1> QED BY <1>1, <1>2, <1>3 DEF RatesInv, ConnectorWithin

(* A request of a limited service is counted when neither limit is reached. *)
LEMMA CountStep ==
    ASSUME RatesNat, RatesInv, NEW s \in Services, ~Bridge!Exceeded(s),
           counters' = [counters EXCEPT ![s] = Bridge!Kept(s) \cup {Bridge!NewMark(passed[s], clock)}],
           passed' = [passed EXCEPT ![s] = passed[s] \cup {Bridge!NewMark(passed[s], clock)}],
           UNCHANGED <<times, clock>>
    PROVE  RatesInv'
<1> DEFINE new == NewMark(passed[s], clock)
           kept == Within(counters[s], clock, Day)
<1>1. /\ counters' = [counters EXCEPT ![s] = kept \cup {new}]
      /\ passed' = [passed EXCEPT ![s] = passed[s] \cup {new}]
      /\ ~(Cardinality(Within(kept, clock, Hour)) >= PerHour)
      /\ ~(Cardinality(kept) >= PerDay)
  BY BridgeWindow DEF Bridge!Exceeded, Bridge!Kept
<1>2. ServiceWithin(s) /\ clock \in Nat
  BY DEF RatesInv
<1>3. /\ Hour \in Nat /\ Day \in Nat /\ Hour <= Day /\ PerHour \in Nat /\ PerDay \in Nat
  BY DEF RatesNat
<1>4. /\ History(passed[s], clock) /\ Keeps(counters[s], passed[s], clock, Day)
      /\ passed[s] \in SUBSET Mark /\ IsFiniteSet(passed[s])
  BY <1>2 DEF ServiceWithin, History
<1>5. kept = Within(passed[s], clock, Day)
  BY <1>4 DEF Keeps
<1>6. Within(kept, clock, Hour) = Within(passed[s], clock, Hour)
  BY <1>2, <1>3, <1>4, KeepsForLess
<1>7. /\ Cardinality(Within(passed[s], clock, Hour)) \in Nat
      /\ Cardinality(Within(passed[s], clock, Day)) \in Nat
  BY <1>4, FS_Subset, FS_CardinalityType DEF Within
<1>8. new \in Mark
  BY <1>2, <1>4, NewMarkIsNew
<1>9. History(passed[s] \cup {new}, clock)
  BY <1>2, <1>4, HistoryGrows
<1>10. Keeps(kept \cup {new}, passed[s] \cup {new}, clock, Day)
  BY <1>2, <1>3, <1>4, KeepsNew
<1>11. AtMost(PerHour, passed[s] \cup {new}, Hour)
  <2>1. Cardinality(Within(passed[s], clock, Hour)) < PerHour
    BY <1>1, <1>3, <1>6, <1>7
  <2> QED BY <2>1, <1>2, <1>3, <1>4, LimitKept DEF ServiceWithin
<1>12. AtMost(PerDay, passed[s] \cup {new}, Day)
  <2>1. Cardinality(Within(passed[s], clock, Day)) < PerDay
    BY <1>1, <1>3, <1>5, <1>7
  <2> QED BY <2>1, <1>2, <1>3, <1>4, LimitKept DEF ServiceWithin
<1>13. kept \cup {new} \in SUBSET Mark /\ passed[s] \cup {new} \in SUBSET Mark
  BY <1>4, <1>5, <1>8 DEF Within
<1> HIDE DEF new, kept
<1>14. ASSUME NEW r \in Services PROVE ServiceWithin(r)'
  <2>1. CASE r = s
    <3>1. counters'[r] = kept \cup {new} /\ passed'[r] = passed[s] \cup {new}
      BY <2>1, <1>1 DEF RatesInv
    <3> QED BY <3>1, <1>9, <1>10, <1>11, <1>12 DEF ServiceWithin
  <2>2. CASE r # s
    <3>1. counters'[r] = counters[r] /\ passed'[r] = passed[r]
      BY <2>2, <1>1 DEF RatesInv
    <3> QED BY <3>1 DEF ServiceWithin, RatesInv
  <2> QED BY <2>1, <2>2
<1>15. passed'["connector"] = passed["connector"]
  BY <1>1 DEF RatesInv, RatesNat
<1>16. ConnectorWithin'
  BY <1>15 DEF RatesInv, ConnectorWithin
<1>17. /\ passed' \in [Services \cup {"connector"} -> SUBSET Mark]
       /\ counters' \in [Services -> SUBSET Mark]
  BY <1>1, <1>13 DEF RatesInv
<1> QED BY <1>14, <1>16, <1>17 DEF RatesInv

(* A request that passes both limits of its service is counted once.        *)
LEMMA ProxyRequestStep ==
    ASSUME RatesNat, RatesInv, CallsInv, NEW c \in Calls, NEW u \in Bridge!Urls,
           Bridge!ProxyRequest(c, u)
    PROVE  RatesInv' /\ CallsInv'
<1>1. CallsInv' /\ UNCHANGED <<times, clock>>
  <2>1. Bridge!Forward(c, <<"proxy">>, <<>>)
    BY DEF Bridge!ProxyRequest
  <2>2. <<"proxy">>[1] = "proxy"
    OBVIOUS
  <2> QED BY <2>1, <2>2, ForwardStays
<1>2. CASE Bridge!Policy(u) = "limited"
  <2>1. u \in Services /\ ~Bridge!Exceeded(u)
    BY <1>2 DEF Bridge!ProxyRequest, Bridge!Policy
  <2>2. /\ counters' = [counters EXCEPT ![u] = Bridge!Kept(u) \cup {Bridge!NewMark(passed[u], clock)}]
        /\ passed' = [passed EXCEPT ![u] = passed[u] \cup {Bridge!NewMark(passed[u], clock)}]
    BY <1>2 DEF Bridge!ProxyRequest
  <2> QED BY <1>1, <2>1, <2>2, CountStep
<1>3. CASE Bridge!Policy(u) # "limited"
  <2>1. UNCHANGED <<counters, passed>>
    BY <1>3 DEF Bridge!ProxyRequest
  <2> QED BY <1>1, <2>1, RatesStay
<1> QED BY <1>2, <1>3

(* The connector lets a call through where the last minute has room.        *)
LEMMA AdmitStep ==
    ASSUME RatesNat, RatesInv, Bridge!Admit, UNCHANGED <<counters, clock>>
    PROVE  RatesInv'
<1> DEFINE new == NewMark(passed["connector"], clock)
           recent == Within(times, clock, Minute)
<1>1. /\ times' = recent \cup {new}
      /\ passed' = [passed EXCEPT !["connector"] = passed["connector"] \cup {new}]
      /\ Cardinality(recent) < PerMinute
  BY BridgeWindow DEF Bridge!Admit, Bridge!Room
<1>2. /\ History(passed["connector"], clock)
      /\ Keeps(times, passed["connector"], clock, Minute)
      /\ AtMost(PerMinute, passed["connector"], Minute)
      /\ clock \in Nat /\ Minute \in Nat /\ PerMinute \in Nat
      /\ passed["connector"] \in SUBSET Mark
  BY DEF RatesInv, ConnectorWithin, RatesNat
<1>3. recent = Within(passed["connector"], clock, Minute)
  BY <1>2 DEF Keeps
<1>4. History(passed["connector"] \cup {new}, clock)
  BY <1>2, HistoryGrows
<1>5. Keeps(recent \cup {new}, passed["connector"] \cup {new}, clock, Minute)
  BY <1>2, KeepsNew
<1>6. AtMost(PerMinute, passed["connector"] \cup {new}, Minute)
  BY <1>1, <1>2, <1>3, LimitKept
<1>7. new \in Mark
  BY <1>2, NewMarkIsNew
<1> HIDE DEF new, recent
<1>8. passed'["connector"] = passed["connector"] \cup {new}
  BY <1>1 DEF RatesInv
<1>9. ConnectorWithin'
  BY <1>1, <1>4, <1>5, <1>6, <1>8 DEF ConnectorWithin
<1>10. ASSUME NEW s \in Services PROVE ServiceWithin(s)'
  <2>1. passed'[s] = passed[s]
    BY <1>1 DEF RatesInv, RatesNat
  <2> QED BY <2>1 DEF RatesInv, ServiceWithin
<1>11. passed' \in [Services \cup {"connector"} -> SUBSET Mark]
  BY <1>1, <1>2, <1>7 DEF RatesInv
<1> QED BY <1>9, <1>10, <1>11 DEF RatesInv

(* The connector counts what it lets through within a minute.               *)
LEMMA HandleStep ==
    ASSUME RatesNat, RatesInv, CallsInv, NEW c \in Calls, Bridge!Handle(c)
    PROVE  RatesInv' /\ CallsInv'
<1>1. /\ c \in inbox /\ inbox' = inbox \ {c} /\ reached' = reached \cup {c}
      /\ UNCHANGED <<counters, clock, stage, job, logged, lost>>
  BY DEF Bridge!Handle, Bridge!bridge, Bridge!calls, Bridge!log
<1>2. CallsInv'
  BY <1>1, CallsStay DEF CallsInv
<1>3. Bridge!Admit \/ UNCHANGED <<times, passed>>
  BY DEF Bridge!Handle
<1>4. RatesInv'
  BY <1>1, <1>3, AdmitStep, RatesStay
<1> QED BY <1>2, <1>4

(* A crash of the bridge forgets its counters, and what had passed with     *)
(* them.                                                                    *)
LEMMA BridgeCrashStep ==
    ASSUME RatesNat, RatesInv, CallsInv, Bridge!Crash
    PROVE  RatesInv' /\ CallsInv'
<1>1. /\ counters' = [s \in Services |-> {}]
      /\ stage' = [c \in Calls |-> IF stage[c] = "sent" THEN "done" ELSE stage[c]]
      /\ passed' = [k \in DOMAIN passed |-> IF k \in Services THEN {} ELSE passed[k]]
      /\ UNCHANGED <<job, inbox, reached, times, logged, lost, clock>>
  BY DEF Bridge!Crash, Bridge!host, Bridge!log, Bridge!NoLimits
<1>2. CallsInv'
  BY <1>1, CallsStay DEF CallsInv
<1>3. /\ passed' \in [Services \cup {"connector"} -> SUBSET Mark]
      /\ \A s \in Services : passed'[s] = {} /\ counters'[s] = {}
      /\ passed'["connector"] = passed["connector"]
  BY <1>1 DEF RatesInv, RatesNat
<1>4. ASSUME NEW s \in Services PROVE ServiceWithin(s)'
  <2>1. clock \in Nat /\ Day \in Nat /\ Hour \in Nat /\ PerDay \in Nat /\ PerHour \in Nat
    BY DEF RatesInv, RatesNat
  <2>2. /\ History({}, clock) /\ Keeps({}, {}, clock, Day)
        /\ AtMost(PerHour, {}, Hour) /\ AtMost(PerDay, {}, Day)
    BY <2>1, NoHistory
  <2> QED BY <2>2, <1>1, <1>3 DEF ServiceWithin
<1>5. ConnectorWithin'
  BY <1>1, <1>3 DEF RatesInv, ConnectorWithin
<1>6. RatesInv'
  BY <1>1, <1>3, <1>4, <1>5 DEF RatesInv
<1> QED BY <1>2, <1>6

BridgeInv == RatesInv /\ CallsInv

(* At the start nothing was forwarded.                                      *)
LEMMA BridgeInit == ASSUME Bridge!Init PROVE BridgeInv
<1>1. RatesNat
  BY RatesAreNat
<1>2. /\ counters = [s \in Services |-> {}] /\ clock = 0 /\ times = {}
      /\ passed = [s \in Services \cup {"connector"} |-> {}]
      /\ stage = [c \in Calls |-> "new"] /\ job = [c \in Calls |-> <<"none">>]
      /\ inbox = {} /\ reached = {}
  BY DEF Bridge!Init, Bridge!NoLimits
<1>3. CallsInv
  BY <1>2 DEF CallsInv
<1>4. /\ History({}, clock) /\ Keeps({}, {}, clock, Day) /\ Keeps({}, {}, clock, Minute)
      /\ AtMost(PerHour, {}, Hour) /\ AtMost(PerDay, {}, Day) /\ AtMost(PerMinute, {}, Minute)
  BY <1>1, <1>2, NoHistory DEF RatesNat
<1>5. RatesInv
  BY <1>1, <1>2, <1>4 DEF RatesInv, ServiceWithin, ConnectorWithin
<1> QED BY <1>3, <1>5 DEF BridgeInv

(* The steps that answer a call, and forward nothing.                       *)
LEMMA AnsweringStep ==
    ASSUME BridgeInv, NEW c \in Calls,
           \/ \E u \in Bridge!Urls : Bridge!CheckUrl(c, u) \/ Bridge!BlockProxy(c, u)
           \/ \E o \in Operations : Bridge!RefuseOperation(c, o)
           \/ \E t \in Texts : Bridge!ScreenMemory(c, t) \/ Bridge!BlockLlm(c, t)
    PROVE  BridgeInv'
<1>1. counters' = counters
  BY DEF Bridge!CheckUrl, Bridge!BlockProxy, Bridge!RefuseOperation, Bridge!ScreenMemory,
         Bridge!BlockLlm, Bridge!bridge
<1>2. PICK lines : Bridge!Answer(c, lines)
  BY DEF Bridge!CheckUrl, Bridge!BlockProxy, Bridge!RefuseOperation, Bridge!ScreenMemory,
         Bridge!BlockLlm
<1>3. CallsInv' /\ UNCHANGED <<passed, times, clock>>
  BY <1>2, AnswerStays DEF BridgeInv
<1> QED BY <1>1, <1>3, RatesStay DEF BridgeInv

(* What is forwarded was logged just before.                                *)
LEMMA ForwardingStep ==
    ASSUME BridgeInv, NEW c \in Calls,
           \/ \E o \in Operations : Bridge!McpProxy(c, o)
           \/ \E t \in Texts : Bridge!InterceptLlm(c, t)
    PROVE  BridgeInv'
<1>1. UNCHANGED <<counters, passed>>
  BY DEF Bridge!McpProxy, Bridge!InterceptLlm, Bridge!bridge
<1>2. CASE \E o \in Operations : Bridge!McpProxy(c, o)
  <2>1. PICK o \in Operations : Bridge!McpProxy(c, o)
    BY <1>2
  <2>2. Bridge!Forward(c, <<"mcp", o>>, <<"mcp_request">>)
    BY <2>1 DEF Bridge!McpProxy
  <2>3. /\ <<"mcp", o>>[1] = "mcp"
        /\ \E i \in DOMAIN <<"mcp_request">> : <<"mcp_request">>[i] = "mcp_request"
    <3>1. 1 \in DOMAIN <<"mcp_request">> /\ <<"mcp_request">>[1] = "mcp_request"
      OBVIOUS
    <3> QED BY <3>1
  <2>4. CallsInv' /\ UNCHANGED <<times, clock>>
    BY <2>2, <2>3, ForwardStays DEF BridgeInv
  <2> QED BY <2>4, <1>1, RatesStay DEF BridgeInv
<1>3. CASE \E t \in Texts : Bridge!InterceptLlm(c, t)
  <2>1. PICK t \in Texts : Bridge!InterceptLlm(c, t)
    BY <1>3
  <2> DEFINE lines == Append(Bridge!Triggered(t), "llm_request")
  <2>2. Bridge!Forward(c, <<"llm">>, lines)
    BY <2>1 DEF Bridge!InterceptLlm
  <2>3. <<"llm">>[1] = "llm" /\ \E i \in DOMAIN lines : lines[i] = "llm_request"
    <3>1. Bridge!Triggered(t) \in Seq({"memory_guardian_trigger"})
      <4>1. /\ << >> \in Seq({"memory_guardian_trigger"})
            /\ <<"memory_guardian_trigger">> \in Seq({"memory_guardian_trigger"})
        OBVIOUS
      <4>2. \/ Bridge!Triggered(t) = << >>
            \/ Bridge!Triggered(t) = <<"memory_guardian_trigger">>
        BY DEF Bridge!Triggered
      <4> QED BY <4>1, <4>2
    <3>2. /\ Len(lines) \in DOMAIN lines
          /\ lines[Len(lines)] = "llm_request"
      BY <3>1
    <3>3. <<"llm">>[1] = "llm"
      OBVIOUS
    <3> QED BY <3>2, <3>3
  <2> HIDE DEF lines
  <2>4. CallsInv' /\ UNCHANGED <<times, clock>>
    BY <2>2, <2>3, ForwardStays DEF BridgeInv
  <2> QED BY <2>4, <1>1, RatesStay DEF BridgeInv
<1> QED BY <1>2, <1>3

(* What the host returns is logged again, or given up.                      *)
LEMMA ReturningStep ==
    ASSUME BridgeInv, NEW c \in Calls,
           \/ Bridge!Return(c) \/ Bridge!GiveUp(c) \/ Bridge!Unreachable(c)
           \/ Bridge!ReturnUnreadable(c)
    PROVE  BridgeInv'
<1> USE DEF Bridge!bridge, Bridge!host, Bridge!log
<1>1. UNCHANGED <<counters, passed, times, clock>>
  BY DEF Bridge!Return, Bridge!GiveUp, Bridge!Unreachable, Bridge!ReturnUnreadable
<1>2. CASE Bridge!Return(c)
  BY <1>1, <1>2, EndStays, RatesStay DEF Bridge!Return, BridgeInv
<1>3. CASE Bridge!GiveUp(c)
  BY <1>1, <1>3, EndStays, RatesStay DEF Bridge!GiveUp, BridgeInv
<1>4. CASE Bridge!Unreachable(c)
  <2>1. Bridge!End(c, <<>>) /\ job' = job /\ inbox' \subseteq inbox /\ reached' = reached
    BY <1>4 DEF Bridge!Unreachable
  <2> QED BY <1>1, <2>1, EndStays, RatesStay DEF BridgeInv
<1>5. CASE Bridge!ReturnUnreadable(c)
  <2>1. /\ Bridge!Done(c) /\ Bridge!Log(c, Bridge!Answered(c))
        /\ UNCHANGED <<job, inbox, reached>>
    BY <1>5 DEF Bridge!ReturnUnreadable
  <2>2. logged \subseteq logged' /\ lost \subseteq lost'
    BY <2>1, LogAdds
  <2>3. CallsInv'
    BY <2>1, <2>2, DoneStays DEF BridgeInv
  <2> QED BY <1>1, <2>3, RatesStay DEF BridgeInv
<1> QED BY <1>2, <1>3, <1>4, <1>5

(* Every step of the bridge keeps its log and its limits.                   *)
LEMMA BridgeStep == ASSUME BridgeInv, Bridge!Next PROVE BridgeInv'
<1>1. RatesNat
  BY RatesAreNat
<1> USE DEF Bridge!bridge, Bridge!host, Bridge!log, Bridge!calls
<1>2. ASSUME NEW c \in Calls, NEW s \in Services, Bridge!LimitProxy(c, s) PROVE BridgeInv'
  BY <1>1, <1>2, LimitProxyStep, AnswerStays DEF BridgeInv, Bridge!LimitProxy
<1>3. ASSUME NEW c \in Calls, NEW u \in Bridge!Urls, Bridge!ProxyRequest(c, u) PROVE BridgeInv'
  BY <1>1, <1>3, ProxyRequestStep DEF BridgeInv
<1>4. ASSUME NEW c \in Calls, Bridge!Handle(c) PROVE BridgeInv'
  BY <1>1, <1>4, HandleStep DEF BridgeInv
<1>5. CASE Bridge!Crash
  BY <1>1, <1>5, BridgeCrashStep DEF BridgeInv
<1>6. CASE Bridge!Execute
  <2>1. /\ Bridge!Admit
        /\ UNCHANGED <<counters, clock, stage, job, inbox, reached, logged, lost>>
    BY <1>6 DEF Bridge!Execute
  <2>2. RatesInv'
    BY <1>1, <2>1, AdmitStep DEF BridgeInv
  <2> QED BY <2>1, <2>2 DEF BridgeInv, CallsInv, LineBefore
<1>7. CASE Bridge!Load \/ \E content \in Configs \cup {Missing, Broken} : Bridge!Edit(content)
  <2>1. UNCHANGED <<counters, passed, times, clock, stage, job, inbox, reached, logged, lost>>
    BY <1>7 DEF Bridge!Load, Bridge!Edit
  <2> QED BY <2>1, RatesStay DEF BridgeInv, CallsInv, LineBefore
<1>8. CASE Bridge!Tick
  <2>1. /\ UNCHANGED <<counters, passed, times, stage, job, inbox, reached, logged, lost>>
        /\ clock' \in Nat /\ clock <= clock'
    BY <1>8 DEF Bridge!Tick, BridgeInv, RatesInv
  <2>2. RatesInv'
    BY <1>1, <2>1, RatesAge DEF BridgeInv
  <2> QED BY <2>1, <2>2 DEF BridgeInv, CallsInv, LineBefore
<1> QED BY <1>2, <1>3, <1>4, <1>5, <1>6, <1>7, <1>8, AnsweringStep, ForwardingStep,
           ReturningStep DEF Bridge!Next

-----------------------------------------------------------------------------
(* The three together *)

DoorsInv == LockInv /\ NotifierInv /\ BridgeInv

(* The three at their start.                                                *)
LEMMA DoorsInitInv == DoorsInit => DoorsInv
BY LockInit, NotifierInit, BridgeInit DEF DoorsInit, DoorsInv

(* No service sets the clock back.                                          *)
LEMMA ClockGoesOn ==
    ASSUME DoorsInv, MoveLock \/ MoveNotifier \/ MoveBridge
    PROVE  clock' \in Nat /\ clock <= clock'
<1> clock \in Nat
  BY DEF DoorsInv, LockInv
<1>1. CASE MoveLock
  <2>1. clock' = clock \/ clock' = clock + 1
    BY <1>1 DEF MoveLock, Lock!Next, Lock!bounds, Lock!memory, Lock!user, Lock!Start, Lock!Load, Lock!Install,
       Lock!Truncate, Lock!Write, Lock!WriteTo, Lock!Tell, Lock!Generate, Lock!RefusePut,
       Lock!BeginPut, Lock!SetPassword, Lock!RefuseTooMany, Lock!Shutdown,
       Lock!RefuseShutdown, Lock!Signal, Lock!Down, Lock!Exit, Lock!Crash, Lock!Tick
  <2> QED BY <2>1
<1>2. CASE MoveNotifier
  BY <1>2 DEF MoveNotifier
<1>3. CASE MoveBridge
  <2>1. clock' = clock \/ clock' = clock + 1
    BY <1>3 DEF MoveBridge, Bridge!Next, Bridge!Answer, Bridge!Forward, Bridge!CheckUrl,
       Bridge!BlockProxy, Bridge!ProxyRequest, Bridge!LimitProxy, Bridge!RefuseOperation,
       Bridge!McpProxy, Bridge!ScreenMemory, Bridge!BlockLlm, Bridge!InterceptLlm,
       Bridge!Handle, Bridge!Return, Bridge!GiveUp, Bridge!Unreachable,
       Bridge!ReturnUnreadable, Bridge!Edit, Bridge!Execute, Bridge!Load, Bridge!Crash,
       Bridge!Tick
  <2> QED BY <2>1
<1> QED BY <1>1, <1>2, <1>3

(* A step of one keeps the invariants of all three.                         *)
LEMMA DoorsStep ==
    ASSUME DoorsInv, [MoveLock \/ MoveNotifier \/ MoveBridge]_doorsVars
    PROVE  DoorsInv'
<1> clock \in Nat
  BY DEF DoorsInv, LockInv
<1>1. CASE UNCHANGED doorsVars
  <2>1. UNCHANGED lockVars /\ UNCHANGED notifierVars /\ UNCHANGED bridgeVars /\ clock' = clock
    BY <1>1 DEF doorsVars
  <2>2. LockInv'
    BY <2>1, LockAges DEF DoorsInv
  <2>3. BridgeInv'
    BY <2>1, RatesStay DEF DoorsInv, BridgeInv, bridgeVars, CallsInv, LineBefore
  <2> QED BY <2>1, <2>2, <2>3, NotifierStays DEF DoorsInv
<1>2. CASE MoveLock
  <2>1. UNCHANGED notifierVars /\ UNCHANGED bridgeVars /\ Lock!Next
    BY <1>2 DEF MoveLock
  <2>2. BridgeInv'
    BY <2>1, <1>2, ClockGoesOn, RatesAge, RatesAreNat
    DEF DoorsInv, BridgeInv, bridgeVars, CallsInv, LineBefore
  <2> QED BY <2>1, <2>2, LockStep, NotifierStays DEF DoorsInv
<1>3. CASE MoveNotifier
  <2>1. Notifier!Next /\ UNCHANGED lockVars /\ UNCHANGED bridgeVars /\ clock' = clock
    BY <1>3 DEF MoveNotifier
  <2>2. LockInv'
    BY <2>1, LockAges DEF DoorsInv
  <2>3. BridgeInv'
    BY <2>1, RatesStay DEF DoorsInv, BridgeInv, bridgeVars, CallsInv, LineBefore
  <2> QED BY <2>1, <2>2, <2>3, NotifierStep DEF DoorsInv
<1>4. CASE MoveBridge
  <2>1. Bridge!Next /\ UNCHANGED lockVars /\ UNCHANGED notifierVars
    BY <1>4 DEF MoveBridge
  <2>2. LockInv'
    BY <2>1, <1>4, ClockGoesOn, LockAges DEF DoorsInv
  <2> QED BY <2>1, <2>2, BridgeStep, NotifierStays DEF DoorsInv
<1> QED BY <1>1, <1>2, <1>3, <1>4

(* The invariant of the three: the copies of the password agree and the     *)
(* lock-out counts every wrong one of a shutdown (core/termination_lock.py,  *)
(* routes/addon.py), what a dashboard does not know is on its way to it     *)
(* (routes/ws_consent.py), and the bridge and the connector count and log   *)
(* what they let through (docker/bridge/main.py, mcp_services/base.py).      *)
LEMMA DoorsInvHolds == DoorsSpec => []DoorsInv
<1>1. DoorsInit => DoorsInv
  BY DoorsInitInv
<1>2. DoorsInv /\ [MoveLock \/ MoveNotifier \/ MoveBridge]_doorsVars => DoorsInv'
  BY DoorsStep
<1> QED BY <1>1, <1>2, PTL DEF DoorsSpec

(* The password last shown or confirmed to the user opens the lock, through *)
(* changes, failing writes, signals and restarts (core/termination_lock.py). *)
THEOREM ChosenOpensHolds == DoorsSpec => []ChosenOpens
<1>1. DoorsInv => ChosenOpens
  BY DEF DoorsInv, LockInv, Copies, ChosenOpens, Lock!ChosenOpens
<1> QED BY <1>1, DoorsInvHolds, PTL

(* DELETE /server/shutdown judges no more wrong passwords of an address in   *)
(* any lock-out period than its limit (routes/addon.py; PUT                 *)
(* /server/password has no limit and is not meant), the bridge lets no more *)
(* requests to a limited service through in any hour and any day than its   *)
(* limits (docker/bridge/main.py), and the connector no more in any minute  *)
(* (mcp_services/base.py), whatever else uses the clock.                    *)
THEOREM LimitsHoldHolds == DoorsSpec => []LimitsHold
<1>1. DoorsInv => LimitsHold
  <2> SUFFICES ASSUME DoorsInv PROVE LimitsHold
    OBVIOUS
  <2>1. Lock!ShutdownLockout
    BY LockWindow DEF DoorsInv, LockInv, Counted, Lock!ShutdownLockout
  <2>2. Bridge!WithinLimits
    BY BridgeWindow
    DEF DoorsInv, BridgeInv, RatesInv, ServiceWithin, ConnectorWithin, Bridge!WithinLimits
  <2> QED BY <2>1, <2>2 DEF LimitsHold
<1> QED BY <1>1, DoorsInvHolds, PTL

(* A dashboard that listed the pending requests and stays has been told of  *)
(* every one raised on the loop, once no notice is under way                *)
(* (routes/ws_consent.py, routes/consent.py).                               *)
THEOREM NothingMissedHolds == DoorsSpec => []NothingMissed
<1>1. DoorsInv => NothingMissed
  BY DEF DoorsInv, NotifierInv, OnItsWay, NothingMissed, Notifier!NothingMissed
<1> QED BY <1>1, DoorsInvHolds, PTL

(* Whatever tool or chat request the host handles is in the bridge's log    *)
(* already, unless the line could not be written (docker/bridge/main.py).   *)
THEOREM HandledIsLoggedHolds == DoorsSpec => []HandledIsLogged
<1>1. DoorsInv => HandledIsLogged
  BY DEF DoorsInv, BridgeInv, CallsInv, LineBefore, HandledIsLogged, Bridge!HandledIsLogged,
         Bridge!Kind
<1> QED BY <1>1, DoorsInvHolds, PTL
=============================================================================
