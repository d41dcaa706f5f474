--------------------------- MODULE AccountsProofs ---------------------------
(***************************************************************************)
(* Theorems about Accounts, for every set of handlers, commands, names,    *)
(* lifetimes and readings of the clock, every capacity and every bound,    *)
(* and about Credentials, for every size of a token and every text.        *)
(***************************************************************************)
EXTENDS Accounts, FiniteSetTheorems, SequenceTheorems, WellFoundedInduction, TLAPS

-----------------------------------------------------------------------------
(* Tables.                                                                 *)

LEMMA DomainWithout ==
    ASSUME NEW table, NEW ids
    PROVE  /\ DOMAIN Without(table, ids) = DOMAIN table \ ids
           /\ \A x \in DOMAIN table \ ids : Without(table, ids)[x] = table[x]
    BY DEF Without

LEMMA TableWithout ==
    ASSUME NEW table, NEW last, NEW row, NEW ids, IsTable(table, last, row)
    PROVE  IsTable(Without(table, ids), last, row)
    <1>1. /\ DOMAIN Without(table, ids) = DOMAIN table \ ids
          /\ \A x \in DOMAIN table \ ids : Without(table, ids)[x] = table[x]
        BY DomainWithout
    <1> QED BY <1>1 DEF IsTable

LEMMA TableWith ==
    ASSUME NEW table, NEW last \in Nat, NEW row, NEW new \in row, NEW id, id = last + 1,
           IsTable(table, last, row)
    PROVE  IsTable(With(table, id, new), id, row)
    <1>1. /\ DOMAIN With(table, id, new) = DOMAIN table \cup {id}
          /\ With(table, id, new)[id] = new
          /\ \A x \in DOMAIN table \ {id} : With(table, id, new)[x] = table[x]
        BY DEF With
    <1>2. 1..id = (1..last) \cup {id}
        OBVIOUS
    <1>3. DOMAIN With(table, id, new) \subseteq 1..id
        BY <1>1, <1>2 DEF IsTable
    <1>4. ASSUME NEW x \in DOMAIN With(table, id, new) PROVE With(table, id, new)[x] \in row
        BY <1>1 DEF IsTable
    <1> QED BY <1>3, <1>4 DEF IsTable

-----------------------------------------------------------------------------
(* Requests.                                                               *)

LEMMA IdleIsStep == Idle \in Step
    BY DEF Idle, Bare, Step

\* What is known of a request at each of its steps.
LEMMA StepFields ==
    ASSUME NEW s \in Step
    PROVE  /\ s.pc \in {"idle", "loginPage"} <=> s \in Bare
           /\ s.pc \in {"insertUser", "issue", "count", "delete"} <=> s \in OnName
           /\ s.pc \in {"issueOwn", "deleteToken", "endSession", "removePasskey", "accountPage",
                        "finishRegistration", "insertPasskey"} <=> s \in OfSession
           /\ s.pc \in {"establish"} <=> s \in Verified
           /\ s.pc \in {"insertSession"} <=> s \in Entering
           /\ s.pc \in {"redeem"} <=> s \in Redeeming
           /\ s.id \in Nat
    <1>1. CASE s \in Bare
        BY <1>1 DEF Bare, OnName, OfSession, Verified, Entering, Redeeming
    <1>2. CASE s \in OnName
        BY <1>2 DEF Bare, OnName, OfSession, Verified, Entering, Redeeming
    <1>3. CASE s \in OfSession
        BY <1>3 DEF Bare, OnName, OfSession, Verified, Entering, Redeeming
    <1>4. CASE s \in Entering
        BY <1>4 DEF Bare, OnName, OfSession, Verified, Entering, Redeeming
    <1>5. CASE s \in Redeeming
        BY <1>5 DEF Bare, OnName, OfSession, Verified, Entering, Redeeming
    <1>6. CASE s \in Verified
        BY <1>6 DEF Bare, OnName, OfSession, Verified, Entering, Redeeming
    <1> QED BY <1>1, <1>2, <1>3, <1>4, <1>5, <1>6 DEF Step

\* The next step of a request of several.
LEMMA NextStep ==
    ASSUME NEW s \in Step, NEW pc,
           \/ s.pc = "insertUser" /\ pc = "issue"
           \/ s.pc = "count" /\ pc = "delete"
           \/ s.pc \in {"issueOwn", "finishRegistration", "removePasskey"} /\ pc = "accountPage"
           \/ s.pc = "finishRegistration" /\ pc = "insertPasskey"
    PROVE  [s EXCEPT !.pc = pc, !.id = 0] \in Step
    <1>1. CASE s.pc \in {"insertUser", "count"}
        <2>1. s \in OnName
            BY <1>1, StepFields
        <2> QED BY <1>1, <2>1 DEF OnName, Step
    <1>2. CASE s.pc \in {"issueOwn", "finishRegistration", "removePasskey"}
        <2>1. s \in OfSession
            BY <1>2, StepFields
        <2> QED BY <1>2, <2>1 DEF OfSession, Step
    <1> QED BY <1>1, <1>2

LEMMA RequestEnds ==
    ASSUME request \in [Actors -> Step], NEW a, Ends(a)
    PROVE  request' \in [Actors -> Step]
    BY IdleIsStep DEF Ends

LEMMA RequestBegins ==
    ASSUME RequestsOK, NEW a \in Actors, NEW s \in Step, Begins(a, s)
    PROVE  request' \in [Actors -> Step] /\ requests' \in Nat
    <1>1. request' = [request EXCEPT ![a] = s] /\ requests' = requests + 1
        BY DEF Begins
    <1> QED BY <1>1 DEF RequestsOK

LEMMA RequestGoes ==
    ASSUME request \in [Actors -> Step], NEW a \in Actors, NEW pc, Goes(a, pc),
           \/ At(a, "insertUser") /\ pc = "issue"
           \/ At(a, "count") /\ pc = "delete"
           \/ (At(a, "issueOwn") \/ At(a, "finishRegistration") \/ At(a, "removePasskey"))
              /\ pc = "accountPage"
           \/ At(a, "finishRegistration") /\ pc = "insertPasskey"
    PROVE  request' \in [Actors -> Step]
    <1>1. request[a] \in Step
        OBVIOUS
    <1>2. [request[a] EXCEPT !.pc = pc, !.id = 0] \in Step
        BY <1>1, NextStep DEF At
    <1>3. request' = [request EXCEPT ![a] = [request[a] EXCEPT !.pc = pc, !.id = 0]]
        BY DEF Goes
    <1> QED BY <1>2, <1>3

-----------------------------------------------------------------------------
(* Prompts under way.                                                      *)

LEMMA CeremoniesFinite ==
    ASSUME CeremoniesOK, MadeOK
    PROVE  IsFiniteSet(DOMAIN ceremonies) /\ IsFiniteSet(Registrations) /\ IsFiniteSet(SignIns)
    <1>1. made.challenge \in Int
        BY BoundsAssumption DEF MadeOK
    <1>2. IsFiniteSet(1..made.challenge)
        BY <1>1, FS_Interval
    <1>3. DOMAIN ceremonies \subseteq 1..made.challenge
        BY DEF CeremoniesOK, IsTable
    <1>4. IsFiniteSet(DOMAIN ceremonies)
        BY <1>2, <1>3, FS_Subset
    <1>5. Registrations \subseteq DOMAIN ceremonies /\ SignIns \subseteq DOMAIN ceremonies
        BY DEF Registrations, SignIns
    <1> QED BY <1>4, <1>5, FS_Subset

\* Taking prompts out of the sets leaves no more of either kind.
LEMMA FewerCeremonies ==
    ASSUME CeremoniesOK, MadeOK, NEW ids, ceremonies' = Without(ceremonies, ids),
           made'.challenge = made.challenge
    PROVE  CeremoniesOK'
    <1>1. IsTable(ceremonies', made'.challenge, [user : Names \cup {NoName}])
        BY TableWithout DEF CeremoniesOK
    <1>3. IsFiniteSet(Registrations) /\ IsFiniteSet(SignIns)
        BY CeremoniesFinite
    <1>4. /\ DOMAIN ceremonies' = DOMAIN ceremonies \ ids
          /\ \A c \in DOMAIN ceremonies' : ceremonies'[c] = ceremonies[c]
        BY DEF Without
    <1>5. Registrations' \subseteq Registrations /\ SignIns' \subseteq SignIns
        BY <1>4 DEF Registrations, SignIns
    <1>6. /\ Cardinality(Registrations') <= Cardinality(Registrations)
          /\ Cardinality(SignIns') <= Cardinality(SignIns)
        BY <1>3, <1>5, FS_Subset
    <1>7. /\ Cardinality(Registrations) \in Nat /\ Cardinality(Registrations') \in Nat
          /\ Cardinality(SignIns) \in Nat /\ Cardinality(SignIns') \in Nat
        BY <1>3, <1>5, FS_Subset, FS_CardinalityType
    <1> QED BY <1>1, <1>6, <1>7, BoundsAssumption DEF CeremoniesOK

\* A prompt more, where there is room.
LEMMA OneMoreCeremony ==
    ASSUME CeremoniesOK, MadeOK, NEW u \in Names \cup {NoName},
           u = NoName => HasRoom(SignIns, SignInCapacity),
           u # NoName => HasRoom(Registrations, RegistrationCapacity),
           ceremonies' = With(ceremonies, made.challenge + 1, [user |-> u]),
           made'.challenge = made.challenge + 1
    PROVE  CeremoniesOK'
    <1> DEFINE new == made.challenge + 1
    <1>0. made.challenge \in Nat
        BY DEF MadeOK
    <1>1. IsTable(ceremonies', made'.challenge, [user : Names \cup {NoName}])
        BY <1>0, TableWith DEF CeremoniesOK
    <1>3. IsFiniteSet(Registrations) /\ IsFiniteSet(SignIns)
        BY CeremoniesFinite
    <1>4. /\ DOMAIN ceremonies' = DOMAIN ceremonies \cup {new}
          /\ ceremonies'[new] = [user |-> u]
          /\ \A c \in DOMAIN ceremonies \ {new} : ceremonies'[c] = ceremonies[c]
        BY DEF With
    <1>5. new \notin DOMAIN ceremonies
        BY <1>0 DEF CeremoniesOK, IsTable
    <1>6. CASE u = NoName
        <2>1. Registrations' = Registrations /\ SignIns' = SignIns \cup {new}
            BY <1>4, <1>5, <1>6 DEF Registrations, SignIns
        <2>2. new \notin SignIns
            BY <1>5 DEF SignIns
        <2>3. Cardinality(SignIns') = Cardinality(SignIns) + 1 /\ Cardinality(SignIns) \in Nat
            BY <1>3, <2>1, <2>2, FS_AddElement, FS_CardinalityType
        <2> QED BY <1>1, <1>6, <2>1, <2>3, BoundsAssumption DEF CeremoniesOK, HasRoom
    <1>7. CASE u # NoName
        <2>1. SignIns' = SignIns /\ Registrations' = Registrations \cup {new}
            BY <1>4, <1>5, <1>7 DEF Registrations, SignIns
        <2>2. new \notin Registrations
            BY <1>5 DEF Registrations
        <2>3. /\ Cardinality(Registrations') = Cardinality(Registrations) + 1
              /\ Cardinality(Registrations) \in Nat
            BY <1>3, <2>1, <2>2, FS_AddElement, FS_CardinalityType
        <2> QED BY <1>1, <1>7, <2>1, <2>3, BoundsAssumption DEF CeremoniesOK, HasRoom
    <1> QED BY <1>6, <1>7

-----------------------------------------------------------------------------
(* Types.                                                                  *)

LEMMA TypeInit == Init => TypeOK
    <1> SUFFICES ASSUME Init PROVE TypeOK
        OBVIOUS
    <1>1. /\ Len(FirstPasskeys) \in Nat /\ DOMAIN FirstPasskeys = 1..Len(FirstPasskeys)
          /\ Len(FirstSessions) \in Nat /\ DOMAIN FirstSessions = 1..Len(FirstSessions)
          /\ \A p \in DOMAIN FirstPasskeys : FirstPasskeys[p] \in Names
          /\ \A s \in DOMAIN FirstSessions : FirstSessions[s] \in Names
        BY AccountsAssumption
    <1>2. lifetime \in Lifetimes /\ lifetime \in Int
        BY AccountsAssumption DEF Init
    <1>3. DatabaseOK
        BY <1>1, <1>2 DEF Init, DatabaseOK, IsTable, Somebody, SignInToken, Session, Empty
    <1>4. MadeOK
        BY <1>1, BoundsAssumption DEF Init, MadeOK
    <1>5. ServerOK
        BY <1>2 DEF Init, ServerOK
    <1>6. CeremoniesOK
        <2>1. DOMAIN ceremonies = {}
            BY DEF Init, Empty
        <2>2. Registrations = {} /\ SignIns = {}
            BY <2>1 DEF Registrations, SignIns
        <2>3. Cardinality({}) = 0
            BY FS_EmptySet
        <2> QED BY <2>1, <2>2, <2>3, BoundsAssumption DEF CeremoniesOK, IsTable
    <1>7. RequestsOK
        BY IdleIsStep DEF Init, RequestsOK
    <1>8. HistoryOK
        BY DEF Init, HistoryOK
    <1> QED BY <1>3, <1>4, <1>5, <1>6, <1>7, <1>8 DEF TypeOK

\* What a step leaves alone keeps its type.
LEMMA TypeStays ==
    ASSUME TypeOK
    PROVE  /\ UNCHANGED <<database, made>> => DatabaseOK'
           /\ UNCHANGED made => MadeOK'
           /\ UNCHANGED server => ServerOK'
           /\ UNCHANGED <<ceremonies, made>> => CeremoniesOK'
           /\ UNCHANGED request => request' \in [Actors -> Step]
           /\ UNCHANGED counters => requests' \in Nat /\ starts' \in Nat
           /\ UNCHANGED history => HistoryOK'
    <1>1. UNCHANGED <<database, made>> => DatabaseOK'
        BY DEF TypeOK, DatabaseOK, database
    <1>2. UNCHANGED made => MadeOK'
        BY DEF TypeOK, MadeOK
    <1>3. UNCHANGED server => ServerOK'
        BY DEF TypeOK, ServerOK, server
    <1>4. UNCHANGED <<ceremonies, made>> => CeremoniesOK'
        BY DEF TypeOK, CeremoniesOK, Registrations, SignIns
    <1>5. /\ UNCHANGED request => request' \in [Actors -> Step]
          /\ UNCHANGED counters => requests' \in Nat /\ starts' \in Nat
        BY DEF TypeOK, RequestsOK, counters
    <1>6. UNCHANGED history => HistoryOK'
        BY DEF TypeOK, HistoryOK, history
    <1> QED BY <1>1, <1>2, <1>3, <1>4, <1>5, <1>6

\* The step a session starts with, and the sweep before it.
LEMMA SweepTypes ==
    ASSUME TypeOK, NEW t, Sweep(t), UNCHANGED <<users, passkeys, tokens, made>>
    PROVE  DatabaseOK'
    <1>1. \/ sessions' = sessions
          \/ sessions' = Without(sessions, ExpiredAt(sessions, t))
        BY DEF Sweep
    <1>2. IsTable(Without(sessions, ExpiredAt(sessions, t)), made.session, Session)
        BY TableWithout DEF TypeOK, DatabaseOK
    <1> QED BY <1>1, <1>2 DEF TypeOK, DatabaseOK

LEMMA StartSessionTypes ==
    ASSUME TypeOK, NEW u \in Names, NEW t \in Int, StartSession(u, t)
    PROVE  /\ IsTable(sessions', made'.session, Session)
           /\ MadeOK'
           /\ made'.token = made.token /\ made'.passkey = made.passkey
           /\ made'.challenge = made.challenge
    <1> DEFINE new == [user |-> u, created |-> t, expires |-> t + lifetime]
    <1>1. lifetime \in Nat
        BY AccountsAssumption DEF TypeOK, ServerOK
    <1>2. new \in Session
        BY <1>1 DEF Session
    <1>3. /\ sessions' = With(sessions, made.session + 1, new)
          /\ made' = [made EXCEPT !.session = made.session + 1]
        BY DEF StartSession
    <1>4. /\ made \in [token : 0..MaxTokens, session : Nat, passkey : Nat, challenge : 0..MaxChallenges]
          /\ made.session \in Nat
        BY DEF TypeOK, MadeOK
    <1>5. made'.session = made.session + 1
        BY <1>3, <1>4
    <1>6. IsTable(sessions, made.session, Session)
        BY DEF TypeOK, DatabaseOK
    <1>7. IsTable(sessions', made'.session, Session)
        <2> HIDE DEF new
        <2> QED BY <1>2, <1>3, <1>4, <1>5, <1>6, TableWith
    <1> QED BY <1>3, <1>4, <1>7 DEF MadeOK

LEMMA TypeStart ==
    ASSUME TypeOK, NEW l \in Lifetimes, Start(l)
    PROVE  TypeOK'
    <1>1. UNCHANGED <<users, passkeys, tokens, ceremonies, request, made, requests, history>>
        BY DEF Start
    <1>2. DatabaseOK'
        <2>1. l \in Int
            BY AccountsAssumption
        <2>2. IsTable(sessions', made.session, Session)
            <3>1. CASE UNCHANGED sessions
                BY <3>1 DEF TypeOK, DatabaseOK
            <3>2. CASE sessions' = [x \in DOMAIN sessions |->
                                    IF Outlives(sessions[x], l)
                                    THEN [sessions[x] EXCEPT !.expires = sessions[x].created + l]
                                    ELSE sessions[x]]
                <4>1. ASSUME NEW x \in DOMAIN sessions PROVE sessions'[x] \in Session
                    <5>1. sessions[x] \in Session
                        BY DEF TypeOK, DatabaseOK, IsTable
                    <5>2. [sessions[x] EXCEPT !.expires = sessions[x].created + l] \in Session
                        BY <2>1, <5>1 DEF Session
                    <5> QED BY <3>2, <5>1, <5>2
                <4> QED BY <3>2, <4>1 DEF TypeOK, DatabaseOK, IsTable
            <3> QED BY <3>1, <3>2 DEF Start
        <2> QED BY <1>1, <2>2 DEF TypeOK, DatabaseOK
    <1>3. ServerOK'
        BY DEF Start, ServerOK
    <1>4. RequestsOK'
        BY <1>1 DEF TypeOK, RequestsOK, Start
    <1>5. MadeOK' /\ CeremoniesOK' /\ HistoryOK'
        BY <1>1, TypeStays
    <1> QED BY <1>2, <1>3, <1>4, <1>5 DEF TypeOK

LEMMA TypeStop ==
    ASSUME TypeOK, Stop
    PROVE  TypeOK'
    <1>1. UNCHANGED <<database, lifetime, capped, made, counters, history>>
        BY DEF Stop
    <1>2. CeremoniesOK'
        <2>1. ceremonies' = Without(ceremonies, DOMAIN ceremonies)
            BY DEF Stop, Empty, Without
        <2> QED BY <1>1, <2>1, FewerCeremonies DEF TypeOK
    <1>3. request' \in [Actors -> Step]
        BY IdleIsStep DEF Stop, TypeOK, RequestsOK
    <1>4. ServerOK'
        BY <1>1 DEF Stop, TypeOK, ServerOK
    <1>5. DatabaseOK' /\ MadeOK' /\ HistoryOK' /\ requests' \in Nat /\ starts' \in Nat
        BY <1>1, TypeStays
    <1> QED BY <1>2, <1>3, <1>4, <1>5 DEF TypeOK, RequestsOK

LEMMA TypeExpire ==
    ASSUME TypeOK, NEW c, Expire(c)
    PROVE  TypeOK'
    <1>1. UNCHANGED <<database, server, request, made, counters, history>>
        BY DEF Expire
    <1>2. CeremoniesOK'
        BY <1>1, FewerCeremonies DEF TypeOK, Expire
    <1> QED BY <1>1, <1>2, TypeStays DEF TypeOK, RequestsOK

\* A request that begins, or ends, and does nothing else.
LEMMA TypeBegins ==
    ASSUME TypeOK, NEW a \in Actors, NEW s \in Step, Begins(a, s),
           UNCHANGED <<database, server, ceremonies, made, starts, history>>
    PROVE  TypeOK'
    <1>1. request' \in [Actors -> Step] /\ requests' \in Nat
        BY RequestBegins DEF TypeOK
    <1>2. starts' \in Nat
        BY DEF TypeOK, RequestsOK
    <1> QED BY <1>1, <1>2, TypeStays DEF TypeOK, RequestsOK

LEMMA AsksForAStep ==
    ASSUME TypeOK, NEW h, NEW u \in Names, Asks(h, u)
    PROVE  \E s \in Step : Begins(h, s)
    <1>1. /\ 1..made.session \subseteq Nat /\ 1..made.passkey \subseteq Nat
          /\ 0..made.challenge \subseteq Nat
        BY BoundsAssumption DEF TypeOK, MadeOK
    <1>2. ASSUME NEW p \in {"insertUser", "count"}, NEW n \in Names
          PROVE  [Idle EXCEPT !.pc = p, !.user = u, !.name = n] \in Step
        BY DEF Idle, OnName, Step
    <1>3. ASSUME NEW p \in {"issueOwn", "deleteToken", "accountPage"}
          PROVE  [Idle EXCEPT !.pc = p, !.user = u, !.name = u] \in Step
        <2>1. [Idle EXCEPT !.pc = p, !.user = u, !.name = u] \in OfSession
            BY DEF Idle, OfSession
        <2> QED BY <2>1 DEF Step
    <1>4. ASSUME NEW p \in {"endSession", "removePasskey", "finishRegistration"}, NEW i \in Nat
          PROVE  [Idle EXCEPT !.pc = p, !.user = u, !.id = i] \in Step
        <2>1. [Idle EXCEPT !.pc = p, !.user = u, !.id = i] \in OfSession
            BY DEF Idle, OfSession
        <2> QED BY <2>1 DEF Step
    <1>5. CASE \E p \in {"insertUser", "count"}, n \in Names :
                Begins(h, [Idle EXCEPT !.pc = p, !.user = u, !.name = n])
        BY <1>2, <1>5
    <1>6. CASE \E p \in {"issueOwn", "deleteToken", "accountPage"} :
                Begins(h, [Idle EXCEPT !.pc = p, !.user = u, !.name = u])
        BY <1>3, <1>6
    <1>7. CASE \E i \in 1..made.session :
                Begins(h, [Idle EXCEPT !.pc = "endSession", !.user = u, !.id = i])
        BY <1>1, <1>4, <1>7
    <1>8. CASE \E i \in 1..made.passkey :
                Begins(h, [Idle EXCEPT !.pc = "removePasskey", !.user = u, !.id = i])
        BY <1>1, <1>4, <1>8
    <1>9. CASE \E i \in 0..made.challenge :
                Begins(h, [Idle EXCEPT !.pc = "finishRegistration", !.user = u, !.id = i])
        BY <1>1, <1>4, <1>9
    <1> QED BY <1>5, <1>6, <1>7, <1>8, <1>9 DEF Asks

LEMMA TypeSubmit ==
    ASSUME TypeOK, NEW h \in Handlers, Submit(h)
    PROVE  TypeOK'
    <1>1. PICK s \in DOMAIN sessions : Asks(h, sessions[s].user)
        BY DEF Submit
    <1>2. sessions[s].user \in Names
        BY DEF TypeOK, DatabaseOK, IsTable, Session
    <1>3. PICK step \in Step : Begins(h, step)
        BY <1>1, <1>2, AsksForAStep
    <1> QED BY <1>3, TypeBegins DEF Submit, Actors

LEMMA TypeGetLogin ==
    ASSUME TypeOK, NEW h \in Handlers, GetLogin(h)
    PROVE  TypeOK'
    <1>1. [Idle EXCEPT !.pc = "loginPage"] \in Step
        BY DEF Idle, Bare, Step
    <1> QED BY <1>1, TypeBegins DEF GetLogin, Actors

LEMMA TypeRun ==
    ASSUME TypeOK, NEW c \in Commands, Run(c)
    PROVE  TypeOK'
    <1>1. PICK n \in Names, p \in {"insertUser", "issue", "delete"} :
            Begins(c, [Idle EXCEPT !.pc = p, !.name = n])
        BY DEF Run
    <1>2. [Idle EXCEPT !.pc = p, !.name = n] \in Step
        BY DEF Idle, OnName, Step
    <1> QED BY <1>1, <1>2, TypeBegins DEF Run, Actors

LEMMA TypeFails ==
    ASSUME TypeOK, NEW a \in Actors, Fails(a)
    PROVE  TypeOK'
    <1>1. request' \in [Actors -> Step]
        BY RequestEnds DEF TypeOK, RequestsOK, Fails
    <1> QED BY <1>1, TypeStays DEF TypeOK, RequestsOK, Fails

LEMMA TypeInsertUser ==
    ASSUME TypeOK, NEW a \in Actors, InsertUser(a)
    PROVE  TypeOK'
    <1>1. request[a] \in OnName
        BY StepFields DEF InsertUser, At, TypeOK, RequestsOK
    <1>2. request' \in [Actors -> Step]
        BY RequestEnds, RequestGoes DEF TypeOK, RequestsOK, InsertUser
    <1>3. DatabaseOK'
        BY <1>1 DEF InsertUser, TypeOK, DatabaseOK, OnName
    <1> QED BY <1>2, <1>3, TypeStays DEF TypeOK, RequestsOK, InsertUser

LEMMA TypeCount ==
    ASSUME TypeOK, NEW h \in Handlers, Count(h)
    PROVE  TypeOK'
    <1>1. h \in Actors
        BY DEF Actors
    <1>2. request' \in [Actors -> Step]
        BY <1>1, RequestEnds, RequestGoes DEF TypeOK, RequestsOK, Count
    <1> QED BY <1>2, TypeStays DEF TypeOK, RequestsOK, Count

LEMMA TypeDelete ==
    ASSUME TypeOK, NEW a \in Actors, Delete(a)
    PROVE  TypeOK'
    <1>1. request' \in [Actors -> Step]
        BY RequestEnds DEF TypeOK, RequestsOK, Delete
    <1>2. DatabaseOK'
        BY TableWithout DEF Delete, TypeOK, DatabaseOK
    <1> QED BY <1>1, <1>2, TypeStays DEF TypeOK, RequestsOK, Delete

LEMMA TypeEndSession ==
    ASSUME TypeOK, NEW h \in Handlers, EndSession(h)
    PROVE  TypeOK'
    <1>1. request' \in [Actors -> Step]
        BY RequestEnds DEF TypeOK, RequestsOK, EndSession
    <1>2. DatabaseOK'
        BY TableWithout DEF EndSession, TypeOK, DatabaseOK
    <1> QED BY <1>1, <1>2, TypeStays DEF TypeOK, RequestsOK, EndSession

LEMMA TypeIssue ==
    ASSUME TypeOK, NEW a \in Actors, Issue(a)
    PROVE  TypeOK'
    <1>1. request[a] \in OnName \cup OfSession
        BY StepFields DEF Issue, At, TypeOK, RequestsOK
    <1>2. /\ made \in [token : 0..MaxTokens, session : Nat, passkey : Nat, challenge : 0..MaxChallenges]
          /\ made.token \in Nat /\ made.token < MaxTokens
        BY BoundsAssumption DEF TypeOK, MadeOK, Issue
    <1>3. PICK t \in Times :
            LET name == request[a].name
                kept == Without(tokens, Replaced(name, t))
                token == [user |-> name, expires |-> t + TokenLifetime]
            IN  \/ ~Exists(name) /\ tokens' = kept /\ Ends(a) /\ UNCHANGED made
                \/ /\ Exists(name)
                   /\ tokens' = With(kept, made.token + 1, token)
                   /\ made' = [made EXCEPT !.token = made.token + 1]
                   /\ IF At(a, "issueOwn") THEN Goes(a, "accountPage") ELSE Ends(a)
        BY DEF Issue
    <1> DEFINE name == request[a].name
               kept == Without(tokens, Replaced(name, t))
               token == [user |-> name, expires |-> t + TokenLifetime]
    <1>4. IsTable(kept, made.token, SignInToken)
        BY TableWithout DEF TypeOK, DatabaseOK
    <1>5. UNCHANGED <<users, passkeys, sessions, server, ceremonies, counters, history>>
        BY DEF Issue
    <1>6. request' \in [Actors -> Step]
        BY <1>3, RequestEnds, RequestGoes DEF TypeOK, RequestsOK
    <1>7. CASE UNCHANGED made
        <2>1. tokens' = kept
            BY <1>2, <1>3, <1>7
        <2>2. DatabaseOK'
            BY <1>4, <1>5, <1>7, <2>1 DEF TypeOK, DatabaseOK
        <2> QED BY <1>5, <1>6, <1>7, <2>2, TypeStays DEF TypeOK, RequestsOK
    <1>8. CASE /\ Exists(name)
               /\ tokens' = With(kept, made.token + 1, token)
               /\ made' = [made EXCEPT !.token = made.token + 1]
        <2>1. /\ made'.token = made.token + 1 /\ made'.session = made.session
              /\ made'.passkey = made.passkey /\ made'.challenge = made.challenge
            BY <1>2, <1>8
        <2>2. token \in SignInToken
            BY <1>8, AccountsAssumption DEF Exists, SignInToken, TypeOK, DatabaseOK
        <2>3. IsTable(tokens', made'.token, SignInToken)
            <3> HIDE DEF token, kept
            <3> QED BY <1>2, <1>4, <1>8, <2>1, <2>2, TableWith
        <2>4. DatabaseOK'
            BY <1>5, <2>1, <2>3 DEF TypeOK, DatabaseOK
        <2>5. MadeOK'
            BY <1>2, <1>8, BoundsAssumption DEF MadeOK
        <2>6. CeremoniesOK'
            BY <1>5, <2>1 DEF TypeOK, CeremoniesOK, Registrations, SignIns
        <2> QED BY <1>5, <1>6, <2>4, <2>5, <2>6, TypeStays DEF TypeOK, RequestsOK
    <1> QED BY <1>3, <1>7, <1>8

LEMMA TypeDeleteToken ==
    ASSUME TypeOK, NEW h \in Handlers, DeleteToken(h)
    PROVE  TypeOK'
    <1>1. request' \in [Actors -> Step]
        BY RequestEnds DEF TypeOK, RequestsOK, DeleteToken
    <1>2. DatabaseOK'
        BY TableWithout DEF DeleteToken, TypeOK, DatabaseOK
    <1> QED BY <1>1, <1>2, TypeStays DEF TypeOK, RequestsOK, DeleteToken

LEMMA TypeLogin ==
    ASSUME TypeOK, NEW h \in Handlers, Login(h)
    PROVE  TypeOK'
    <1>1. PICK i \in 0..made.token, t \in Times :
            Sweep(t) /\ Begins(h, [Idle EXCEPT !.pc = "redeem", !.id = i, !.at = t])
        BY DEF Login
    <1>2. UNCHANGED <<users, passkeys, tokens, server, ceremonies, made, starts, history>>
        BY DEF Login
    <1>3. [Idle EXCEPT !.pc = "redeem", !.id = i, !.at = t] \in Step
        <2>1. i \in Nat /\ t \in Int
            BY AccountsAssumption, BoundsAssumption DEF TypeOK, MadeOK
        <2> QED BY <2>1 DEF Idle, Redeeming, Step
    <1>4. request' \in [Actors -> Step] /\ requests' \in Nat
        BY <1>1, <1>3, RequestBegins DEF TypeOK, Actors
    <1>5. DatabaseOK'
        BY <1>1, <1>2, SweepTypes
    <1>6. starts' \in Nat
        BY <1>2 DEF TypeOK, RequestsOK
    <1> QED BY <1>2, <1>4, <1>5, <1>6, TypeStays DEF TypeOK, RequestsOK

LEMMA TypeRedeem ==
    ASSUME TypeOK, NEW h \in Handlers, Redeem(h)
    PROVE  TypeOK'
    <1> DEFINE i == request[h].id
               t == request[h].at
    <1>1. t \in Int
        BY StepFields DEF Redeem, At, TypeOK, RequestsOK, Actors, Redeeming
    <1>2. UNCHANGED <<users, passkeys, server, ceremonies, counters, answered>>
        BY DEF Redeem
    <1>3. CASE /\ i \in DOMAIN tokens /\ t < tokens[i].expires
               /\ tokens' = Without(tokens, UsedUp(i))
               /\ StartSession(tokens[i].user, t)
               /\ redeemed' = [redeemed EXCEPT ![i] = redeemed[i] + 1]
               /\ Ends(h)
        <2>1. tokens[i].user \in Names /\ i \in 1..made.token
            BY <1>3 DEF TypeOK, DatabaseOK, IsTable, SignInToken
        <2>2. /\ IsTable(sessions', made'.session, Session)
              /\ MadeOK'
              /\ made'.token = made.token /\ made'.passkey = made.passkey
              /\ made'.challenge = made.challenge
            BY <1>1, <1>3, <2>1, StartSessionTypes
        <2>3. IsTable(tokens', made.token, SignInToken)
            BY <1>3, TableWithout DEF TypeOK, DatabaseOK
        <2>4. DatabaseOK'
            BY <1>2, <2>2, <2>3 DEF TypeOK, DatabaseOK
        <2>5. CeremoniesOK'
            BY <1>2, <2>2 DEF TypeOK, CeremoniesOK, Registrations, SignIns
        <2>6. i \in 1..MaxTokens
            BY <2>1, BoundsAssumption DEF TypeOK, MadeOK
        <2>7. redeemed' \in [1..MaxTokens -> Nat]
            <3> HIDE DEF i
            <3> QED BY <1>3, <2>6 DEF TypeOK, HistoryOK
        <2>8. request' \in [Actors -> Step]
            BY <1>3, RequestEnds DEF TypeOK, RequestsOK
        <2> QED BY <1>2, <2>2, <2>4, <2>5, <2>7, <2>8, TypeStays DEF TypeOK, RequestsOK, HistoryOK
    <1>4. CASE /\ tokens' = Without(tokens, {i})
               /\ request' = [request EXCEPT ![h] = [Idle EXCEPT !.pc = "loginPage"]]
               /\ UNCHANGED <<sessions, made, redeemed>>
        <2>1. [Idle EXCEPT !.pc = "loginPage"] \in Step
            BY DEF Idle, Bare, Step
        <2>2. request' \in [Actors -> Step]
            BY <1>4, <2>1 DEF TypeOK, RequestsOK
        <2>3. DatabaseOK'
            BY <1>2, <1>4, TableWithout DEF TypeOK, DatabaseOK
        <2> QED BY <1>2, <1>4, <2>2, <2>3, TypeStays DEF TypeOK, RequestsOK, history
    <1> QED BY <1>3, <1>4 DEF Redeem

\* A page with a prompt, or without one for want of room.
LEMMA TypeOffer ==
    ASSUME TypeOK, NEW h \in Actors, NEW u \in Names \cup {NoName}, NEW set, NEW capacity,
           Offer(h, u, set, capacity),
           u = NoName => set = SignIns /\ capacity = SignInCapacity,
           u # NoName => set = Registrations /\ capacity = RegistrationCapacity
    PROVE  TypeOK'
    <1>1. UNCHANGED <<database, server, counters, history>> /\ Ends(h)
        BY DEF Offer
    <1>2. request' \in [Actors -> Step]
        BY <1>1, RequestEnds DEF TypeOK, RequestsOK
    <1>3. CASE UNCHANGED <<ceremonies, made>>
        BY <1>1, <1>2, <1>3, TypeStays DEF TypeOK, RequestsOK
    <1>4. CASE /\ HasRoom(set, capacity)
               /\ ceremonies' = With(ceremonies, made.challenge + 1, [user |-> u])
               /\ made' = [made EXCEPT !.challenge = made.challenge + 1]
        <2>1. /\ made \in [token : 0..MaxTokens, session : Nat, passkey : Nat,
                           challenge : 0..MaxChallenges]
              /\ made.challenge < MaxChallenges
            BY DEF Offer, TypeOK, MadeOK
        <2>2. /\ made'.challenge = made.challenge + 1 /\ made'.token = made.token
              /\ made'.session = made.session /\ made'.passkey = made.passkey
            BY <1>4, <2>1
        <2>3. MadeOK'
            BY <1>4, <2>1, BoundsAssumption DEF MadeOK
        <2>4. CeremoniesOK'
            BY <1>4, <2>2, OneMoreCeremony DEF TypeOK
        <2>5. DatabaseOK'
            BY <1>1, <2>2 DEF TypeOK, DatabaseOK, database
        <2> QED BY <1>1, <1>2, <2>3, <2>4, <2>5, TypeStays DEF TypeOK, RequestsOK
    <1> QED BY <1>3, <1>4 DEF Offer

LEMMA TypeAccountPage ==
    ASSUME TypeOK, NEW h \in Handlers, AccountPage(h)
    PROVE  TypeOK'
    <1>1. h \in Actors /\ request[h] \in OfSession
        BY StepFields DEF Actors, AccountPage, At, TypeOK, RequestsOK
    <1>2. request[h].user \in Names /\ request[h].user # NoName
        BY <1>1, AccountsAssumption DEF OfSession
    <1> QED BY <1>1, <1>2, TypeOffer DEF AccountPage

LEMMA TypeLoginPage ==
    ASSUME TypeOK, NEW h \in Handlers, LoginPage(h)
    PROVE  TypeOK'
    BY TypeOffer DEF LoginPage, Actors

\* The count of good answers to a challenge.
LEMMA AnsweredTypes ==
    ASSUME TypeOK, NEW c \in DOMAIN ceremonies,
           answered' = [answered EXCEPT ![c] = answered[c] + 1]
    PROVE  answered' \in [1..MaxChallenges -> Nat]
    <1>1. c \in 1..MaxChallenges
        BY BoundsAssumption DEF TypeOK, CeremoniesOK, IsTable, MadeOK
    <1> QED BY <1>1 DEF TypeOK, HistoryOK

LEMMA TypeFinishRegistration ==
    ASSUME TypeOK, NEW h \in Handlers, FinishRegistration(h)
    PROVE  TypeOK'
    <1> DEFINE c == request[h].id
    <1>1. UNCHANGED <<database, server, made, counters, redeemed>> /\ h \in Actors
        BY DEF FinishRegistration, Actors
    <1>2. CeremoniesOK'
        BY <1>1, FewerCeremonies DEF FinishRegistration, TypeOK
    <1>3. answered' \in [1..MaxChallenges -> Nat]
        <2>1. CASE UNCHANGED answered
            BY <2>1 DEF TypeOK, HistoryOK
        <2>2. CASE c \in Registrations /\ answered' = [answered EXCEPT ![c] = answered[c] + 1]
            <3>1. c \in DOMAIN ceremonies
                BY <2>2 DEF Registrations
            <3> QED BY <2>2, <3>1, AnsweredTypes
        <2> QED BY <2>1, <2>2 DEF FinishRegistration
    <1>4. request' \in [Actors -> Step]
        BY <1>1, RequestGoes DEF FinishRegistration, TypeOK, RequestsOK
    <1>5. HistoryOK'
        BY <1>1, <1>3 DEF TypeOK, HistoryOK
    <1> QED BY <1>1, <1>2, <1>4, <1>5, TypeStays DEF TypeOK, RequestsOK

LEMMA TypeInsertPasskey ==
    ASSUME TypeOK, NEW h \in Handlers, InsertPasskey(h)
    PROVE  TypeOK'
    <1> DEFINE row == [user |-> request[h].user]
    <1>1. /\ UNCHANGED <<users, tokens, sessions, server, ceremonies, counters, history>>
          /\ Exists(request[h].user) /\ Ends(h)
          /\ passkeys' = With(passkeys, made.passkey + 1, row)
          /\ made' = [made EXCEPT !.passkey = made.passkey + 1]
        BY DEF InsertPasskey
    <1>2. made \in [token : 0..MaxTokens, session : Nat, passkey : Nat, challenge : 0..MaxChallenges]
        BY DEF TypeOK, MadeOK
    <1>3. /\ made'.passkey = made.passkey + 1 /\ made'.token = made.token
          /\ made'.session = made.session /\ made'.challenge = made.challenge
          /\ made.passkey \in Nat
        BY <1>1, <1>2
    <1>4. row \in Somebody
        BY <1>1 DEF Exists, Somebody, TypeOK, DatabaseOK
    <1>5. IsTable(passkeys', made'.passkey, Somebody)
        <2>1. IsTable(passkeys, made.passkey, Somebody)
            BY DEF TypeOK, DatabaseOK
        <2> HIDE DEF row
        <2> QED BY <1>1, <1>3, <1>4, <2>1, TableWith
    <1>6. DatabaseOK'
        BY <1>1, <1>3, <1>5 DEF TypeOK, DatabaseOK
    <1>7. MadeOK'
        BY <1>1, <1>2 DEF MadeOK
    <1>8. CeremoniesOK'
        BY <1>1, <1>3 DEF TypeOK, CeremoniesOK, Registrations, SignIns
    <1>9. request' \in [Actors -> Step]
        BY <1>1, RequestEnds DEF TypeOK, RequestsOK
    <1> QED BY <1>1, <1>6, <1>7, <1>8, <1>9, TypeStays DEF TypeOK, RequestsOK

LEMMA TypeRemovePasskey ==
    ASSUME TypeOK, NEW h \in Handlers, RemovePasskey(h)
    PROVE  TypeOK'
    <1>1. UNCHANGED <<users, tokens, sessions, server, ceremonies, made, counters, history>>
        BY DEF RemovePasskey
    <1>2. request' \in [Actors -> Step]
        BY RequestEnds, RequestGoes DEF RemovePasskey, Actors, TypeOK, RequestsOK
    <1>3. \/ UNCHANGED passkeys
          \/ \E ids : passkeys' = Without(passkeys, ids)
        BY DEF RemovePasskey
    <1>4. DatabaseOK'
        BY <1>1, <1>3, TableWithout DEF TypeOK, DatabaseOK
    <1> QED BY <1>1, <1>2, <1>4, TypeStays DEF TypeOK, RequestsOK

LEMMA VerifiedIsStep ==
    ASSUME NEW u \in Names
    PROVE  [Idle EXCEPT !.pc = "establish", !.user = u] \in Step
    BY DEF Idle, Verified, Step

LEMMA TypePasskeyLogin ==
    ASSUME TypeOK, NEW h \in Handlers, PasskeyLogin(h)
    PROVE  TypeOK'
    <1>1. /\ UNCHANGED <<database, server, made, starts, redeemed>> /\ h \in Actors
        BY DEF PasskeyLogin, Actors
    <1>2. PICK c \in 0..made.challenge, p \in 0..made.passkey :
            /\ ceremonies' = Without(ceremonies, Taken(c, SignIns))
            /\ \/ /\ c \in SignIns /\ p \in DOMAIN passkeys
                  /\ answered' = [answered EXCEPT ![c] = answered[c] + 1]
                  /\ Begins(h, [Idle EXCEPT !.pc = "establish", !.user = passkeys[p].user])
               \/ /\ Begins(h, [Idle EXCEPT !.pc = "loginPage"])
                  /\ UNCHANGED answered
        BY DEF PasskeyLogin
    <1>3. CeremoniesOK'
        BY <1>1, <1>2, FewerCeremonies DEF TypeOK
    <1>4. CASE /\ c \in SignIns /\ p \in DOMAIN passkeys
               /\ answered' = [answered EXCEPT ![c] = answered[c] + 1]
               /\ Begins(h, [Idle EXCEPT !.pc = "establish", !.user = passkeys[p].user])
        <2>1. passkeys[p].user \in Names
            BY <1>4 DEF TypeOK, DatabaseOK, IsTable, Somebody
        <2>2. [Idle EXCEPT !.pc = "establish", !.user = passkeys[p].user] \in Step
            BY <2>1, VerifiedIsStep
        <2>3. request' \in [Actors -> Step] /\ requests' \in Nat
            BY <1>1, <1>4, <2>2, RequestBegins DEF TypeOK
        <2>4. HistoryOK'
            <3>1. c \in DOMAIN ceremonies
                BY <1>4 DEF SignIns
            <3> QED BY <1>1, <1>4, <3>1, AnsweredTypes DEF TypeOK, HistoryOK
        <2> QED BY <1>1, <1>3, <2>3, <2>4, TypeStays DEF TypeOK, RequestsOK
    <1>5. CASE Begins(h, [Idle EXCEPT !.pc = "loginPage"]) /\ UNCHANGED answered
        <2>1. [Idle EXCEPT !.pc = "loginPage"] \in Step
            BY DEF Idle, Bare, Step
        <2>2. request' \in [Actors -> Step] /\ requests' \in Nat
            BY <1>1, <1>5, <2>1, RequestBegins DEF TypeOK
        <2>3. UNCHANGED history
            BY <1>1, <1>5 DEF history
        <2> QED BY <1>1, <1>3, <2>2, <2>3, TypeStays DEF TypeOK, RequestsOK
    <1> QED BY <1>2, <1>4, <1>5

LEMMA TypeEstablish ==
    ASSUME TypeOK, NEW h \in Handlers, Establish(h)
    PROVE  TypeOK'
    <1>1. PICK t \in Times :
            Sweep(t) /\ request' = [request EXCEPT ![h].pc = "insertSession", ![h].at = t]
        BY DEF Establish
    <1>2. UNCHANGED <<users, passkeys, tokens, server, ceremonies, made, counters, history>>
        BY DEF Establish
    <1>3. request[h] \in Verified /\ t \in Int /\ h \in Actors
        BY StepFields, AccountsAssumption DEF Establish, At, TypeOK, RequestsOK, Actors
    <1>4. [request[h] EXCEPT !.pc = "insertSession", !.at = t] \in Step
        BY <1>3 DEF Verified, Entering, Step
    <1>5. request' = [request EXCEPT ![h] = [request[h] EXCEPT !.pc = "insertSession", !.at = t]]
        BY <1>1
    <1>6. request' \in [Actors -> Step]
        BY <1>4, <1>5 DEF TypeOK, RequestsOK
    <1>7. DatabaseOK'
        BY <1>1, <1>2, SweepTypes
    <1> QED BY <1>2, <1>6, <1>7, TypeStays DEF TypeOK, RequestsOK

LEMMA TypeInsertSession ==
    ASSUME TypeOK, NEW h \in Handlers, InsertSession(h)
    PROVE  TypeOK'
    <1>1. request[h] \in Entering
        BY StepFields DEF InsertSession, At, TypeOK, RequestsOK, Actors
    <1>2. /\ UNCHANGED <<users, passkeys, tokens, server, ceremonies, counters, history>>
          /\ StartSession(request[h].user, request[h].at) /\ Ends(h)
        BY DEF InsertSession
    <1>3. request[h].user \in Names /\ request[h].at \in Int
        BY <1>1 DEF Entering
    <1>4. /\ IsTable(sessions', made'.session, Session)
          /\ MadeOK'
          /\ made'.token = made.token /\ made'.passkey = made.passkey
          /\ made'.challenge = made.challenge
        BY <1>2, <1>3, StartSessionTypes
    <1>5. DatabaseOK'
        BY <1>2, <1>4 DEF TypeOK, DatabaseOK
    <1>6. CeremoniesOK'
        BY <1>2, <1>4 DEF TypeOK, CeremoniesOK, Registrations, SignIns
    <1>7. request' \in [Actors -> Step]
        BY <1>2, RequestEnds DEF TypeOK, RequestsOK
    <1> QED BY <1>2, <1>4, <1>5, <1>6, <1>7, TypeStays DEF TypeOK, RequestsOK

LEMMA TypeNext == TypeOK /\ [Next]_vars => TypeOK'
    <1> SUFFICES ASSUME TypeOK, [Next]_vars PROVE TypeOK'
        OBVIOUS
    <1>1. CASE UNCHANGED vars
        BY <1>1, TypeStays DEF vars, TypeOK, RequestsOK
    <1>2. CASE \E l \in Lifetimes : Start(l)
        BY <1>2, TypeStart
    <1>3. CASE Stop
        BY <1>3, TypeStop
    <1>4. CASE \E c \in DOMAIN ceremonies : Expire(c)
        BY <1>4, TypeExpire
    <1>5. ASSUME NEW h \in Handlers, Handle(h) PROVE TypeOK'
        BY <1>5, TypeSubmit, TypeGetLogin, TypeLogin, TypeRedeem, TypePasskeyLogin, TypeEstablish,
           TypeInsertSession, TypeCount, TypeEndSession, TypeDeleteToken, TypeAccountPage,
           TypeLoginPage, TypeFinishRegistration, TypeInsertPasskey, TypeRemovePasskey
           DEF Handle
    <1>6. CASE \E c \in Commands : Run(c)
        BY <1>6, TypeRun
    <1>7. ASSUME NEW a \in Actors, InsertUser(a) \/ Issue(a) \/ Delete(a) \/ Fails(a) PROVE TypeOK'
        BY <1>7, TypeInsertUser, TypeIssue, TypeDelete, TypeFails
    <1> QED BY <1>1, <1>2, <1>3, <1>4, <1>5, <1>6, <1>7 DEF Next

\* Every variable keeps its type, and the prompts under way stay within their
\* capacities (passkey.rs).
THEOREM AccountsTypeCorrect == Spec => []TypeOK
    <1>1. Init => TypeOK
        BY TypeInit
    <1>2. TypeOK /\ [Next]_vars => TypeOK'
        BY TypeNext
    <1> QED BY <1>1, <1>2, PTL DEF Spec

-----------------------------------------------------------------------------
(* Nobody's passkeys, tokens and sessions.                                 *)

\* The steps that write to the database, and what the others leave alone.
LEMMA Writers ==
    ASSUME [Next]_vars
    PROVE  \/ UNCHANGED database
           \/ \E l \in Lifetimes : Start(l)
           \/ \E a \in Actors : InsertUser(a) \/ Issue(a) \/ Delete(a)
           \/ \E h \in Handlers : \/ Login(h) \/ Establish(h) \/ Redeem(h) \/ InsertSession(h)
                                  \/ EndSession(h) \/ DeleteToken(h)
                                  \/ InsertPasskey(h) \/ RemovePasskey(h)
    <1>1. CASE UNCHANGED vars
        BY <1>1 DEF vars
    <1>2. ASSUME NEW h \in Handlers, Handle(h)
          PROVE  \/ UNCHANGED database
                 \/ Login(h) \/ Establish(h) \/ Redeem(h) \/ InsertSession(h)
                 \/ EndSession(h) \/ DeleteToken(h) \/ InsertPasskey(h) \/ RemovePasskey(h)
        BY <1>2 DEF Handle, Submit, GetLogin, Count, AccountPage, LoginPage, Offer,
                    FinishRegistration, PasskeyLogin
    <1>3. CASE Stop \/ (\E c \in DOMAIN ceremonies : Expire(c)) \/ (\E c \in Commands : Run(c))
               \/ (\E a \in Actors : Fails(a))
        BY <1>3 DEF Stop, Expire, Run, Fails
    <1> QED BY <1>1, <1>2, <1>3 DEF Next

\* Rows of users there are.
Owned(table, names) == \A x \in DOMAIN table : table[x].user \in names

LEMMA OwnedWithout ==
    ASSUME NEW table, NEW ids, NEW names, Owned(table, names)
    PROVE  Owned(Without(table, ids), names)
    BY DEF Owned, Without

LEMMA OwnedWith ==
    ASSUME NEW table, NEW id, NEW row, NEW names, Owned(table, names), row.user \in names
    PROVE  Owned(With(table, id, row), names)
    BY DEF Owned, With

\* What the cascade leaves is of the others.
LEMMA OwnedCascade ==
    ASSUME NEW table, NEW name, NEW names, Owned(table, names)
    PROVE  Owned(Without(table, Of(table, name)), names \ {name})
    BY DEF Owned, Without, Of

LEMMA OrphansAre ==
    NoOrphans <=> Owned(passkeys, users) /\ Owned(tokens, users) /\ Owned(sessions, users)
    BY DEF NoOrphans, Owned

LEMMA OwnedSessionStarts ==
    ASSUME NEW u \in users, NEW t, StartSession(u, t), Owned(sessions, users)
    PROVE  Owned(sessions', users)
    <1> DEFINE row == [user |-> u, created |-> t, expires |-> t + lifetime]
    <1>1. sessions' = With(sessions, made.session + 1, row)
        BY DEF StartSession
    <1>2. row.user \in users
        OBVIOUS
    <1> HIDE DEF row
    <1> QED BY <1>1, <1>2, OwnedWith

LEMMA OwnedSwept ==
    ASSUME NEW t, Sweep(t), Owned(sessions, users)
    PROVE  Owned(sessions', users)
    BY OwnedWithout DEF Sweep

LEMMA OwnedIssue ==
    ASSUME NEW a, Issue(a), Owned(tokens, users)
    PROVE  Owned(tokens', users)
    <1>1. PICK t \in Times :
            LET name == request[a].name
                kept == Without(tokens, Replaced(name, t))
                token == [user |-> name, expires |-> t + TokenLifetime]
            IN  \/ tokens' = kept
                \/ Exists(name) /\ tokens' = With(kept, made.token + 1, token)
        BY DEF Issue
    <1> DEFINE name == request[a].name
               kept == Without(tokens, Replaced(name, t))
               token == [user |-> name, expires |-> t + TokenLifetime]
    <1>2. Owned(kept, users)
        BY OwnedWithout
    <1>3. CASE tokens' = kept
        BY <1>2, <1>3
    <1>4. CASE name \in users /\ tokens' = With(kept, made.token + 1, token)
        <2>1. token.user \in users
            BY <1>4
        <2> HIDE DEF token, kept, name
        <2> QED BY <1>2, <1>4, <2>1, OwnedWith
    <1> QED BY <1>1, <1>3, <1>4 DEF Exists

LEMMA NoOrphansNext ==
    ASSUME TypeOK, NoOrphans, [Next]_vars
    PROVE  NoOrphans'
    <1>0. Owned(passkeys, users) /\ Owned(tokens, users) /\ Owned(sessions, users)
        BY OrphansAre
    <1> SUFFICES Owned(passkeys', users') /\ Owned(tokens', users') /\ Owned(sessions', users')
        BY DEF NoOrphans, Owned
    <1>1. CASE UNCHANGED database
        BY <1>0, <1>1 DEF database
    <1>2. ASSUME NEW l \in Lifetimes, Start(l)
          PROVE  Owned(sessions', users) /\ UNCHANGED <<users, passkeys, tokens>>
        <2>1. CASE UNCHANGED sessions
            BY <1>0, <1>2, <2>1 DEF Start
        <2>2. CASE sessions' = [x \in DOMAIN sessions |->
                                IF Outlives(sessions[x], l)
                                THEN [sessions[x] EXCEPT !.expires = sessions[x].created + l]
                                ELSE sessions[x]]
            <3>1. ASSUME NEW x \in DOMAIN sessions PROVE sessions'[x].user = sessions[x].user
                <4>1. sessions[x] \in Session
                    BY DEF TypeOK, DatabaseOK, IsTable
                <4> QED BY <2>2, <4>1 DEF Session
            <3> QED BY <1>0, <1>2, <2>2, <3>1 DEF Owned, Start
        <2> QED BY <1>2, <2>1, <2>2 DEF Start
    <1>3. ASSUME NEW a \in Actors, InsertUser(a)
          PROVE  users \subseteq users' /\ UNCHANGED <<passkeys, tokens, sessions>>
        BY <1>3 DEF InsertUser
    <1>4. ASSUME NEW a \in Actors, Issue(a)
          PROVE  Owned(tokens', users) /\ UNCHANGED <<users, passkeys, sessions>>
        BY <1>0, <1>4, OwnedIssue DEF Issue
    <1>5. ASSUME NEW a \in Actors, Delete(a)
          PROVE  Owned(passkeys', users') /\ Owned(tokens', users') /\ Owned(sessions', users')
        BY <1>0, <1>5, OwnedCascade DEF Delete
    <1>6. ASSUME NEW h \in Handlers, Login(h) \/ Establish(h)
          PROVE  Owned(sessions', users) /\ UNCHANGED <<users, passkeys, tokens>>
        BY <1>0, <1>6, OwnedSwept DEF Login, Establish
    <1>7. ASSUME NEW h \in Handlers, Redeem(h)
          PROVE  /\ Owned(sessions', users) /\ Owned(tokens', users)
                 /\ UNCHANGED <<users, passkeys>>
        <2>1. UNCHANGED <<users, passkeys>> /\ \E ids : tokens' = Without(tokens, ids)
            BY <1>7 DEF Redeem
        <2>2. \/ UNCHANGED sessions
              \/ \E t : \E i \in DOMAIN tokens : StartSession(tokens[i].user, t)
            BY <1>7 DEF Redeem
        <2>3. \A i \in DOMAIN tokens : tokens[i].user \in users
            BY <1>0 DEF Owned
        <2> QED BY <1>0, <2>1, <2>2, <2>3, OwnedWithout, OwnedSessionStarts
    <1>8. ASSUME NEW h \in Handlers, InsertSession(h)
          PROVE  Owned(sessions', users) /\ UNCHANGED <<users, passkeys, tokens>>
        BY <1>0, <1>8, OwnedSessionStarts DEF InsertSession, Exists
    <1>9. ASSUME NEW h \in Handlers, EndSession(h)
          PROVE  Owned(sessions', users) /\ UNCHANGED <<users, passkeys, tokens>>
        BY <1>0, <1>9, OwnedWithout DEF EndSession
    <1>10. ASSUME NEW h \in Handlers, DeleteToken(h)
           PROVE  Owned(tokens', users) /\ UNCHANGED <<users, passkeys, sessions>>
        BY <1>0, <1>10, OwnedWithout DEF DeleteToken
    <1>11. ASSUME NEW h \in Handlers, InsertPasskey(h)
           PROVE  Owned(passkeys', users) /\ UNCHANGED <<users, tokens, sessions>>
        <2> DEFINE row == [user |-> request[h].user]
        <2>1. passkeys' = With(passkeys, made.passkey + 1, row) /\ row.user \in users
            BY <1>11 DEF InsertPasskey, Exists
        <2>2. UNCHANGED <<users, tokens, sessions>>
            BY <1>11 DEF InsertPasskey
        <2> HIDE DEF row
        <2> QED BY <1>0, <2>1, <2>2, OwnedWith
    <1>12. ASSUME NEW h \in Handlers, RemovePasskey(h)
           PROVE  Owned(passkeys', users) /\ UNCHANGED <<users, tokens, sessions>>
        <2>1. UNCHANGED passkeys \/ \E ids : passkeys' = Without(passkeys, ids)
            BY <1>12 DEF RemovePasskey
        <2> QED BY <1>0, <1>12, <2>1, OwnedWithout DEF RemovePasskey
    <1>13. CASE \E a \in Actors : InsertUser(a)
        BY <1>0, <1>3, <1>13 DEF Owned
    <1>14. CASE \E l \in Lifetimes : Start(l)
        BY <1>0, <1>2, <1>14
    <1>15. CASE \E a \in Actors : Issue(a) \/ Delete(a)
        BY <1>0, <1>4, <1>5, <1>15
    <1>16. CASE \E h \in Handlers : Login(h) \/ Establish(h) \/ Redeem(h) \/ InsertSession(h)
                                    \/ EndSession(h)
        BY <1>0, <1>6, <1>7, <1>8, <1>9, <1>16
    <1>17. CASE \E h \in Handlers : DeleteToken(h) \/ InsertPasskey(h) \/ RemovePasskey(h)
        BY <1>0, <1>10, <1>11, <1>12, <1>17
    <1> QED BY <1>1, <1>13, <1>14, <1>15, <1>16, <1>17, Writers

\* Whatever requests are under way when a user is deleted, no passkey, token or
\* session of theirs is left or added afterwards (users::delete, the foreign keys
\* of schema.rs 4.0).
THEOREM AccountsNoOrphans == Spec => []NoOrphans
    <1>1. Init => NoOrphans
        BY AccountsAssumption DEF Init, NoOrphans, Empty
    <1>2. TypeOK /\ NoOrphans /\ [Next]_vars => NoOrphans'
        BY NoOrphansNext
    <1> QED BY <1>1, <1>2, AccountsTypeCorrect, PTL DEF Spec

-----------------------------------------------------------------------------
(* One token each.                                                         *)

SingleEach(table) == \A i, j \in DOMAIN table : table[i].user = table[j].user => i = j

LEMMA SingleWithout ==
    ASSUME NEW table, NEW ids, SingleEach(table)
    PROVE  SingleEach(Without(table, ids))
    BY DEF SingleEach, Without

LEMMA SingleWith ==
    ASSUME NEW table, NEW id, NEW row, SingleEach(table),
           \A x \in DOMAIN table : table[x].user # row.user
    PROVE  SingleEach(With(table, id, row))
    BY DEF SingleEach, With

LEMMA OneTokenEachNext ==
    ASSUME OneTokenEach, [Next]_vars
    PROVE  OneTokenEach'
    <1>0. SingleEach(tokens)
        BY DEF OneTokenEach, SingleEach
    <1> SUFFICES SingleEach(tokens')
        BY DEF OneTokenEach, SingleEach
    <1>1. CASE UNCHANGED tokens
        BY <1>0, <1>1
    <1>2. CASE \E ids : tokens' = Without(tokens, ids)
        BY <1>0, <1>2, SingleWithout
    <1>3. ASSUME NEW a \in Actors, Issue(a) PROVE SingleEach(tokens')
        <2>1. PICK t \in Times :
                LET name == request[a].name
                    kept == Without(tokens, Replaced(name, t))
                    token == [user |-> name, expires |-> t + TokenLifetime]
                IN  tokens' = kept \/ tokens' = With(kept, made.token + 1, token)
            BY <1>3 DEF Issue
        <2> DEFINE name == request[a].name
                   kept == Without(tokens, Replaced(name, t))
                   token == [user |-> name, expires |-> t + TokenLifetime]
        <2>2. SingleEach(kept)
            BY <1>0, SingleWithout
        <2>3. \A x \in DOMAIN kept : kept[x].user # token.user
            BY DEF Without, Replaced, Of
        <2>4. CASE tokens' = kept
            BY <2>2, <2>4
        <2>5. CASE tokens' = With(kept, made.token + 1, token)
            <3> HIDE DEF kept, token
            <3> QED BY <2>2, <2>3, <2>5, SingleWith
        <2> QED BY <2>1, <2>4, <2>5
    <1>4. \/ UNCHANGED tokens
          \/ \E ids : tokens' = Without(tokens, ids)
          \/ \E a \in Actors : Issue(a)
        <2>1. CASE UNCHANGED database
            BY <2>1 DEF database
        <2>2. CASE \E l \in Lifetimes : Start(l)
            BY <2>2 DEF Start
        <2>3. CASE \E a \in Actors : InsertUser(a) \/ Issue(a) \/ Delete(a)
            BY <2>3 DEF InsertUser, Delete
        <2>4. CASE \E h \in Handlers : \/ Login(h) \/ Establish(h) \/ Redeem(h) \/ InsertSession(h)
                                       \/ EndSession(h) \/ DeleteToken(h)
                                       \/ InsertPasskey(h) \/ RemovePasskey(h)
            BY <2>4 DEF Login, Establish, Redeem, InsertSession, EndSession, DeleteToken,
                        InsertPasskey, RemovePasskey
        <2> QED BY <2>1, <2>2, <2>3, <2>4, Writers
    <1> QED BY <1>1, <1>2, <1>3, <1>4

\* However requests and commands interleave, a user never has two tokens that
\* could sign them in (login_tokens.rs: issue).
THEOREM AccountsOneTokenEach == Spec => []OneTokenEach
    <1>1. Init => OneTokenEach
        BY DEF Init, OneTokenEach, Empty
    <1>2. OneTokenEach /\ [Next]_vars => OneTokenEach'
        BY OneTokenEachNext
    <1> QED BY <1>1, <1>2, PTL DEF Spec

-----------------------------------------------------------------------------
(* The lifetime of a session.                                              *)

Within(table, l) == \A s \in DOMAIN table : table[s].expires <= table[s].created + l

LEMMA WithinWithout ==
    ASSUME NEW table, NEW ids, NEW l, Within(table, l)
    PROVE  Within(Without(table, ids), l)
    BY DEF Within, Without

LEMMA SessionStartsWithin ==
    ASSUME TypeOK, NEW u, NEW t \in Int, StartSession(u, t), Within(sessions, lifetime)
    PROVE  Within(sessions', lifetime)
    <1> DEFINE row == [user |-> u, created |-> t, expires |-> t + lifetime]
    <1>1. sessions' = With(sessions, made.session + 1, row)
        BY DEF StartSession
    <1>2. lifetime \in Int
        BY AccountsAssumption DEF TypeOK, ServerOK
    <1>3. row.expires <= row.created + lifetime
        BY <1>2
    <1> HIDE DEF row
    <1> QED BY <1>1, <1>3 DEF Within, With

LEMMA CappedAtStart ==
    ASSUME TypeOK, NEW l \in Lifetimes,
           sessions' = [x \in DOMAIN sessions |->
                            IF Outlives(sessions[x], l)
                            THEN [sessions[x] EXCEPT !.expires = sessions[x].created + l]
                            ELSE sessions[x]]
    PROVE  Within(sessions', l)
    <1>1. l \in Int
        BY AccountsAssumption
    <1>2. ASSUME NEW x \in DOMAIN sessions
          PROVE  sessions'[x].expires <= sessions'[x].created + l
        <2>1. sessions[x] \in Session
            BY DEF TypeOK, DatabaseOK, IsTable
        <2> QED BY <1>1, <2>1 DEF Session, Outlives
    <1> QED BY <1>2 DEF Within

LEMMA LifetimesCappedNext ==
    ASSUME TypeOK, LifetimesCapped, [Next]_vars
    PROVE  LifetimesCapped'
    <1>1. ASSUME NEW l \in Lifetimes, Start(l) PROVE LifetimesCapped'
        <2>1. lifetime' = l /\ (capped' => Within(sessions', l))
            BY <1>1, CappedAtStart DEF Start
        <2> QED BY <2>1 DEF LifetimesCapped, Within
    <1>2. CASE Stop
        BY <1>2 DEF Stop, LifetimesCapped
    <1>3. ASSUME UNCHANGED server, Within(sessions, lifetime) => Within(sessions', lifetime)
          PROVE  LifetimesCapped'
        BY <1>3 DEF LifetimesCapped, Within, server
    <1>4. ASSUME UNCHANGED server \/ UNCHANGED vars, UNCHANGED sessions PROVE LifetimesCapped'
        BY <1>4 DEF LifetimesCapped, server, vars
    <1>5. ASSUME NEW h \in Handlers, Handle(h) PROVE LifetimesCapped'
        <2>1. UNCHANGED server
            BY <1>5 DEF Handle, Submit, GetLogin, Login, Redeem, PasskeyLogin, Establish,
                        InsertSession, Count, EndSession, DeleteToken, AccountPage, LoginPage,
                        Offer, FinishRegistration, InsertPasskey, RemovePasskey
        <2>2. CASE Login(h) \/ Establish(h) \/ EndSession(h)
            <3>1. UNCHANGED sessions \/ \E ids : sessions' = Without(sessions, ids)
                BY <2>2 DEF Login, Establish, EndSession, Sweep
            <3> QED BY <1>3, <2>1, <3>1, WithinWithout
        <2>3. CASE Redeem(h)
            <3>1. CASE UNCHANGED sessions
                BY <1>4, <2>1, <3>1
            <3>2. CASE request[h].at \in Int /\ \E u : StartSession(u, request[h].at)
                BY <1>3, <2>1, <3>2, SessionStartsWithin
            <3>3. request[h].at \in Int
                BY <2>3, StepFields DEF Redeem, At, Redeeming, TypeOK, RequestsOK, Actors
            <3> QED BY <2>3, <3>1, <3>2, <3>3 DEF Redeem
        <2>4. CASE InsertSession(h)
            <3>1. request[h].at \in Int
                BY <2>4, StepFields DEF InsertSession, At, Entering, TypeOK, RequestsOK, Actors
            <3> QED BY <1>3, <2>1, <2>4, <3>1, SessionStartsWithin DEF InsertSession
        <2>5. CASE UNCHANGED sessions
            BY <1>4, <2>1, <2>5
        <2> QED BY <1>5, <2>2, <2>3, <2>4, <2>5
                DEF Handle, Submit, GetLogin, PasskeyLogin, Count, DeleteToken, AccountPage,
                    LoginPage, Offer, FinishRegistration, InsertPasskey, RemovePasskey, database
    <1>6. ASSUME NEW a \in Actors, InsertUser(a) \/ Issue(a) \/ Fails(a) PROVE LifetimesCapped'
        BY <1>4, <1>6 DEF InsertUser, Issue, Fails, database
    <1>7. ASSUME NEW a \in Actors, Delete(a) PROVE LifetimesCapped'
        <2>1. UNCHANGED server /\ \E ids : sessions' = Without(sessions, ids)
            BY <1>7 DEF Delete
        <2> QED BY <1>3, <2>1, WithinWithout
    <1>8. CASE (\E c \in DOMAIN ceremonies : Expire(c)) \/ (\E c \in Commands : Run(c))
        BY <1>4, <1>8 DEF Expire, Run, database
    <1>9. CASE UNCHANGED vars
        BY <1>4, <1>9 DEF vars, database
    <1> QED BY <1>1, <1>2, <1>5, <1>6, <1>7, <1>8, <1>9 DEF Next

\* While a receiver whose start cut the sessions serves, no session outlives the
\* lifetime of its binary, whatever lifetimes came before (sessions.rs:
\* cap_lifetimes, create).
THEOREM AccountsLifetimesCapped == Spec => []LifetimesCapped
    <1>1. Init => LifetimesCapped
        BY DEF Init, LifetimesCapped
    <1>2. TypeOK /\ LifetimesCapped /\ [Next]_vars => LifetimesCapped'
        BY LifetimesCappedNext
    <1> QED BY <1>1, <1>2, AccountsTypeCorrect, PTL DEF Spec

-----------------------------------------------------------------------------
(* The last passkey.                                                       *)

LEMMA WayInKeptNext ==
    ASSUME TypeOK, [Next]_vars, NEW u \in users \cap users', Of(passkeys, u) # {}
    PROVE  Of(passkeys', u) # {}
    <1>1. CASE UNCHANGED passkeys
        BY <1>1
    <1>2. ASSUME NEW a \in Actors, Delete(a) PROVE Of(passkeys', u) # {}
        <2>1. /\ users' = users \ {request[a].name}
              /\ passkeys' = Without(passkeys, Of(passkeys, request[a].name))
            BY <1>2 DEF Delete
        <2>2. u # request[a].name
            BY <2>1
        <2>3. PICK p \in DOMAIN passkeys : passkeys[p].user = u
            BY DEF Of
        <2>4. p \notin Of(passkeys, request[a].name)
            BY <2>2, <2>3 DEF Of
        <2> QED BY <2>1, <2>3, <2>4 DEF Of, Without
    <1>3. ASSUME NEW h \in Handlers, InsertPasskey(h) PROVE Of(passkeys', u) # {}
        <2> DEFINE row == [user |-> request[h].user]
        <2>1. passkeys' = With(passkeys, made.passkey + 1, row)
            BY <1>3 DEF InsertPasskey
        <2>2. made.passkey + 1 \notin DOMAIN passkeys
            BY DEF TypeOK, MadeOK, DatabaseOK, IsTable
        <2>3. PICK p \in DOMAIN passkeys : passkeys[p].user = u
            BY DEF Of
        <2> HIDE DEF row
        <2> QED BY <2>1, <2>2, <2>3 DEF Of, With
    <1>4. ASSUME NEW h \in Handlers, RemovePasskey(h), passkeys' # passkeys
          PROVE  Of(passkeys', u) # {}
        <2> DEFINE v == request[h].user
                   own == {request[h].id} \cap Of(passkeys, v)
        <2>1. Others(v, request[h].id) # {} /\ passkeys' = Without(passkeys, own)
            BY <1>4 DEF RemovePasskey
        <2>2. CASE u = v
            <3>1. PICK p \in Of(passkeys, v) : p # request[h].id
                BY <2>1 DEF Others
            <3>2. p \notin own
                BY <3>1
            <3> HIDE DEF own
            <3> QED BY <2>1, <2>2, <3>1, <3>2 DEF Of, Without
        <2>3. CASE u # v
            <3>1. PICK p \in DOMAIN passkeys : passkeys[p].user = u
                BY DEF Of
            <3>2. p \notin own
                BY <2>3, <3>1 DEF Of
            <3> HIDE DEF own
            <3> QED BY <2>1, <3>1, <3>2 DEF Of, Without
        <2> QED BY <2>2, <2>3
    <1>5. CASE UNCHANGED database
        BY <1>1, <1>5 DEF database
    <1>6. CASE \E l \in Lifetimes : Start(l)
        BY <1>1, <1>6 DEF Start
    <1>7. CASE \E a \in Actors : InsertUser(a) \/ Issue(a) \/ Delete(a)
        BY <1>1, <1>2, <1>7 DEF InsertUser, Issue
    <1>8. CASE \E h \in Handlers : \/ Login(h) \/ Establish(h) \/ Redeem(h) \/ InsertSession(h)
                                   \/ EndSession(h) \/ DeleteToken(h)
                                   \/ InsertPasskey(h) \/ RemovePasskey(h)
        BY <1>1, <1>3, <1>4, <1>8 DEF Login, Establish, Redeem, InsertSession, EndSession,
                                      DeleteToken
    <1> QED BY <1>5, <1>6, <1>7, <1>8, Writers

\* No step of any request or command takes the last passkey of a user who stays,
\* also not two removals at once (passkeys.rs: delete).
THEOREM AccountsWayInKept == Spec => WayInKept
    <1>1. TypeOK /\ [Next]_vars
            => [\A u \in users \cap users' : Of(passkeys, u) # {} => Of(passkeys', u) # {}]_vars
        BY WayInKeptNext
    <1> QED BY <1>1, AccountsTypeCorrect, PTL DEF Spec, WayInKept

-----------------------------------------------------------------------------
(* Used once.                                                              *)

LEMMA LivesType ==
    ASSUME NEW ids, NEW live, NEW last
    PROVE  Lives(ids, live, last) \in [ids -> {"unissued", "live", "ended"}]
    BY DEF Lives

\* Steps that do not accept a token: they void some, and may issue one.
LEMMA TokensNotUsed ==
    ASSUME TypeOK, TypeOK', UNCHANGED redeemed, NEW gone,
           \/ made'.token = made.token /\ DOMAIN tokens' = DOMAIN tokens \ gone
           \/ /\ made'.token = made.token + 1
              /\ DOMAIN tokens' = (DOMAIN tokens \ gone) \cup {made.token + 1}
    PROVE  Token1!Next
    <1> DEFINE old == Lives(1..MaxTokens, DOMAIN tokens, made.token)
               new == Lives(1..MaxTokens, DOMAIN tokens', made'.token)
    <1>1. MaxTokens \in Nat /\ made.token \in Nat /\ DOMAIN tokens \in SUBSET (1..made.token)
        BY BoundsAssumption DEF TypeOK, MadeOK, DatabaseOK, IsTable
    <1>2. \A i \in 1..MaxTokens : \/ old[i] = "live" /\ new[i] = "ended"
                                  \/ old[i] = "unissued" /\ new[i] = "live"
                                  \/ new[i] = old[i]
        <2> SUFFICES ASSUME NEW i \in 1..MaxTokens
                     PROVE  \/ old[i] = "live" /\ new[i] = "ended"
                            \/ old[i] = "unissued" /\ new[i] = "live"
                            \/ new[i] = old[i]
            OBVIOUS
        <2>1. CASE i = made.token + 1
            BY <1>1, <2>1 DEF Lives
        <2>2. CASE i # made.token + 1
            <3>1. /\ i \in DOMAIN tokens' <=> i \in DOMAIN tokens /\ i \notin gone
                  /\ i <= made'.token <=> i <= made.token
                  /\ i \in DOMAIN tokens => i <= made.token
                BY <1>1, <2>2
            <3> QED BY <3>1 DEF Lives
        <2> QED BY <2>1, <2>2
    <1>3. new \in [1..MaxTokens -> {"unissued", "live", "ended"}]
        BY LivesType
    <1>4. redeemed' \in [1..MaxTokens -> Nat] /\ \A i \in 1..MaxTokens : redeemed'[i] = redeemed[i]
        BY DEF TypeOK, HistoryOK
    <1> HIDE DEF old, new
    <1> QED BY <1>2, <1>3, <1>4
            DEF old, new, Token1!Next, Token1!Issue, Token1!Void, Token1!Keep

\* A step that accepts one ends it.
LEMMA TokenUsed ==
    ASSUME TypeOK, TypeOK', NEW i \in DOMAIN tokens,
           redeemed' = [redeemed EXCEPT ![i] = redeemed[i] + 1],
           made'.token = made.token, DOMAIN tokens' = DOMAIN tokens \ {i}
    PROVE  Token1!Next
    <1> DEFINE old == Lives(1..MaxTokens, DOMAIN tokens, made.token)
               new == Lives(1..MaxTokens, DOMAIN tokens', made'.token)
    <1>1. /\ MaxTokens \in Nat /\ made.token \in Nat /\ DOMAIN tokens \in SUBSET (1..made.token)
          /\ i \in 1..MaxTokens
        BY BoundsAssumption DEF TypeOK, MadeOK, DatabaseOK, IsTable
    <1>2. /\ old[i] = "live" /\ new[i] = "ended"
          /\ \A j \in 1..MaxTokens : j # i => new[j] = old[j]
        BY <1>1 DEF Lives
    <1>3. new \in [1..MaxTokens -> {"unissued", "live", "ended"}]
        BY LivesType
    <1>4. redeemed' \in [1..MaxTokens -> Nat]
        BY DEF TypeOK, HistoryOK
    <1>5. \A j \in 1..MaxTokens : redeemed'[j] = IF j = i THEN redeemed[j] + 1 ELSE redeemed[j]
        BY DEF TypeOK, HistoryOK
    <1> HIDE DEF old, new
    <1> QED BY <1>2, <1>3, <1>4, <1>5 DEF old, new, Token1!Next, Token1!Use, Token1!Keep

LEMMA TokenSteps ==
    ASSUME TypeOK, [Next]_vars
    PROVE  [Token1!Next]_Token1!vars
    <1>1. TypeOK'
        BY TypeNext
    <1>2. CASE UNCHANGED <<tokens, redeemed>> /\ made'.token = made.token
        BY <1>2 DEF Token1!vars
    <1>3. CASE UNCHANGED redeemed /\ made'.token = made.token /\ \E ids : tokens' = Without(tokens, ids)
        BY <1>1, <1>3, TokensNotUsed DEF Without
    <1>4. ASSUME NEW a \in Actors, Issue(a) PROVE [Token1!Next]_Token1!vars
        <2>1. PICK t \in Times :
                LET name == request[a].name
                    kept == Without(tokens, Replaced(name, t))
                    token == [user |-> name, expires |-> t + TokenLifetime]
                IN  \/ tokens' = kept /\ UNCHANGED made
                    \/ /\ tokens' = With(kept, made.token + 1, token)
                       /\ made' = [made EXCEPT !.token = made.token + 1]
            BY <1>4 DEF Issue
        <2> DEFINE gone == Replaced(request[a].name, t)
        <2>2. UNCHANGED redeemed
            BY <1>4 DEF Issue, history
        <2>3. \/ UNCHANGED made /\ DOMAIN tokens' = DOMAIN tokens \ gone
              \/ /\ made' = [made EXCEPT !.token = made.token + 1]
                 /\ DOMAIN tokens' = (DOMAIN tokens \ gone) \cup {made.token + 1}
            BY <2>1 DEF Without, With
        <2>4. made' = [made EXCEPT !.token = made.token + 1] => made'.token = made.token + 1
            BY DEF TypeOK, MadeOK
        <2> HIDE DEF gone
        <2> QED BY <1>1, <2>2, <2>3, <2>4, TokensNotUsed
    <1>5. ASSUME NEW h \in Handlers, Redeem(h) PROVE [Token1!Next]_Token1!vars
        <2> DEFINE i == request[h].id
        <2>1. \/ /\ i \in DOMAIN tokens
                 /\ tokens' = Without(tokens, {i})
                 /\ made' = [made EXCEPT !.session = made.session + 1]
                 /\ redeemed' = [redeemed EXCEPT ![i] = redeemed[i] + 1]
              \/ tokens' = Without(tokens, {i}) /\ UNCHANGED <<made, redeemed>>
            BY <1>5 DEF Redeem, StartSession, UsedUp
        <2>2. made' = [made EXCEPT !.session = made.session + 1] => made'.token = made.token
            BY DEF TypeOK, MadeOK
        <2> HIDE DEF i
        <2>3. CASE tokens' = Without(tokens, {i}) /\ UNCHANGED <<made, redeemed>>
            BY <1>3, <2>3
        <2>4. CASE /\ i \in DOMAIN tokens /\ tokens' = Without(tokens, {i})
                   /\ made'.token = made.token
                   /\ redeemed' = [redeemed EXCEPT ![i] = redeemed[i] + 1]
            BY <1>1, <2>4, TokenUsed DEF Without
        <2> QED BY <2>1, <2>2, <2>3, <2>4
    <1>6. ASSUME NEW h \in Handlers, Handle(h), ~Redeem(h)
          PROVE  \/ UNCHANGED <<tokens, redeemed>> /\ made'.token = made.token
                 \/ UNCHANGED redeemed /\ made'.token = made.token /\ \E ids : tokens' = Without(tokens, ids)
        <2>1. /\ \/ UNCHANGED made
                 \/ made' = [made EXCEPT !.session = made.session + 1]
                 \/ made' = [made EXCEPT !.passkey = made.passkey + 1]
                 \/ made' = [made EXCEPT !.challenge = made.challenge + 1]
              /\ UNCHANGED redeemed
              /\ UNCHANGED tokens \/ \E ids : tokens' = Without(tokens, ids)
            BY <1>6 DEF Handle, Submit, GetLogin, Login, PasskeyLogin, Establish, InsertSession,
                        StartSession, Count, EndSession, DeleteToken, AccountPage, LoginPage, Offer,
                        FinishRegistration, InsertPasskey, RemovePasskey, database, history
        <2>2. made'.token = made.token
            BY <2>1 DEF TypeOK, MadeOK
        <2> QED BY <2>1, <2>2
    <1>7. CASE UNCHANGED vars
        BY <1>2, <1>7 DEF vars, database, history
    <1>8. CASE \/ \E l \in Lifetimes : Start(l)
               \/ Stop
               \/ \E c \in DOMAIN ceremonies : Expire(c)
               \/ \E c \in Commands : Run(c)
               \/ \E a \in Actors : InsertUser(a) \/ Fails(a)
        BY <1>2, <1>8 DEF Start, Stop, Expire, Run, InsertUser, Fails, database, history
    <1>9. CASE \E a \in Actors : Delete(a)
        BY <1>3, <1>9 DEF Delete, history
    <1>10. CASE \E h \in Handlers : Handle(h)
        BY <1>2, <1>3, <1>5, <1>6, <1>10
    <1> QED BY <1>4, <1>7, <1>8, <1>9, <1>10 DEF Next

\* A sign-in token is issued, lives, and ends once, used or void: however many
\* requests present it, at most one gets a session of it (login_tokens.rs: redeem).
THEOREM AccountsTokenUsedOnce == Spec => TokenUsedOnce
    <1>1. Init => Token1!Init
        BY BoundsAssumption DEF Init, Empty, Token1!Init, Lives
    <1>2. TypeOK /\ [Next]_vars => [Token1!Next]_Token1!vars
        BY TokenSteps
    <1> QED BY <1>1, <1>2, AccountsTypeCorrect, PTL DEF Spec, TokenUsedOnce, Token1!Spec

\* The same of challenges: steps that accept none,
LEMMA ChallengesNotUsed ==
    ASSUME TypeOK, TypeOK', UNCHANGED answered, NEW gone,
           \/ made'.challenge = made.challenge /\ DOMAIN ceremonies' = DOMAIN ceremonies \ gone
           \/ /\ made'.challenge = made.challenge + 1
              /\ DOMAIN ceremonies' = DOMAIN ceremonies \cup {made.challenge + 1}
    PROVE  Challenge!Next
    <1> DEFINE old == Lives(1..MaxChallenges, DOMAIN ceremonies, made.challenge)
               new == Lives(1..MaxChallenges, DOMAIN ceremonies', made'.challenge)
    <1>1. /\ MaxChallenges \in Nat /\ made.challenge \in Nat
          /\ DOMAIN ceremonies \in SUBSET (1..made.challenge)
        BY BoundsAssumption DEF TypeOK, MadeOK, CeremoniesOK, IsTable
    <1>2. \A i \in 1..MaxChallenges : \/ old[i] = "live" /\ new[i] = "ended"
                                      \/ old[i] = "unissued" /\ new[i] = "live"
                                      \/ new[i] = old[i]
        <2> SUFFICES ASSUME NEW i \in 1..MaxChallenges
                     PROVE  \/ old[i] = "live" /\ new[i] = "ended"
                            \/ old[i] = "unissued" /\ new[i] = "live"
                            \/ new[i] = old[i]
            OBVIOUS
        <2>1. CASE i = made.challenge + 1
            BY <1>1, <2>1 DEF Lives
        <2>2. CASE i # made.challenge + 1
            <3>1. /\ i \in DOMAIN ceremonies' => i \in DOMAIN ceremonies
                  /\ i <= made'.challenge <=> i <= made.challenge
                  /\ i \in DOMAIN ceremonies => i <= made.challenge
                BY <1>1, <2>2
            <3> QED BY <3>1 DEF Lives
        <2> QED BY <2>1, <2>2
    <1>3. new \in [1..MaxChallenges -> {"unissued", "live", "ended"}]
        BY LivesType
    <1>4. /\ answered' \in [1..MaxChallenges -> Nat]
          /\ \A i \in 1..MaxChallenges : answered'[i] = answered[i]
        BY DEF TypeOK, HistoryOK
    <1> HIDE DEF old, new
    <1> QED BY <1>2, <1>3, <1>4
            DEF old, new, Challenge!Next, Challenge!Issue, Challenge!Void, Challenge!Keep

\* and steps that accept one.
LEMMA ChallengeUsed ==
    ASSUME TypeOK, TypeOK', NEW i \in DOMAIN ceremonies,
           answered' = [answered EXCEPT ![i] = answered[i] + 1],
           made'.challenge = made.challenge, DOMAIN ceremonies' = DOMAIN ceremonies \ {i}
    PROVE  Challenge!Next
    <1> DEFINE old == Lives(1..MaxChallenges, DOMAIN ceremonies, made.challenge)
               new == Lives(1..MaxChallenges, DOMAIN ceremonies', made'.challenge)
    <1>1. /\ MaxChallenges \in Nat /\ made.challenge \in Nat
          /\ DOMAIN ceremonies \in SUBSET (1..made.challenge)
          /\ i \in 1..MaxChallenges
        BY BoundsAssumption DEF TypeOK, MadeOK, CeremoniesOK, IsTable
    <1>2. /\ old[i] = "live" /\ new[i] = "ended"
          /\ \A j \in 1..MaxChallenges : j # i => new[j] = old[j]
        BY <1>1 DEF Lives
    <1>3. new \in [1..MaxChallenges -> {"unissued", "live", "ended"}]
        BY LivesType
    <1>4. answered' \in [1..MaxChallenges -> Nat]
        BY DEF TypeOK, HistoryOK
    <1>5. \A j \in 1..MaxChallenges : answered'[j] = IF j = i THEN answered[j] + 1 ELSE answered[j]
        BY DEF TypeOK, HistoryOK
    <1> HIDE DEF old, new
    <1> QED BY <1>2, <1>3, <1>4, <1>5 DEF old, new, Challenge!Next, Challenge!Use, Challenge!Keep

LEMMA ChallengeSteps ==
    ASSUME TypeOK, [Next]_vars
    PROVE  [Challenge!Next]_Challenge!vars
    <1>1. TypeOK'
        BY TypeNext
    <1>2. CASE UNCHANGED <<ceremonies, answered>> /\ made'.challenge = made.challenge
        BY <1>2 DEF Challenge!vars
    <1>3. CASE /\ UNCHANGED answered /\ made'.challenge = made.challenge
               /\ \E ids : ceremonies' = Without(ceremonies, ids)
        BY <1>1, <1>3, ChallengesNotUsed DEF Without
    <1>4. ASSUME NEW h \in Handlers, AccountPage(h) \/ LoginPage(h)
          PROVE  [Challenge!Next]_Challenge!vars
        <2>1. /\ UNCHANGED answered
              /\ \/ UNCHANGED <<ceremonies, made>>
                 \/ /\ \E u : ceremonies' = With(ceremonies, made.challenge + 1, [user |-> u])
                    /\ made' = [made EXCEPT !.challenge = made.challenge + 1]
            BY <1>4 DEF AccountPage, LoginPage, Offer, history
        <2>2. CASE UNCHANGED <<ceremonies, made>>
            BY <1>2, <2>1, <2>2
        <2>3. CASE /\ \E u : ceremonies' = With(ceremonies, made.challenge + 1, [user |-> u])
                   /\ made' = [made EXCEPT !.challenge = made.challenge + 1]
            <3>1. DOMAIN ceremonies' = DOMAIN ceremonies \cup {made.challenge + 1}
                BY <2>3 DEF With
            <3>2. made'.challenge = made.challenge + 1
                BY <2>3 DEF TypeOK, MadeOK
            <3> QED BY <1>1, <2>1, <3>1, <3>2, ChallengesNotUsed
        <2> QED BY <2>1, <2>2, <2>3
    <1>5. ASSUME NEW c, NEW set, set \subseteq DOMAIN ceremonies, UNCHANGED made,
                 ceremonies' = Without(ceremonies, Taken(c, set)),
                 \/ c \in set /\ answered' = [answered EXCEPT ![c] = answered[c] + 1]
                 \/ UNCHANGED answered
          PROVE  [Challenge!Next]_Challenge!vars
        <2>1. CASE UNCHANGED answered
            BY <1>3, <1>5, <2>1
        <2>2. CASE c \in set /\ answered' = [answered EXCEPT ![c] = answered[c] + 1]
            <3>1. DOMAIN ceremonies' = DOMAIN ceremonies \ {c} /\ c \in DOMAIN ceremonies
                BY <1>5, <2>2 DEF Taken, Without
            <3> QED BY <1>1, <1>5, <2>2, <3>1, ChallengeUsed
        <2> QED BY <1>5, <2>1, <2>2
    <1>6. Registrations \subseteq DOMAIN ceremonies /\ SignIns \subseteq DOMAIN ceremonies
        BY DEF Registrations, SignIns
    <1>7. ASSUME NEW h \in Handlers, FinishRegistration(h)
          PROVE  [Challenge!Next]_Challenge!vars
        BY <1>5, <1>6, <1>7 DEF FinishRegistration
    <1>8. ASSUME NEW h \in Handlers, PasskeyLogin(h)
          PROVE  [Challenge!Next]_Challenge!vars
        BY <1>5, <1>6, <1>8 DEF PasskeyLogin
    <1>9. ASSUME NEW h \in Handlers, Handle(h), ~AccountPage(h), ~LoginPage(h),
                 ~FinishRegistration(h), ~PasskeyLogin(h)
          PROVE  [Challenge!Next]_Challenge!vars
        <2>1. /\ \/ UNCHANGED made
                 \/ made' = [made EXCEPT !.session = made.session + 1]
                 \/ made' = [made EXCEPT !.passkey = made.passkey + 1]
              /\ UNCHANGED <<ceremonies, answered>>
            BY <1>9 DEF Handle, Submit, GetLogin, Login, Redeem, Establish, InsertSession,
                        StartSession, Count, EndSession, DeleteToken, InsertPasskey,
                        RemovePasskey, history
        <2>2. made'.challenge = made.challenge
            BY <2>1 DEF TypeOK, MadeOK
        <2> QED BY <1>2, <2>1, <2>2
    <1>10. CASE UNCHANGED vars
        BY <1>2, <1>10 DEF vars, history
    <1>11. CASE \/ \E l \in Lifetimes : Start(l)
                \/ \E c \in Commands : Run(c)
                \/ \E a \in Actors : InsertUser(a) \/ Delete(a) \/ Fails(a)
        BY <1>2, <1>11 DEF Start, Run, InsertUser, Delete, Fails, history
    <1>12. ASSUME NEW a \in Actors, Issue(a) PROVE [Challenge!Next]_Challenge!vars
        <2>1. /\ UNCHANGED made \/ made' = [made EXCEPT !.token = made.token + 1]
              /\ UNCHANGED <<ceremonies, answered>>
            BY <1>12 DEF Issue, history
        <2>2. made'.challenge = made.challenge
            BY <2>1 DEF TypeOK, MadeOK
        <2> QED BY <1>2, <2>1, <2>2
    <1>13. CASE Stop
        <2>1. ceremonies' = Without(ceremonies, DOMAIN ceremonies) /\ UNCHANGED <<made, answered>>
            BY <1>13 DEF Stop, Empty, Without, history
        <2> QED BY <1>3, <2>1
    <1>14. CASE \E c \in DOMAIN ceremonies : Expire(c)
        BY <1>3, <1>14 DEF Expire, history
    <1> QED BY <1>4, <1>7, <1>8, <1>9, <1>10, <1>11, <1>12, <1>13, <1>14 DEF Next

\* The challenge of a passkey prompt is offered, lives, and ends once, answered or
\* void: two answers at once cannot both be accepted (passkey.rs: Ceremonies).
THEOREM AccountsChallengeUsedOnce == Spec => ChallengeUsedOnce
    <1>1. Init => Challenge!Init
        BY BoundsAssumption DEF Init, Empty, Challenge!Init, Lives
    <1>2. TypeOK /\ [Next]_vars => [Challenge!Next]_Challenge!vars
        BY ChallengeSteps
    <1> QED BY <1>1, <1>2, AccountsTypeCorrect, PTL DEF Spec, ChallengeUsedOnce, Challenge!Spec

-----------------------------------------------------------------------------
(* Credentials.                                                            *)

\* The least of some numbers, and the first place of a character.
LEMMA FirstOf ==
    ASSUME NEW T \in SUBSET Nat, T # {}
    PROVE  Min(T) \in T /\ \A y \in T : Min(T) <= y
    <1> DEFINE R == OpToRel(<, Nat)
    <1>1. IsWellFoundedOn(R, Nat)
        BY NatLessThanWellFounded
    <1> HIDE DEF R
    <1>2. PICK x \in T : \A y \in T : ~ (<<y, x>> \in R)
        BY <1>1, WFMin
    <1>3. \A y \in T : ~ (y < x)
        BY <1>2 DEF R, OpToRel
    <1>4. \A y \in T : x <= y
        BY <1>3
    <1> QED
        BY <1>4, Zenon DEF Min

LEMMA FoundAt ==
    ASSUME NEW s, Len(s) \in Nat, NEW c
    PROVE  \/ find(s, c) = 0 /\ \A i \in 1..Len(s) : s[i] # c
           \/ /\ find(s, c) \in 1..Len(s) /\ s[find(s, c)] = c
              /\ \A i \in 1..Len(s) : i < find(s, c) => s[i] # c
    <1> DEFINE T == {i \in 1..Len(s) : s[i] = c}
    <1>1. find(s, c) = IF T = {} THEN 0 ELSE Min(T)
        BY DEF find
    <1>2. CASE T = {}
        BY <1>1, <1>2
    <1>3. CASE T # {}
        <2>0. T \in SUBSET Nat
            OBVIOUS
        <2>1. Min(T) \in T /\ \A y \in T : Min(T) <= y
            <3> HIDE DEF T
            <3> QED
                BY <1>3, <2>0, FirstOf
        <2>2. find(s, c) = Min(T)
            BY <1>1, <1>3
        <2> DEFINE n == find(s, c)
        <2>3. n \in 1..Len(s) /\ s[n] = c
            BY <2>1, <2>2
        <2>4. ASSUME NEW i \in 1..Len(s), i < n, s[i] = c PROVE FALSE
            <3>1. n <= i
                BY <2>1, <2>2, <2>4
            <3> QED
                BY <2>3, <2>4, <3>1
        <2> QED
            BY <2>3, <2>4
    <1> QED
        BY <1>2, <1>3

\* What split_once gives, and of which texts it gives two given halves.
LEMMA SplitParts ==
    ASSUME NEW S, NEW s \in Seq(S), NEW c \in S, split_once(s, c) # <<>>
    PROVE  LET halves == split_once(s, c)
           IN /\ halves[1] \in Seq(S) /\ halves[2] \in Seq(S)
              /\ s = halves[1] \o <<c>> \o halves[2]
    <1> DEFINE at == find(s, c)
               a == SubSeq(s, 1, at - 1)
               b == SubSeq(s, at + 1, Len(s))
    <1>1. at # 0 /\ split_once(s, c) = <<a, b>>
        BY DEF split_once
    <1>2. Len(s) \in Nat
        OBVIOUS
    <1>3. at \in 1..Len(s) /\ s[at] = c
        BY <1>1, <1>2, FoundAt
    <1> HIDE DEF at
    <1>4. \A i \in 1..Len(s) : s[i] \in S
        OBVIOUS
    <1>5. a \in Seq(S) /\ b \in Seq(S)
        BY <1>2, <1>3, <1>4, SubSeqProperties
    <1>6. SubSeq(s, 1, at) = a \o <<c>>
        <2>1. 1 \in 1..Len(s) /\ at \in 1..Len(s)
            BY <1>2, <1>3
        <2>2. SubSeq(s, 1, at) = SubSeq(s, 1, at - 1) \o <<s[at]>>
            BY <2>1, SubSeqRecursiveSecond
        <2> QED
            BY <1>3, <2>2
    <1>7. s = SubSeq(s, 1, at) \o b
        BY <1>2, <1>3, ConcatAdjacentSubSeq, SubSeqFull
    <1> QED
        <2> HIDE DEF a, b
        <2>1. split_once(s, c)[1] = a /\ split_once(s, c)[2] = b
            BY <1>1
        <2>2. s = a \o <<c>> \o b
            BY <1>6, <1>7
        <2> QED
            BY <1>5, <2>1, <2>2

\* What a sequence of three parts has where.
LEMMA ThreeParts ==
    ASSUME NEW S, NEW a \in Seq(S), NEW b \in Seq(S), NEW c \in S
    PROVE  /\ a \o <<c>> \o b \in Seq(S)
           /\ Len(a \o <<c>> \o b) = Len(a) + 1 + Len(b)
           /\ \A i \in 1..Len(a) : (a \o <<c>> \o b)[i] = a[i]
           /\ (a \o <<c>> \o b)[Len(a) + 1] = c
           /\ \A i \in 1..Len(b) : (a \o <<c>> \o b)[Len(a) + 1 + i] = b[i]
    <1> DEFINE ac == a \o <<c>>
    <1>1. /\ Len(a) \in Nat /\ Len(b) \in Nat
          /\ <<c>> \in Seq(S) /\ Len(<<c>>) = 1 /\ <<c>>[1] = c
        OBVIOUS
    <1>2. /\ ac \in Seq(S) /\ Len(ac) = Len(a) + 1
          /\ \A i \in 1..(Len(a) + 1) : ac[i] = IF i <= Len(a) THEN a[i] ELSE <<c>>[i - Len(a)]
        BY <1>1, ConcatProperties
    <1>3. (\A i \in 1..Len(a) : ac[i] = a[i]) /\ ac[Len(a) + 1] = c
        BY <1>1, <1>2
    <1> HIDE DEF ac
    <1>a. ac \in Seq(S)
        BY <1>2
    <1>4. /\ ac \o b \in Seq(S) /\ Len(ac \o b) = Len(ac) + Len(b)
          /\ \A i \in 1..(Len(ac) + Len(b)) :
                (ac \o b)[i] = IF i <= Len(ac) THEN ac[i] ELSE b[i - Len(ac)]
        BY <1>a, ConcatProperties
    <1>5. \A i \in 1..(Len(a) + 1) : (ac \o b)[i] = ac[i]
        BY <1>1, <1>2, <1>4
    <1>6. \A i \in 1..Len(b) : (ac \o b)[Len(a) + 1 + i] = b[i]
        BY <1>1, <1>2, <1>4
    <1> QED
        BY <1>1, <1>2, <1>3, <1>4, <1>5, <1>6 DEF ac

LEMMA SplitAt ==
    ASSUME NEW S, NEW a \in Seq(S), NEW b \in Seq(S), NEW c \in S,
           \A i \in 1..Len(a) : a[i] # c
    PROVE  split_once(a \o <<c>> \o b, c) = <<a, b>>
    <1> DEFINE s == a \o <<c>> \o b
               at == find(s, c)
    <1>0. Len(a) \in Nat /\ Len(b) \in Nat
        OBVIOUS
    <1>1. /\ s \in Seq(S) /\ Len(s) = Len(a) + 1 + Len(b) /\ s[Len(a) + 1] = c
          /\ \A i \in 1..Len(a) : s[i] = a[i]
          /\ \A i \in 1..Len(b) : s[Len(a) + 1 + i] = b[i]
        BY ThreeParts
    <1> HIDE DEF s
    <1>2. Len(s) \in Nat /\ Len(a) + 1 \in 1..Len(s)
        BY <1>0, <1>1
    <1>3. \/ at = 0 /\ \A i \in 1..Len(s) : s[i] # c
          \/ /\ at \in 1..Len(s) /\ s[at] = c
             /\ \A i \in 1..Len(s) : i < at => s[i] # c
        BY <1>2, FoundAt
    <1> HIDE DEF at
    <1>4. at = Len(a) + 1
        <2>1. /\ at \in 1..Len(s) /\ s[at] = c
              /\ \A i \in 1..Len(s) : i < at => s[i] # c
            BY <1>1, <1>2, <1>3
        <2>2. ~(Len(a) + 1 < at)
            BY <1>1, <1>2, <2>1
        <2>3. at \notin 1..Len(a)
            BY <1>1, <2>1
        <2> QED
            BY <1>0, <1>2, <2>1, <2>2, <2>3
    <1>5. split_once(s, c) = <<SubSeq(s, 1, at - 1), SubSeq(s, at + 1, Len(s))>>
        BY <1>0, <1>4 DEF split_once, at
    <1>6. SubSeq(s, 1, Len(a)) = a
        <2>1. \A i \in 1..Len(a) : s[i] \in S
            BY <1>1
        <2>2. /\ SubSeq(s, 1, Len(a)) \in Seq(S) /\ Len(SubSeq(s, 1, Len(a))) = Len(a)
              /\ \A i \in 1..Len(a) : SubSeq(s, 1, Len(a))[i] = s[i]
            BY <1>0, <2>1, SubSeqProperties
        <2> QED
            BY <1>1, <2>2, SeqEqual
    <1>7. SubSeq(s, Len(a) + 2, Len(s)) = b
        <2> DEFINE t == SubSeq(s, Len(a) + 2, Len(s))
        <2>1. \A i \in (Len(a) + 2)..Len(s) : s[i] \in S
            BY <1>0, <1>1
        <2>2. /\ t \in Seq(S) /\ Len(t) = Len(b)
              /\ \A i \in 1..Len(b) : t[i] = s[Len(a) + 2 + i - 1]
            BY <1>0, <1>1, <2>1, SubSeqProperties
        <2>3. \A i \in 1..Len(b) : t[i] = b[i]
            BY <1>0, <1>1, <2>2
        <2> QED
            BY <2>2, <2>3, SeqEqual
    <1>8. at - 1 = Len(a) /\ at + 1 = Len(a) + 2
        BY <1>0, <1>4
    <1> QED
        BY <1>5, <1>6, <1>7, <1>8 DEF s

\* A digit, and a character: what a text is made of.
Digit == {Digits[i] : i \in 1..16}
Char == STRING \cup Digit \cup {"mpk_", "mps_", "mpl_", ".", " ", "=", "mp_session", "bearer", "other",
        "api-key", "session", "login-token"}
LEMMA DigitsAre ==
    /\ Digits \in Seq(Char) /\ Len(Digits) = 16
    /\ Digit \subseteq Char /\ "." \notin Digit
    /\ \A i, j \in 1..16 : Digits[i] = Digits[j] => i = j
    <1>1. \A i \in 1..16 : i = 1 \/ i = 2 \/ i = 3 \/ i = 4 \/ i = 5 \/ i = 6 \/ i = 7 \/ i = 8
                           \/ i = 9 \/ i = 10 \/ i = 11 \/ i = 12 \/ i = 13 \/ i = 14 \/ i = 15 \/ i = 16
        OBVIOUS
    <1>2. /\ Digits[1] = "0" /\ Digits[2] = "1" /\ Digits[3] = "2" /\ Digits[4] = "3"
          /\ Digits[5] = "4" /\ Digits[6] = "5" /\ Digits[7] = "6" /\ Digits[8] = "7"
          /\ Digits[9] = "8" /\ Digits[10] = "9" /\ Digits[11] = "a" /\ Digits[12] = "b"
          /\ Digits[13] = "c" /\ Digits[14] = "d" /\ Digits[15] = "e" /\ Digits[16] = "f"
        BY DEF Digits
    <1>3. Len(Digits) = 16 /\ DOMAIN Digits = 1..16
        BY DEF Digits
    <1>4. ASSUME NEW i \in 1..16 PROVE Digits[i] \in Char /\ Digits[i] # "."
        <2> DEFINE all == {"0", "1", "2", "3", "4", "5", "6", "7", "8", "9",
                           "a", "b", "c", "d", "e", "f"}
        <2>1. Digits[i] \in all
            BY <1>1, <1>2, Zenon
        <2>2. \A d \in all : d # "."
            BY Zenon
        <2> HIDE DEF all
        <2> QED
            BY <2>1, <2>2, Zenon DEF Char, Digit
    <1>5. Digits = [i \in 1..16 |-> Digits[i]]
        BY <1>3 DEF Digits
    <1>6. Digits \in Seq(Char)
        BY <1>4, <1>5
    <1>7. \A i, j \in 1..16 : Digits[i] = Digits[j] => i = j
        BY <1>1, <1>2
    <1> QED
        BY <1>3, <1>4, <1>6, <1>7 DEF Digit

LEMMA DigitsAreInk == \A d \in Digit : d # " "
    <1> DEFINE all == {"0", "1", "2", "3", "4", "5", "6", "7", "8", "9",
                       "a", "b", "c", "d", "e", "f"}
    <1>1. ASSUME NEW i \in 1..16 PROVE Digits[i] \in all
        <2>1. \/ i = 1 \/ i = 2 \/ i = 3 \/ i = 4 \/ i = 5 \/ i = 6 \/ i = 7 \/ i = 8
              \/ i = 9 \/ i = 10 \/ i = 11 \/ i = 12 \/ i = 13 \/ i = 14 \/ i = 15 \/ i = 16
            OBVIOUS
        <2>2. /\ Digits[1] = "0" /\ Digits[2] = "1" /\ Digits[3] = "2" /\ Digits[4] = "3"
              /\ Digits[5] = "4" /\ Digits[6] = "5" /\ Digits[7] = "6" /\ Digits[8] = "7"
              /\ Digits[9] = "8" /\ Digits[10] = "9" /\ Digits[11] = "a" /\ Digits[12] = "b"
              /\ Digits[13] = "c" /\ Digits[14] = "d" /\ Digits[15] = "e" /\ Digits[16] = "f"
            BY DEF Digits
        <2> QED
            BY <2>1, <2>2, Zenon
    <1>2. \A d \in all : d # " "
        BY Zenon
    <1> HIDE DEF all
    <1> QED
        BY <1>1, <1>2, Zenon DEF Digit

LEMMA NibbleReads ==
    /\ \A i \in 1..16 : nibble(Digits[i]) = i - 1
    /\ \A c : nibble(c) # -1 => nibble(c) \in 0..15 /\ Digits[nibble(c) + 1] = c
    <1>1. ASSUME NEW c
          PROVE  \/ find(Digits, c) = 0 /\ \A i \in 1..16 : Digits[i] # c
                 \/ find(Digits, c) \in 1..16 /\ Digits[find(Digits, c)] = c
        <2>1. Len(Digits) = 16 /\ Len(Digits) \in Nat
            BY DigitsAre
        <2>2. \/ find(Digits, c) = 0 /\ \A i \in 1..Len(Digits) : Digits[i] # c
              \/ /\ find(Digits, c) \in 1..Len(Digits) /\ Digits[find(Digits, c)] = c
                 /\ \A i \in 1..Len(Digits) : i < find(Digits, c) => Digits[i] # c
            BY <2>1, FoundAt
        <2> QED
            BY <2>1, <2>2
    <1>2. ASSUME NEW i \in 1..16 PROVE nibble(Digits[i]) = i - 1
        <2>1. find(Digits, Digits[i]) = i
            BY <1>1, DigitsAre
        <2> QED
            BY <2>1 DEF nibble
    <1>3. ASSUME NEW c, nibble(c) # -1
          PROVE  nibble(c) \in 0..15 /\ Digits[nibble(c) + 1] = c
        <2>1. nibble(c) = find(Digits, c) - 1
            BY DEF nibble
        <2>2. find(Digits, c) # 0
            BY <1>3, <2>1
        <2>3. find(Digits, c) \in 1..16 /\ Digits[find(Digits, c)] = c
            BY <1>1, <2>2
        <2>4. nibble(c) + 1 = find(Digits, c)
            BY <2>1, <2>3
        <2> QED
            BY <2>1, <2>3, <2>4
    <1> QED
        BY <1>2, <1>3

\* What a byte is.
Byte == 0..255
LEMMA HalvesOfByte ==
    ASSUME NEW b \in Byte
    PROVE  b \div 16 \in 0..15 /\ b % 16 \in 0..15 /\ b = 16 * (b \div 16) + (b % 16)
    BY DEF Byte

\* Printed and read back, a byte is what it was, and so are the two digits.
LEMMA HexOf ==
    ASSUME NEW n \in Nat, NEW b \in [1..n -> Byte]
    PROVE  /\ hex(b) \in Seq(Char) /\ Len(hex(b)) = 2 * n
           /\ \A j \in 1..2 * n : hex(b)[j] \in Digit
           /\ \A i \in 1..n : /\ hex(b)[2 * i - 1] = Digits[1 + b[i] \div 16]
                              /\ hex(b)[2 * i] = Digits[1 + (b[i] % 16)]
    <1> DEFINE d(j) == Digits[1 + (IF j % 2 = 1 THEN b[(j + 1) \div 2] \div 16
                                    ELSE b[(j + 1) \div 2] % 16)]
    <1>1. Len(b) = n
        OBVIOUS
    <1>2. hex(b) = [j \in 1..2 * n |-> d(j)]
        BY <1>1 DEF hex
    <1>3. ASSUME NEW j \in 1..2 * n PROVE d(j) \in Digit
        <2>1. (j + 1) \div 2 \in 1..n
            OBVIOUS
        <2>2. b[(j + 1) \div 2] \in Byte
            BY <2>1
        <2> DEFINE k == IF j % 2 = 1 THEN b[(j + 1) \div 2] \div 16 ELSE b[(j + 1) \div 2] % 16
        <2>3. k \in 0..15
            BY <2>2, HalvesOfByte
        <2>4. 1 + k \in 1..16
            BY <2>3
        <2>5. d(j) = Digits[1 + k]
            OBVIOUS
        <2> HIDE DEF k, d
        <2> QED
            BY <2>4, <2>5 DEF Digit
    <1>4. \A j \in 1..2 * n : d(j) \in Char
        BY <1>3 DEF Char
    <1>5. ASSUME NEW i \in 1..n
          PROVE  /\ hex(b)[2 * i - 1] = Digits[1 + b[i] \div 16]
                 /\ hex(b)[2 * i] = Digits[1 + (b[i] % 16)]
        <2>1. /\ 2 * i - 1 \in 1..2 * n /\ (2 * i - 1) % 2 = 1 /\ ((2 * i - 1) + 1) \div 2 = i
              /\ 2 * i \in 1..2 * n /\ (2 * i) % 2 = 0 /\ (2 * i + 1) \div 2 = i
            OBVIOUS
        <2> QED
            BY <1>2, <2>1
    <1>6. /\ \A j \in 1..2 * n : hex(b)[j] \in Digit
          /\ DOMAIN hex(b) = 1..2 * n
        BY <1>2, <1>3
    <1>7. hex(b) \in Seq(Char) /\ Len(hex(b)) = 2 * n
        <2> HIDE DEF d
        <2>1. 2 * n \in Nat
            OBVIOUS
        <2> QED
            BY <1>2, <1>4, <2>1
    <1> QED
        BY <1>5, <1>6, <1>7

LEMMA UnhexHex ==
    ASSUME NEW n \in Nat, NEW b \in [1..n -> Byte]
    PROVE  unhex(n, hex(b)) = b
    <1> DEFINE s == hex(b)
    <1>1. /\ Len(s) = 2 * n
          /\ \A i \in 1..n : s[2 * i - 1] = Digits[1 + b[i] \div 16] /\ s[2 * i] = Digits[1 + (b[i] % 16)]
          /\ \A j \in 1..2 * n : s[j] \in Digit
        BY HexOf
    <1> HIDE DEF s
    <1>2. ASSUME NEW j \in 1..2 * n PROVE nibble(s[j]) # -1
        <2>1. PICK i \in 1..16 : s[j] = Digits[i]
            BY <1>1 DEF Digit
        <2> QED
            BY <2>1, NibbleReads
    <1>3. unhex(n, s) = [i \in 1..n |-> 16 * nibble(s[2 * i - 1]) + nibble(s[2 * i])]
        BY <1>1, <1>2 DEF unhex
    <1>4. ASSUME NEW i \in 1..n
          PROVE  16 * nibble(s[2 * i - 1]) + nibble(s[2 * i]) = b[i]
        <2>1. b[i] \div 16 \in 0..15 /\ b[i] % 16 \in 0..15 /\ b[i] = 16 * (b[i] \div 16) + (b[i] % 16)
            BY HalvesOfByte
        <2>2. 1 + b[i] \div 16 \in 1..16 /\ 1 + (b[i] % 16) \in 1..16
            BY <2>1
        <2>3. /\ nibble(s[2 * i - 1]) = (1 + b[i] \div 16) - 1
              /\ nibble(s[2 * i]) = (1 + (b[i] % 16)) - 1
            BY <1>1, <2>2, NibbleReads
        <2> DEFINE hi == nibble(s[2 * i - 1])
                   lo == nibble(s[2 * i])
                   high == b[i] \div 16
                   low == b[i] % 16
        <2>4. hi = (1 + high) - 1 /\ lo = (1 + low) - 1
            BY <2>3
        <2>5. high \in 0..15 /\ low \in 0..15 /\ b[i] = 16 * high + low
            BY <2>1
        <2> HIDE DEF hi, lo, high, low
        <2>6. hi = high /\ lo = low
            BY <2>4, <2>5
        <2>7. 16 * hi + lo = b[i]
            BY <2>5, <2>6
        <2> QED
            BY <2>7 DEF hi, lo
    <1>5. b = [i \in 1..n |-> b[i]]
        OBVIOUS
    <1> QED
        BY <1>3, <1>4, <1>5 DEF s

LEMMA HexUnhex ==
    ASSUME NEW n \in Nat, NEW s \in Seq(Char), unhex(n, s) # <<>>
    PROVE  unhex(n, s) \in [1..n -> Byte] /\ hex(unhex(n, s)) = s
    <1> DEFINE b == unhex(n, s)
    <1>1. Len(s) = 2 * n /\ \A j \in 1..2 * n : nibble(s[j]) # -1
        BY DEF unhex
    <1>2. b = [i \in 1..n |-> 16 * nibble(s[2 * i - 1]) + nibble(s[2 * i])]
        BY <1>1 DEF unhex
    <1> HIDE DEF b
    <1>3. ASSUME NEW j \in 1..2 * n
          PROVE  nibble(s[j]) \in 0..15 /\ Digits[nibble(s[j]) + 1] = s[j]
        BY <1>1, NibbleReads
    <1>4. ASSUME NEW i \in 1..n
          PROVE  /\ b[i] \in Byte
                 /\ b[i] \div 16 = nibble(s[2 * i - 1]) /\ b[i] % 16 = nibble(s[2 * i])
        <2>1. 2 * i - 1 \in 1..2 * n /\ 2 * i \in 1..2 * n
            OBVIOUS
        <2> DEFINE hi == nibble(s[2 * i - 1])
                   lo == nibble(s[2 * i])
        <2>2. hi \in 0..15 /\ lo \in 0..15
            BY <1>3, <2>1
        <2>3. b[i] = 16 * hi + lo
            BY <1>2
        <2> HIDE DEF hi, lo
        <2>4. b[i] \in Byte /\ b[i] \div 16 = hi /\ b[i] % 16 = lo
            BY <2>2, <2>3 DEF Byte
        <2> QED
            BY <2>4 DEF hi, lo
    <1>5. b \in [1..n -> Byte]
        BY <1>2, <1>4
    <1>6. /\ hex(b) \in Seq(Char) /\ Len(hex(b)) = 2 * n
          /\ \A i \in 1..n : hex(b)[2 * i - 1] = Digits[1 + b[i] \div 16] /\ hex(b)[2 * i] = Digits[1 + (b[i] % 16)]
        BY <1>5, HexOf
    <1>7. ASSUME NEW j \in 1..2 * n PROVE hex(b)[j] = s[j]
        <2>1. PICK i \in 1..n : j = 2 * i - 1 \/ j = 2 * i
            <3>1. (j + 1) \div 2 \in 1..n /\ (j = 2 * ((j + 1) \div 2) - 1 \/ j = 2 * ((j + 1) \div 2))
                OBVIOUS
            <3> QED
                BY <3>1
        <2>2. CASE j = 2 * i - 1
            <3>1. hex(b)[j] = Digits[1 + nibble(s[j])]
                BY <1>4, <1>6, <2>2
            <3>2. 1 + nibble(s[j]) = nibble(s[j]) + 1
                BY <1>3
            <3> QED
                BY <1>3, <3>1, <3>2
        <2>3. CASE j = 2 * i
            <3>1. hex(b)[j] = Digits[1 + nibble(s[j])]
                BY <1>4, <1>6, <2>3
            <3>2. 1 + nibble(s[j]) = nibble(s[j]) + 1
                BY <1>3
            <3> QED
                BY <1>3, <3>1, <3>2
        <2> QED
            BY <2>1, <2>2, <2>3
    <1>8. hex(b) = s
        BY <1>1, <1>6, <1>7, SeqEqual
    <1> QED
        BY <1>5, <1>8 DEF b

\* A prefix is one character here.
LEMMA StartsWith ==
    ASSUME NEW p \in Char, NEW raw \in Seq(Char)
    PROVE  IsPrefix(<<p>>, raw) => Tail(raw) \in Seq(Char) /\ raw = <<p>> \o Tail(raw)
    <1>1. SUFFICES ASSUME IsPrefix(<<p>>, raw)
                   PROVE  Tail(raw) \in Seq(Char) /\ raw = <<p>> \o Tail(raw)
        OBVIOUS
    <1>2. Len(<<p>>) = 1
        OBVIOUS
    <1>3. 1 <= Len(raw) /\ SubSeq(<<p>>, 1, 1) = SubSeq(raw, 1, 1)
        BY <1>1, <1>2 DEF IsPrefix
    <1>4. Len(raw) \in Nat /\ 1 \in 1..Len(raw) /\ raw # <<>>
        BY <1>3
    <1>5. SubSeq(<<p>>, 1, 1)[1] = p /\ SubSeq(raw, 1, 1)[1] = raw[1]
        <2>1. SubSeq(<<p>>, 1, 1)[1] = p
            OBVIOUS
        <2>2. SubSeq(raw, 1, 1)[1] = raw[1]
            BY <1>4
        <2> QED
            BY <2>1, <2>2
    <1>6. raw[1] = p
        BY <1>3, <1>5
    <1>7. SubSeq(raw, 1, Len(raw)) = <<raw[1]>> \o SubSeq(raw, 2, Len(raw))
        BY <1>4, SubSeqRecursiveFirst
    <1>8. SubSeq(raw, 1, Len(raw)) = raw /\ Tail(raw) = SubSeq(raw, 2, Len(raw))
        BY <1>4, SubSeqFull, TailIsSubSeq
    <1>9. Tail(raw) \in Seq(Char)
        BY <1>4, HeadTailProperties
    <1> QED
        BY <1>6, <1>7, <1>8, <1>9

LEMMA StartedWith ==
    ASSUME NEW p \in Char, NEW rest \in Seq(Char)
    PROVE  /\ <<p>> \o rest \in Seq(Char)
           /\ IsPrefix(<<p>>, <<p>> \o rest) /\ Tail(<<p>> \o rest) = rest
    <1> DEFINE raw == <<p>> \o rest
    <1>1. <<p>> \in Seq(Char) /\ Len(<<p>>) = 1 /\ <<p>>[1] = p /\ Len(rest) \in Nat
        OBVIOUS
    <1>2. /\ raw \in Seq(Char) /\ Len(raw) = 1 + Len(rest) /\ raw[1] = p
          /\ \A i \in 1..Len(rest) : raw[i + 1] = rest[i]
        <2>1. /\ raw \in Seq(Char) /\ Len(raw) = Len(<<p>>) + Len(rest)
              /\ \A i \in 1..(Len(<<p>>) + Len(rest)) :
                    raw[i] = IF i <= Len(<<p>>) THEN <<p>>[i] ELSE rest[i - Len(<<p>>)]
            BY <1>1, ConcatProperties
        <2> HIDE DEF raw
        <2>2. \A i \in 1..(1 + Len(rest)) : raw[i] = IF i <= 1 THEN <<p>>[i] ELSE rest[i - 1]
            BY <1>1, <2>1
        <2>3. raw[1] = p
            BY <1>1, <2>2
        <2>4. \A i \in 1..Len(rest) : raw[i + 1] = rest[i]
            BY <1>1, <2>2
        <2> QED
            BY <1>1, <2>1, <2>3, <2>4
    <1> HIDE DEF raw
    <1>3. raw # <<>> /\ Len(raw) \in Nat /\ Len(raw) >= 1
        BY <1>1, <1>2
    <1>4. Tail(raw) = rest
        <2>1. /\ Tail(raw) \in Seq(Char) /\ Len(Tail(raw)) = Len(raw) - 1
              /\ \A i \in 1..Len(Tail(raw)) : Tail(raw)[i] = raw[i + 1]
            BY <1>2, <1>3, HeadTailProperties
        <2>2. Len(Tail(raw)) = Len(rest)
            BY <1>1, <1>2, <2>1
        <2>3. \A i \in 1..Len(Tail(raw)) : Tail(raw)[i] = rest[i]
            BY <1>2, <2>1, <2>2
        <2> QED
            BY <2>1, <2>2, <2>3, SeqEqual
    <1>5. IsPrefix(<<p>>, raw)
        <2>1. SubSeq(raw, 1, 1) = <<p>>
            <3>1. \A i \in 1..1 : raw[i] \in Char
                BY <1>2, <1>3
            <3>2. /\ SubSeq(raw, 1, 1) \in Seq(Char) /\ Len(SubSeq(raw, 1, 1)) = 1
                  /\ SubSeq(raw, 1, 1)[1] = raw[1]
                BY <3>1, SubSeqProperties
            <3>3. \A i \in 1..1 : SubSeq(raw, 1, 1)[i] = <<p>>[i]
                BY <1>1, <1>2, <3>2
            <3> QED
                BY <1>1, <3>2, <3>3, SeqEqual
        <2>2. SubSeq(<<p>>, 1, 1) = <<p>>
            BY <1>1, SubSeqFull
        <2> QED
            BY <1>1, <1>3, <2>1, <2>2 DEF IsPrefix
    <1> QED
        BY <1>2, <1>4, <1>5 DEF raw

\* A token of the sizes of the code.
IsToken(t) ==
    /\ t = [id |-> t.id, secret |-> t.secret]
    /\ t.id \in Seq(Char) /\ \A i \in 1..Len(t.id) : t.id[i] # "."
    /\ t.secret \in [1..SECRET_BYTES -> Byte]
    /\ unhex(ID_BYTES, t.id) # <<>>

\* The three kinds.
LEMMA KindsAre ==
    ASSUME NEW kind \in Kinds
    PROVE  \E p, d \in Char : kind = [prefix |-> <<p>>, domain |-> <<d>>]
    <1>1. {"mpk_", "mps_", "mpl_", "api-key", "session", "login-token"} \subseteq Char
        BY DEF Char
    <1> QED
        BY <1>1 DEF Kinds, Token, SessionToken, LoginToken

LEMMA PrintedAs ==
    ASSUME NEW p \in Char, NEW t, t.id \in Seq(Char), hex(t.secret) \in Seq(Char), NEW kind, kind.prefix = <<p>>
    PROVE  to_secret_string(kind, t) = <<p>> \o (t.id \o <<".">> \o hex(t.secret))
    BY DEF to_secret_string

\* A printed token is read back as it was, and what is read at all was printed so.
LEMMA ParsePrinted ==
    ASSUME NEW kind \in Kinds, NEW t, IsToken(t)
    PROVE  /\ parse_halves(to_secret_string(kind, t), kind.prefix) = t
           /\ to_secret_string(kind, t) \in Seq(Char)
    <1>1. PICK p \in Char, d \in Char : kind = [prefix |-> <<p>>, domain |-> <<d>>]
        BY KindsAre
    <1> DEFINE raw == to_secret_string(kind, t)
               rest == t.id \o <<".">> \o hex(t.secret)
    <1>2. t.id \in Seq(Char) /\ \A i \in 1..Len(t.id) : t.id[i] # "."
        BY DEF IsToken
    <1>3. hex(t.secret) \in Seq(Char)
        BY HexOf, CredentialsAssumption DEF IsToken
    <1>4. raw = <<p>> \o rest
        BY <1>1, <1>2, <1>3, PrintedAs
    <1>5. "." \in Char
        BY DEF Char
    <1>6. rest \in Seq(Char) /\ split_once(rest, ".") = <<t.id, hex(t.secret)>>
        <2> DEFINE id == t.id
                   last == hex(t.secret)
        <2>1. id \in Seq(Char) /\ last \in Seq(Char)
            BY <1>2, <1>3
        <2>2. \A i \in 1..Len(id) : id[i] # "."
            BY <1>2
        <2> HIDE DEF id, last
        <2>3. id \o <<".">> \o last \in Seq(Char)
            BY <1>5, <2>1, ThreeParts
        <2>4. split_once(id \o <<".">> \o last, ".") = <<id, last>>
            BY <1>5, <2>1, <2>2, SplitAt
        <2> QED
            BY <2>3, <2>4 DEF id, last
    <1> HIDE DEF rest
    <1>7. raw \in Seq(Char) /\ IsPrefix(<<p>>, raw) /\ Tail(raw) = rest
        BY <1>4, <1>6, StartedWith
    <1> HIDE DEF raw
    <1>8. unhex(SECRET_BYTES, hex(t.secret)) = t.secret
        BY UnhexHex, CredentialsAssumption DEF IsToken
    <1>9. t.secret # <<>>
        <2>1. t.secret \in [1..SECRET_BYTES -> Byte] /\ SECRET_BYTES > 0 /\ SECRET_BYTES \in Nat
            BY CredentialsAssumption DEF IsToken
        <2>2. DOMAIN t.secret = 1..SECRET_BYTES /\ 1 \in 1..SECRET_BYTES /\ DOMAIN <<>> = {}
            BY <2>1
        <2> QED
            BY <2>2
    <1>10. unhex(ID_BYTES, t.id) # <<>> /\ t = [id |-> t.id, secret |-> t.secret]
        BY DEF IsToken
    <1>11. split_once(Tail(raw), ".") = <<t.id, hex(t.secret)>>
        BY <1>6, <1>7
    <1>12. parse_halves(raw, <<p>>) = [id |-> t.id, secret |-> t.secret]
        BY <1>7, <1>8, <1>9, <1>10, <1>11 DEF parse_halves
    <1> QED
        BY <1>1, <1>7, <1>10, <1>12 DEF raw

LEMMA ParsedIsPrinted ==
    ASSUME NEW kind \in Kinds, NEW raw \in Seq(Char),
           ~HasFailed(parse_halves(raw, kind.prefix))
    PROVE  /\ IsToken(parse_halves(raw, kind.prefix))
           /\ raw = to_secret_string(kind, parse_halves(raw, kind.prefix))
    <1>1. PICK p \in Char, d \in Char : kind = [prefix |-> <<p>>, domain |-> <<d>>]
        BY KindsAre
    <1>2. kind.prefix = <<p>>
        BY <1>1
    <1> DEFINE t == parse_halves(raw, <<p>>)
               halves == split_once(Tail(raw), ".")
    <1>3. \A reason : HasFailed(Failed(reason))
        BY DEF HasFailed, Failed
    <1>4. IsPrefix(<<p>>, raw) /\ halves # <<>>
          /\ unhex(ID_BYTES, halves[1]) # <<>> /\ unhex(SECRET_BYTES, halves[2]) # <<>>
        BY <1>2, <1>3, Zenon DEF parse_halves
    <1>5. t = [id |-> halves[1], secret |-> unhex(SECRET_BYTES, halves[2])]
        BY <1>4 DEF parse_halves
    <1>6. Tail(raw) \in Seq(Char) /\ raw = <<p>> \o Tail(raw)
        BY <1>4, StartsWith
    <1>7. "." \in Char
        BY DEF Char
    <1> DEFINE a == halves[1]
               b == halves[2]
    <1>8. a \in Seq(Char) /\ b \in Seq(Char) /\ Tail(raw) = a \o <<".">> \o b
        <2> DEFINE rest == Tail(raw)
        <2>1. rest \in Seq(Char) /\ split_once(rest, ".") # <<>>
            BY <1>4, <1>6
        <2> HIDE DEF rest
        <2>2. LET both == split_once(rest, ".")
              IN /\ both[1] \in Seq(Char) /\ both[2] \in Seq(Char)
                 /\ rest = both[1] \o <<".">> \o both[2]
            BY <2>1, <1>7, SplitParts
        <2> QED
            BY <2>2 DEF rest
    <1>10. unhex(SECRET_BYTES, b) \in [1..SECRET_BYTES -> Byte] /\ hex(unhex(SECRET_BYTES, b)) = b
        BY <1>4, <1>8, HexUnhex, CredentialsAssumption
    <1>11. unhex(ID_BYTES, a) \in [1..ID_BYTES -> Byte] /\ hex(unhex(ID_BYTES, a)) = a
        BY <1>4, <1>8, HexUnhex, CredentialsAssumption
    <1>12. \A i \in 1..Len(a) : a[i] # "."
        <2>1. Len(a) = 2 * ID_BYTES /\ \A i \in 1..2 * ID_BYTES : a[i] \in Digit
            BY <1>11, HexOf, CredentialsAssumption
        <2> QED
            BY <2>1, DigitsAre
    <1>13. t = [id |-> a, secret |-> unhex(SECRET_BYTES, b)]
        BY <1>5
    <1>14. t.id = a /\ t.secret = unhex(SECRET_BYTES, b)
        BY <1>13
    <1>15. unhex(ID_BYTES, t.id) # <<>>
        BY <1>4, <1>14
    <1> HIDE DEF t, a, b, halves
    <1>17. IsToken(t)
        BY <1>15, <1>8, <1>10, <1>12, <1>13, <1>14 DEF IsToken
    <1>16. to_secret_string(kind, t) = <<p>> \o (a \o <<".">> \o b)
        BY <1>2, <1>10, <1>14 DEF to_secret_string
    <1> QED
        BY <1>2, <1>6, <1>8, <1>17, <1>16 DEF t

\* What trim leaves.
LEMMA LastOf ==
    ASSUME NEW n \in Nat, NEW T \in SUBSET (1..n), T # {}
    PROVE  Max(T) \in T /\ \A y \in T : y <= Max(T)
    <1> DEFINE R == {n - y : y \in T}
    <1>1. R \in SUBSET Nat /\ R # {}
        <2>1. \A y \in T : n - y \in Nat
            OBVIOUS
        <2> QED
            BY <2>1
    <1>2. Min(R) \in R /\ \A z \in R : Min(R) <= z
        <2> HIDE DEF R
        <2> QED
            BY <1>1, FirstOf
    <1>3. PICK x \in T : Min(R) = n - x
        BY <1>2
    <1>4. \A y \in T : x >= y
        <2> TAKE y \in T
        <2>1. n - y \in R
            OBVIOUS
        <2>2. n - x <= n - y
            BY <1>2, <1>3, <2>1
        <2> QED
            BY <2>2
    <1>5. Max(T) \in T /\ \A y \in T : Max(T) >= y
        BY <1>4, Zenon DEF Max
    <1> QED
        BY <1>5

\* What is left of s without the c around it.
Kept(s, c) == {i \in 1..Len(s) : s[i] # c}
Core(s, c) == IF Kept(s, c) = {} THEN <<>> ELSE SubSeq(s, Min(Kept(s, c)), Max(Kept(s, c)))
LEMMA CoreOf ==
    ASSUME NEW S, NEW s \in Seq(S), NEW c
    PROVE  /\ Core(s, c) \in Seq(S)
           /\ s # <<>> /\ s[1] # c /\ s[Len(s)] # c => Core(s, c) = s
           /\ s # <<>> /\ s[Len(s)] # c /\ (\A i \in 1..(Len(s) - 1) : s[i] = c)
                => Core(s, c) = <<s[Len(s)]>>
    <1> DEFINE K == Kept(s, c)
    <1>1. Core(s, c) = IF K = {} THEN <<>> ELSE SubSeq(s, Min(K), Max(K))
        BY DEF Core
    <1>2. Len(s) \in Nat /\ K \in SUBSET (1..Len(s)) /\ K \in SUBSET Nat
        BY DEF Kept
    <1>3. K # {} => /\ Min(K) \in K /\ \A y \in K : Min(K) <= y
                    /\ Max(K) \in K /\ \A y \in K : y <= Max(K)
        <2> HIDE DEF K
        <2> QED
            BY <1>2, FirstOf, LastOf
    <1>4. \A i \in 1..Len(s) : (i \in K <=> s[i] # c) /\ s[i] \in S
        BY DEF Kept
    <1> HIDE DEF K
    <1>5. Core(s, c) \in Seq(S)
        <2>1. CASE K = {}
            BY <1>1, <2>1
        <2>2. CASE K # {}
            <3>1. Min(K) \in 1..Len(s) /\ Max(K) \in 1..Len(s)
                BY <1>2, <1>3, <2>2
            <3>2. \A i \in Min(K)..Max(K) : s[i] \in S
                BY <1>2, <1>4, <3>1
            <3>3. SubSeq(s, Min(K), Max(K)) \in Seq(S)
                BY <3>1, <3>2, SubSeqProperties
            <3> QED
                BY <1>1, <2>2, <3>3
        <2> QED
            BY <2>1, <2>2
    <1>6. ASSUME s # <<>>, s[1] # c, s[Len(s)] # c PROVE Core(s, c) = s
        <2>0. 1 \in 1..Len(s) /\ Len(s) \in 1..Len(s)
            BY <1>2, <1>6
        <2>1. 1 \in K /\ Len(s) \in K
            BY <1>4, <1>6, <2>0
        <2> DEFINE lo == Min(K)
                   hi == Max(K)
        <2>a. lo \in 1..Len(s) /\ hi \in 1..Len(s) /\ lo <= 1 /\ Len(s) <= hi
            BY <1>2, <1>3, <2>1
        <2> HIDE DEF lo, hi
        <2>b. lo = 1 /\ hi = Len(s)
            BY <1>2, <2>a
        <2>2. Min(K) = 1 /\ Max(K) = Len(s)
            BY <2>b DEF lo, hi
        <2>3. SubSeq(s, 1, Len(s)) = s
            BY SubSeqFull
        <2> QED
            BY <1>1, <2>1, <2>2, <2>3
    <1>7. ASSUME s # <<>>, s[Len(s)] # c, \A i \in 1..(Len(s) - 1) : s[i] = c
          PROVE  Core(s, c) = <<s[Len(s)]>>
        <2>0. Len(s) \in 1..Len(s)
            BY <1>2, <1>7
        <2> DEFINE n == Len(s)
        <2>a. \A i \in 1..n : i \in K <=> i = n
            <3> TAKE i \in 1..n
            <3>1. i # n => i \in 1..(n - 1)
                BY <1>2
            <3> QED
                BY <1>4, <1>7, <3>1
        <2>1. K = {Len(s)}
            BY <1>2, <2>a, <2>0
        <2>2. Min(K) = Len(s) /\ Max(K) = Len(s) /\ K # {}
            BY <1>3, <2>1
        <2>3. SubSeq(s, Len(s), Len(s)) = <<s[Len(s)]>>
            <3>1. SubSeq(s, Len(s), Len(s)) = SubSeq(s, Len(s), Len(s) - 1) \o <<s[Len(s)]>>
                BY <2>0, SubSeqRecursiveSecond
            <3>2. SubSeq(s, Len(s), Len(s) - 1) = <<>>
                BY <1>2, SubSeqEmpty
            <3>3. <<s[Len(s)]>> \in Seq(S)
                BY <1>4, <2>0
            <3>4. <<>> \o <<s[Len(s)]>> = <<s[Len(s)]>>
                BY <3>3, ConcatEmptySeq
            <3> QED
                BY <3>1, <3>2, <3>4
        <2> QED
            BY <1>1, <2>2, <2>3
    <1> QED
        BY <1>5, <1>6, <1>7

LEMMA TrimIsCore == \A s : trim(s) = Core(s, " ")
    BY DEF trim, Core, Kept

\* A token made of random bytes is a token.
LEMMA TokenIsToken ==
    ASSUME NEW t \in Tokens
    PROVE  IsToken(t)
    <1>1. PICK b \in Drawn : t = from_random(b)
        BY DEF Tokens
    <1>2. b \in [1..(ID_BYTES + SECRET_BYTES) -> Byte] /\ Len(b) = ID_BYTES + SECRET_BYTES
        BY CredentialsAssumption DEF Byte
    <1> DEFINE id == SubSeq(b, 1, ID_BYTES)
               secret == SubSeq(b, ID_BYTES + 1, ID_BYTES + SECRET_BYTES)
    <1>3. ID_BYTES \in Nat \ {0} /\ SECRET_BYTES \in Nat \ {0}
        BY CredentialsAssumption
    <1>4. id \in [1..ID_BYTES -> Byte]
        <2>1. \A i \in 1..ID_BYTES : b[i] \in Byte
            BY <1>2, <1>3
        <2>2. id \in Seq(Byte) /\ Len(id) = ID_BYTES
            BY <1>3, <2>1, SubSeqProperties
        <2> HIDE DEF id
        <2> QED
            BY <2>2
    <1>5. secret \in [1..SECRET_BYTES -> Byte]
        <2>1. \A i \in (ID_BYTES + 1)..(ID_BYTES + SECRET_BYTES) : b[i] \in Byte
            BY <1>2, <1>3
        <2>2. secret \in Seq(Byte) /\ Len(secret) = SECRET_BYTES
            BY <1>3, <2>1, SubSeqProperties
        <2> HIDE DEF secret
        <2> QED
            BY <2>2
    <1>6. t = [id |-> hex(id), secret |-> secret]
        BY <1>1 DEF from_random
    <1> HIDE DEF id, secret
    <1>7. t.id = hex(id) /\ t.secret = secret
        BY <1>6
    <1>8. /\ hex(id) \in Seq(Char) /\ Len(hex(id)) = 2 * ID_BYTES
          /\ \A j \in 1..2 * ID_BYTES : hex(id)[j] \in Digit
        BY <1>3, <1>4, HexOf
    <1>9. \A i \in 1..Len(hex(id)) : hex(id)[i] # "."
        BY <1>8, DigitsAre
    <1>10. unhex(ID_BYTES, hex(id)) = id
        BY <1>3, <1>4, UnhexHex
    <1>11. id # <<>>
        <2>1. DOMAIN id = 1..ID_BYTES /\ 1 \in 1..ID_BYTES /\ DOMAIN <<>> = {}
            BY <1>3, <1>4
        <2> QED
            BY <2>1
    <1> QED
        BY <1>5, <1>6, <1>7, <1>8, <1>9, <1>10, <1>11 DEF IsToken

LEMMA TablesRow ==
    ASSUME NEW issued, NEW t, NEW expires
    PROVE  LET table == Row(issued, t, expires)
           IN /\ table # <<>> /\ DOMAIN table[1] = {t.id}
              /\ table[1][t.id].hash = secret_hash(issued, t)
              /\ table[1][t.id].expires = expires
    BY DEF Row

\* The domain keeps the hashes of the kinds apart.
LEMMA SameHash ==
    ASSUME NEW kind \in Kinds, NEW issued \in Kinds, NEW t, IsToken(t), NEW r, IsToken(r)
    PROVE  secret_hash(kind, r) = secret_hash(issued, t) <=> kind = issued /\ r.secret = t.secret
    <1>1. PICK p \in Char, d \in Char : kind = [prefix |-> <<p>>, domain |-> <<d>>]
        BY KindsAre
    <1>2. PICK q \in Char, e \in Char : issued = [prefix |-> <<q>>, domain |-> <<e>>]
        BY KindsAre
    <1>3. kind.domain = <<d>> /\ issued.domain = <<e>>
        BY <1>1, <1>2
    <1>4. d = e <=> kind = issued
        BY <1>1, <1>2 DEF Kinds, Token, SessionToken, LoginToken
    <1> DEFINE A == <<d>> \o r.secret
               B == <<e>> \o t.secret
    <1>5. /\ r.secret \in [1..SECRET_BYTES -> Byte] /\ t.secret \in [1..SECRET_BYTES -> Byte]
          /\ SECRET_BYTES \in Nat
        BY CredentialsAssumption DEF IsToken
    <1>6. /\ A[1] = d /\ B[1] = e
          /\ \A i \in 1..SECRET_BYTES : A[i + 1] = r.secret[i] /\ B[i + 1] = t.secret[i]
        BY <1>5
    <1>7. A = B <=> d = e /\ r.secret = t.secret
        <2>1. ASSUME A = B PROVE d = e /\ r.secret = t.secret
            <3>1. d = e
                BY <1>6, <2>1
            <3>2. \A i \in 1..SECRET_BYTES : r.secret[i] = t.secret[i]
                BY <1>6, <2>1
            <3> QED
                BY <1>5, <3>1, <3>2
        <2> QED
            BY <2>1
    <1> QED
        BY <1>3, <1>4, <1>7 DEF secret_hash

\* What is read opens the row of a token exactly when it is that token printed.
LEMMA ComparedOpens ==
    ASSUME NEW kind \in Kinds, NEW issued \in Kinds, NEW t, IsToken(t), NEW expires,
           NEW text \in Seq(Char)
    PROVE  Compared(kind, parse_halves(text, kind.prefix), Row(issued, t, expires)) = [valid |-> t.id]
             <=> kind = issued /\ text = to_secret_string(kind, t)
    <1> DEFINE r == parse_halves(text, kind.prefix)
               table == Row(issued, t, expires)
               found == Compared(kind, r, table)
    <1>1. \A reason : Failed(reason) # [valid |-> t.id]
        BY DEF Failed
    <1>2. CASE HasFailed(r)
        <2>1. found = r
            BY <1>2 DEF Compared
        <2>2. r # [valid |-> t.id]
            BY <1>2 DEF HasFailed
        <2>3. ~HasFailed(t)
            BY DEF IsToken, HasFailed
        <2>4. text # to_secret_string(kind, t)
            <3>1. parse_halves(to_secret_string(kind, t), kind.prefix) = t
                BY ParsePrinted
            <3> QED
                BY <1>2, <2>3, <3>1
        <2> QED
            BY <2>1, <2>2, <2>4
    <1>3. CASE ~HasFailed(r)
        <2>1. IsToken(r) /\ text = to_secret_string(kind, r)
            BY <1>3, ParsedIsPrinted
        <2>2. /\ table # <<>> /\ DOMAIN table[1] = {t.id}
              /\ table[1][t.id].hash = secret_hash(issued, t)
            BY TablesRow
        <2> HIDE DEF table, r
        <2>3. found = [valid |-> t.id] <=> r.id = t.id /\ secret_hash(kind, r) = secret_hash(issued, t)
            <3>1. CASE r.id # t.id
                <4>1. found = Failed("UnknownId")
                    BY <1>3, <2>2, <3>1 DEF Compared
                <4> QED
                    BY <1>1, <3>1, <4>1
            <3>2. CASE r.id = t.id /\ secret_hash(kind, r) # secret_hash(issued, t)
                <4>1. found = Failed("WrongSecret")
                    BY <1>3, <2>2, <3>2 DEF Compared
                <4> QED
                    BY <1>1, <3>2, <4>1
            <3>3. CASE r.id = t.id /\ secret_hash(kind, r) = secret_hash(issued, t)
                <4>1. found = [valid |-> r.id]
                    BY <1>3, <2>2, <3>3 DEF Compared
                <4> QED
                    BY <3>3, <4>1
            <3> QED
                BY <3>1, <3>2, <3>3
        <2>4. found = [valid |-> t.id] <=> r.id = t.id /\ kind = issued /\ r.secret = t.secret
            BY <2>1, <2>3, SameHash
        <2>5. r.id = t.id /\ r.secret = t.secret <=> r = t
            BY <2>1 DEF IsToken
        <2>6. r = t <=> text = to_secret_string(kind, t)
            <3>1. parse_halves(to_secret_string(kind, t), kind.prefix) = t
                BY ParsePrinted
            <3> QED
                BY <2>1, <3>1 DEF r
        <2>7. found = [valid |-> t.id] <=> kind = issued /\ text = to_secret_string(kind, t)
            <3> HIDE DEF found
            <3> QED
                BY <2>4, <2>5, <2>6
        <2> QED
            BY <2>7 DEF r, table
    <1> QED
        BY <1>2, <1>3

LEMMA LiveOpens ==
    ASSUME NEW kind, NEW issued, NEW t, NEW expires \in Int, NEW r, NEW now \in Int
    PROVE  ComparedLive(kind, r, Row(issued, t, expires), now) = [valid |-> t.id]
             <=> Compared(kind, r, Row(issued, t, expires)) = [valid |-> t.id] /\ now < expires
    <1> DEFINE table == Row(issued, t, expires)
               found == Compared(kind, r, table)
    <1>1. table[1][t.id].expires = expires
        BY TablesRow
    <1>2. ~HasFailed([valid |-> t.id]) /\ [valid |-> t.id].valid = t.id
        BY DEF HasFailed
    <1>3. Failed("Expired") # [valid |-> t.id]
        BY DEF Failed
    <1> HIDE DEF table, found
    <1>4. ComparedLive(kind, r, table, now) =
            IF ~HasFailed(found) /\ table[1][found.valid].expires <= now THEN Failed("Expired") ELSE found
        BY DEF ComparedLive, found
    <1>5. CASE found # [valid |-> t.id]
        BY <1>3, <1>4, <1>5 DEF found, table
    <1>6. CASE found = [valid |-> t.id]
        <2>1. found.valid = t.id /\ ~HasFailed(found)
            BY <1>2, <1>6
        <2>2. ComparedLive(kind, r, table, now) = IF expires <= now THEN Failed("Expired") ELSE found
            BY <1>1, <1>4, <2>1
        <2> QED
            BY <1>3, <1>6, <2>2 DEF found, table
    <1> QED
        BY <1>5, <1>6

\* The text of a credential in the header or the cookie that carries it.
LEMMA SplitAfterOne ==
    ASSUME NEW S, NEW x \in S, NEW c \in S, x # c, NEW text \in Seq(S)
    PROVE  split_once(<<x, c>> \o text, c) = <<<<x>>, text>>
    <1>1. <<x, c>> \o text = <<x>> \o <<c>> \o text
        OBVIOUS
    <1>2. <<x>> \in Seq(S) /\ \A i \in 1..Len(<<x>>) : <<x>>[i] # c
        OBVIOUS
    <1> QED
        BY <1>1, <1>2, SplitAt

LEMMA SplitAfterTwo ==
    ASSUME NEW S, NEW x \in S, NEW y \in S, NEW c \in S, x # c, y # c, NEW text \in Seq(S)
    PROVE  /\ split_once(<<x, y, c>> \o text, c) = <<<<x, y>>, text>>
           /\ c \in ToSet(<<x, y, c>> \o text)
    <1>1. <<x, y, c>> \o text = <<x, y>> \o <<c>> \o text
        OBVIOUS
    <1>2. <<x, y>> \in Seq(S) /\ \A i \in 1..Len(<<x, y>>) : <<x, y>>[i] # c
        OBVIOUS
    <1>3. 3 \in DOMAIN (<<x, y, c>> \o text) /\ (<<x, y, c>> \o text)[3] = c
        OBVIOUS
    <1>4. c \in ToSet(<<x, y, c>> \o text)
        BY <1>3 DEF ToSet
    <1>5. split_once(<<x, y>> \o <<c>> \o text, c) = <<<<x, y>>, text>>
        BY <1>2, SplitAt
    <1> QED
        BY <1>1, <1>4, <1>5

LEMMA TrimmedPair ==
    ASSUME NEW S, NEW x \in S, NEW y \in S, x # y
    PROVE  Core(<<x, y>>, x) = <<y>>
    <1> DEFINE s == <<x, y>>
    <1>1. s \in Seq(S) /\ s # <<>> /\ Len(s) = 2 /\ s[1] = x /\ s[2] = y
        OBVIOUS
    <1> HIDE DEF s
    <1>2. \A i \in 1..(Len(s) - 1) : s[i] = x
        BY <1>1
    <1>3. Core(s, x) = <<s[Len(s)]>>
        BY <1>1, <1>2, CoreOf
    <1> QED
        BY <1>1, <1>3 DEF s

LEMMA NotIn ==
    ASSUME NEW x, NEW c, x # c
    PROVE  c \notin ToSet(<<x>>)
    BY DEF ToSet

LEMMA TwoOf ==
    ASSUME NEW x, NEW y
    PROVE  /\ <<x, y>>[1] = x /\ <<x, y>>[2] = y /\ <<x, y>> # <<>>
           /\ 1..Len(<<x, y>>) = {1, 2}
    OBVIOUS

LEMMA KeyShown ==
    ASSUME NEW text \in Seq(Char), NEW table
    PROVE  evaluate_key(Header(<<"bearer", " ">> \o text), table)
             = Compared(Token, parse_halves(trim(text), Token.prefix), table)
    <1> DEFINE value == <<"bearer", " ">> \o text
    <1>1. "bearer" \in Char /\ " " \in Char /\ "bearer" # " "
        BY DEF Char
    <1>2. split_once(value, " ") = <<<<"bearer">>, text>>
        BY <1>1, SplitAfterOne
    <1> HIDE DEF value
    <1>3. from_authorization(value) = parse(trim(text))
        <2> DEFINE parts == split_once(value, " ")
        <2>1. parts[1] = <<"bearer">> /\ parts[2] = text /\ parts # <<>>
            <3> DEFINE scheme == <<"bearer">>
            <3>1. parts = <<scheme, text>>
                BY <1>2
            <3> HIDE DEF parts, scheme
            <3>2. parts[1] = scheme /\ parts[2] = text /\ parts # <<>>
                BY <3>1, TwoOf
            <3> QED
                BY <3>2 DEF scheme
        <2>2. from_authorization(value) =
                IF parts = <<>> THEN Failed("NotBearer")
                ELSE IF parts[1] \notin {<<"Bearer">>, <<"bearer">>} THEN Failed("NotBearer")
                ELSE parse(trim(parts[2]))
            BY DEF from_authorization
        <2> HIDE DEF parts
        <2>3. parts[1] \in {<<"Bearer">>, <<"bearer">>}
            BY <2>1
        <2> QED
            BY <2>1, <2>2, <2>3
    <1>4. Header(value).is = "text" /\ Header(value).text = value
        BY DEF Header
    <1>5. evaluate_key(Header(value), table) = Compared(Token, from_authorization(value), table)
        BY <1>4 DEF evaluate_key
    <1> QED
        BY <1>3, <1>5 DEF parse, value

LEMMA CookieShown ==
    ASSUME NEW text \in Seq(Char)
    PROVE  cookie_value(<<<<"other">>, <<" ", "mp_session", "=">> \o text>>, <<"mp_session">>) = <<text>>
    <1> DEFINE other == <<"other">>
               name == <<" ", "mp_session">>
               pair == <<" ", "mp_session", "=">> \o text
               pairs == <<other, pair>>
               Named(p) == "=" \in ToSet(p) /\ trim(split_once(p, "=")[1]) = <<"mp_session">>
    <1>1. /\ "=" \in Char /\ " " \in Char /\ "mp_session" \in Char
          /\ " " # "=" /\ "mp_session" # "=" /\ " " # "mp_session" /\ "other" # "="
        BY DEF Char
    <1>2. split_once(pair, "=") = <<name, text>> /\ "=" \in ToSet(pair)
        BY <1>1, SplitAfterTwo
    <1>3. "=" \notin ToSet(other)
        BY <1>1, NotIn
    <1>4. trim(name) = <<"mp_session">>
        BY <1>1, TrimmedPair, TrimIsCore
    <1>5. pairs[1] = other /\ pairs[2] = pair /\ 1..Len(pairs) = {1, 2}
        <2> HIDE DEF other, pair
        <2> QED
            BY TwoOf
    <1>6. /\ split_once(pair, "=")[1] = name /\ split_once(pair, "=")[2] = text
        <2> HIDE DEF pair, name
        <2> QED
            BY <1>2
    <1> HIDE DEF pairs, pair, other, name
    <1>7. Named(pair) /\ ~Named(other)
        BY <1>2, <1>3, <1>4, <1>6
    <1> DEFINE I == {i \in 1..Len(pairs) : Named(pairs[i])}
    <1> HIDE DEF Named
    <1>8. I = {2}
        BY <1>5, <1>7
    <1>9. Min(I) = 2
        <2>1. I \in SUBSET Nat /\ I # {}
            BY <1>8
        <2>2. Min(I) \in I
            <3> HIDE DEF I
            <3> QED
                BY <2>1, FirstOf
        <2> QED
            BY <1>8, <2>2
    <1>10. SelectInSeq(pairs, Named) = 2
        <2>1. SelectInSeq(pairs, Named) = IF I # {} THEN Min(I) ELSE 0
            BY DEF SelectInSeq
        <2> QED
            BY <1>8, <1>9, <2>1
    <1>11. cookie_value(pairs, <<"mp_session">>) =
             IF SelectInSeq(pairs, Named) = 0 THEN <<>>
             ELSE <<split_once(pairs[SelectInSeq(pairs, Named)], "=")[2]>>
        BY DEF cookie_value, Named
    <1>12. cookie_value(pairs, <<"mp_session">>) = <<split_once(pairs[2], "=")[2]>>
        BY <1>10, <1>11
    <1> QED
        BY <1>5, <1>6, <1>12 DEF pairs, pair, other

\* Wherever it is presented, a credential is read and compared in the same way.
LEMMA EvaluatedAs ==
    ASSUME NEW kind \in Kinds, NEW text \in Seq(Char), NEW table, NEW now
    PROVE  LET read == parse_halves(Meant(kind, text), kind.prefix)
           IN Evaluated(kind, text, table, now) =
                IF kind = Token THEN Compared(kind, read, table)
                ELSE ComparedLive(kind, read, table, now)
    <1> DEFINE read == parse_halves(Meant(kind, text), kind.prefix)
    <1>1. Token # SessionToken /\ Token # LoginToken /\ SessionToken # LoginToken
        BY DEF Token, SessionToken, LoginToken
    <1>2. CASE kind = Token
        <2>1. Evaluated(kind, text, table, now) =
                evaluate_key(Header(<<"bearer", " ">> \o text), table)
            BY <1>1, <1>2 DEF Evaluated
        <2>2. Meant(kind, text) = trim(text)
            BY <1>1, <1>2 DEF Meant
        <2> QED
            BY <1>2, <2>1, <2>2, KeyShown
    <1>3. CASE kind = SessionToken
        <2> DEFINE pairs == <<<<"other">>, <<" ", "mp_session", "=">> \o text>>
        <2>1. cookie_value(pairs, <<"mp_session">>) = <<text>>
            BY CookieShown
        <2> HIDE DEF pairs
        <2>2. Header(pairs).is = "text" /\ Header(pairs).text = pairs
            BY DEF Header
        <2>3. evaluate_session(Header(pairs), table, now) =
                ComparedLive(SessionToken, parse_session(text), table, now)
            <3> DEFINE value == cookie_value(pairs, <<"mp_session">>)
            <3>1. value # <<>> /\ value[1] = text
                BY <2>1
            <3>2. evaluate_session(Header(pairs), table, now) =
                    IF Header(pairs).is = "notText" THEN Failed("NotText")
                    ELSE IF Header(pairs).is = "absent" \/ value = <<>> THEN Failed("Absent")
                    ELSE ComparedLive(SessionToken, parse_session(value[1]), table, now)
                BY <2>2 DEF evaluate_session
            <3> HIDE DEF value
            <3>3. "text" # "notText" /\ "text" # "absent"
                OBVIOUS
            <3> QED
                BY <2>2, <3>1, <3>2, <3>3, Zenon
        <2>4. Evaluated(kind, text, table, now) = evaluate_session(Header(pairs), table, now)
            BY <1>1, <1>3 DEF Evaluated, pairs
        <2>5. Meant(kind, text) = text
            BY <1>3 DEF Meant
        <2> QED
            BY <1>1, <1>3, <2>3, <2>4, <2>5 DEF parse_session
    <1>4. CASE kind = LoginToken
        <2>1. Evaluated(kind, text, table, now) = evaluate_form(text, table, now)
            BY <1>1, <1>4 DEF Evaluated
        <2>2. Meant(kind, text) = trim(text)
            BY <1>1, <1>4 DEF Meant
        <2> QED
            BY <1>1, <1>4, <2>1, <2>2 DEF evaluate_form, parse_login_token
    <1> QED
        BY <1>2, <1>3, <1>4 DEF Kinds

\* What trim is applied to has no space around it when it is a printed token.
LEMMA ShownIsMeant ==
    ASSUME NEW kind \in Kinds, NEW t, IsToken(t)
    PROVE  Meant(kind, to_secret_string(kind, t)) = to_secret_string(kind, t)
    <1> DEFINE shown == to_secret_string(kind, t)
               last == hex(t.secret)
               n == 2 * SECRET_BYTES
    <1>1. PICK p \in Char, d \in Char : kind = [prefix |-> <<p>>, domain |-> <<d>>] /\ p # " "
        <2>1. /\ {"mpk_", "mps_", "mpl_", "api-key", "session", "login-token"} \subseteq Char
              /\ "mpk_" # " " /\ "mps_" # " " /\ "mpl_" # " "
            BY DEF Char
        <2> QED
            BY <2>1 DEF Kinds, Token, SessionToken, LoginToken
    <1>2. "." \in Char
        BY DEF Char
    <1>3. t.id \in Seq(Char) /\ Len(t.id) \in Nat
        BY DEF IsToken
    <1>4. /\ n \in Nat /\ n > 0 /\ last \in Seq(Char) /\ Len(last) = n
          /\ last[n] \in Digit
        <2>1. n \in Nat /\ n > 0 /\ n \in 1..n
            BY CredentialsAssumption
        <2>2. last \in Seq(Char) /\ Len(last) = n /\ \A j \in 1..n : last[j] \in Digit
            BY HexOf, CredentialsAssumption DEF IsToken
        <2> HIDE DEF n, last
        <2> QED
            BY <2>1, <2>2
    <1>5. shown = <<p>> \o (t.id \o <<".">> \o last)
        BY <1>1, <1>3, <1>4, PrintedAs
    <1> HIDE DEF n, last
    <1> DEFINE rest == t.id \o <<".">> \o last
    <1>6. /\ rest \in Seq(Char) /\ Len(rest) = Len(t.id) + 1 + n
          /\ rest[Len(rest)] \in Digit
        <2>1. /\ rest \in Seq(Char) /\ Len(rest) = Len(t.id) + 1 + Len(last)
              /\ \A i \in 1..Len(last) : rest[Len(t.id) + 1 + i] = last[i]
            <3>1. last \in Seq(Char)
                BY <1>4
            <3> QED
                BY <1>2, <1>3, <3>1, ThreeParts
        <2> HIDE DEF rest
        <2>2. n \in 1..Len(last)
            BY <1>4
        <2>3. rest[Len(t.id) + 1 + n] = last[n]
            BY <2>1, <2>2
        <2> QED
            BY <1>4, <2>1, <2>3
    <1>7. shown = <<p>> \o rest
        BY <1>5
    <1> HIDE DEF rest, shown
    <1>8. /\ shown \in Seq(Char) /\ shown # <<>>
          /\ shown[1] = p /\ shown[Len(shown)] = rest[Len(rest)]
        <2>1. Len(rest) \in Nat /\ Len(rest) > 0 /\ Len(rest) \in 1..Len(rest)
            BY <1>3, <1>4, <1>6
        <2>2. /\ shown \in Seq(Char) /\ Len(shown) = 1 + Len(rest)
              /\ shown[1] = p /\ \A i \in 1..Len(rest) : shown[i + 1] = rest[i]
            BY <1>6, <1>7
        <2>3. shown[Len(rest) + 1] = rest[Len(rest)]
            BY <2>1, <2>2
        <2> QED
            BY <2>1, <2>2, <2>3
    <1>9. trim(shown) = shown
        <2>1. shown[1] # " " /\ shown[Len(shown)] # " "
            BY <1>1, <1>6, <1>8, DigitsAreInk
        <2> QED
            BY <1>8, <2>1, CoreOf, TrimIsCore
    <1> QED
        BY <1>9 DEF Meant, shown

LEMMA MeantIsText ==
    ASSUME NEW kind, NEW text \in Seq(Char)
    PROVE  Meant(kind, text) \in Seq(Char)
    <1>1. trim(text) \in Seq(Char)
        BY CoreOf, TrimIsCore
    <1> QED
        BY <1>1 DEF Meant

\* The two parts of the property.
LEMMA OneKeyHolds == OneKey
    <1> SUFFICES ASSUME NEW kind \in Kinds, NEW issued \in Kinds, NEW t \in Tokens,
                        NEW text \in Printed \cup Presented
                 PROVE  Evaluated(kind, text, Row(issued, t, 2), 1) = [valid |-> t.id]
                          <=> kind = issued /\ Meant(kind, text) = to_secret_string(kind, t)
        BY DEF OneKey
    <1>1. IsToken(t)
        BY TokenIsToken
    <1>2. text \in Seq(Char)
        <2>1. CASE text \in Printed
            <3>1. PICK k \in Kinds, r \in Tokens : text = to_secret_string(k, r)
                BY <2>1 DEF Printed
            <3> QED
                BY <3>1, TokenIsToken, ParsePrinted
        <2>2. CASE text \in Presented
            <3>1. STRING \subseteq Char
                BY DEF Char
            <3>2. Seq(STRING) \subseteq Seq(Char)
                BY <3>1, SeqMonotonic
            <3> QED
                BY <2>2, <3>2, CredentialsAssumption
        <2> QED
            BY <2>1, <2>2
    <1> DEFINE meant == Meant(kind, text)
               read == parse_halves(meant, kind.prefix)
               table == Row(issued, t, 2)
    <1>3. meant \in Seq(Char)
        BY <1>2, MeantIsText
    <1>4. Evaluated(kind, text, table, 1) =
            IF kind = Token THEN Compared(kind, read, table) ELSE ComparedLive(kind, read, table, 1)
        BY <1>2, EvaluatedAs
    <1>5. ComparedLive(kind, read, table, 1) = [valid |-> t.id]
            <=> Compared(kind, read, table) = [valid |-> t.id]
        BY LiveOpens
    <1> HIDE DEF meant
    <1>6. Compared(kind, read, table) = [valid |-> t.id]
            <=> kind = issued /\ meant = to_secret_string(kind, t)
        BY <1>1, <1>3, ComparedOpens
    <1> HIDE DEF read, table
    <1> QED
        BY <1>4, <1>5, <1>6 DEF meant, table

LEMMA LastMomentHolds == LastMoment
    <1> SUFFICES ASSUME NEW kind \in Kinds, NEW t \in Tokens, NEW now \in 1..3
                 PROVE  /\ Evaluated(kind, to_secret_string(kind, t), Row(kind, t, 2), now) = [valid |-> t.id]
                             <=> kind = Token \/ now < 2
                        /\ Evaluated(kind, to_secret_string(kind, t), <<>>, now) = Failed("Unavailable")
        BY DEF LastMoment
    <1>1. IsToken(t)
        BY TokenIsToken
    <1> DEFINE text == to_secret_string(kind, t)
               table == Row(kind, t, 2)
    <1>2. text \in Seq(Char) /\ parse_halves(text, kind.prefix) = t
        BY <1>1, ParsePrinted
    <1>3. Meant(kind, text) = text
        BY <1>1, ShownIsMeant
    <1>4. Compared(kind, t, table) = [valid |-> t.id]
        <2> HIDE DEF text
        <2>1. \A issued \in Kinds :
                Compared(kind, parse_halves(text, kind.prefix), Row(issued, t, 2)) = [valid |-> t.id]
                    <=> kind = issued /\ text = to_secret_string(kind, t)
            <3>1. text \in Seq(Char)
                BY <1>2
            <3> QED
                BY <1>1, <3>1, ComparedOpens
        <2> QED
            BY <1>2, <2>1 DEF text
    <1>5. \A rows : Evaluated(kind, text, rows, now) =
            IF kind = Token THEN Compared(kind, t, rows) ELSE ComparedLive(kind, t, rows, now)
        <2> HIDE DEF text
        <2> QED
            BY <1>2, <1>3, EvaluatedAs
    <1>6. ComparedLive(kind, t, table, now) = [valid |-> t.id] <=> now < 2
        BY <1>4, LiveOpens
    <1>7. Compared(kind, t, <<>>) = Failed("Unavailable")
        <2>1. ~HasFailed(t)
            BY <1>1 DEF IsToken, HasFailed
        <2> QED
            BY <2>1 DEF Compared
    <1>8. ComparedLive(kind, t, <<>>, now) = Failed("Unavailable")
        <2>1. HasFailed(Failed("Unavailable"))
            BY DEF HasFailed, Failed
        <2> QED
            BY <1>7, <2>1 DEF ComparedLive
    <1> HIDE DEF text, table
    <1>9. Evaluated(kind, text, table, now) = [valid |-> t.id] <=> kind = Token \/ now < 2
        BY <1>4, <1>5, <1>6
    <1>10. Evaluated(kind, text, <<>>, now) = Failed("Unavailable")
        BY <1>5, <1>7, <1>8
    <1> QED
        BY <1>9, <1>10 DEF text, table

\* An id in a row is enough to know a credential by: a client's text opens a row exactly
\* when it is the string printed for that row, of its own kind, before it expires, whatever
\* the bytes drawn and whatever is presented (auth.rs: parse_halves, secret_hash; evaluate
\* of api/auth.rs and web/session.rs).
THEOREM AccountsCredentialsOpenTheirOwn == Spec => []CredentialsOpenTheirOwn
    <1>1. CredentialsOpenTheirOwn
        BY OneKeyHolds, LastMomentHolds DEF CredentialsOpenTheirOwn
    <1> QED BY <1>1, PTL
=============================================================================
