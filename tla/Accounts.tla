------------------------------ MODULE Accounts ------------------------------
(***************************************************************************)
(* Who may sign in to the receiver's pages, and how: users, their          *)
(* passkeys, sessions and one-time sign-in tokens in the database          *)
(* (store/users.rs, passkeys.rs, sessions.rs, login_tokens.rs), the        *)
(* passkey prompts under way in memory (web/passkey.rs), the handlers of   *)
(* the pages (web/mod.rs, web/account.rs, web/session.rs), each several    *)
(* transactions long, and the commands of main.rs on the same database.    *)
(*                                                                         *)
(* Ids and secrets are random: an id is the number of its making, a wrong  *)
(* secret is an id nobody has. Browsers send what they were ever given, as *)
(* often as they like.                                                     *)
(***************************************************************************)
EXTENDS Credentials, FiniteSets

CONSTANTS
    Handlers,               \* web requests in flight at once
    Commands,               \* command lines run at once
    Names, NoName,          \* usernames
    FirstPasskeys,          \* the owners of the passkeys there are to begin with
    FirstSessions,          \* the users of the sessions there are to begin with
    Lifetimes,              \* of a session: each binary has one
    TokenLifetime,          \* how long a sign-in token works
    Times,                  \* readings of the server's clock, in any order
    RegistrationCapacity, SignInCapacity,   \* prompts under way: 32 and 64
    MaxRequests, MaxStarts, \* bounds: requests and commands, starts
    MaxTokens, MaxSessions, MaxPasskeys, MaxChallenges  \* bounds: what is made

ASSUME AccountsAssumption ==
    /\ NoName \notin Names /\ IsFiniteSet(Names)
    /\ FirstPasskeys \in Seq(Names) /\ FirstSessions \in Seq(Names)
    /\ Lifetimes \subseteq Nat /\ TokenLifetime \in Nat /\ Times \subseteq Int
ASSUME BoundsAssumption ==
    /\ RegistrationCapacity \in Nat /\ SignInCapacity \in Nat
    /\ MaxRequests \in Nat /\ MaxStarts \in Nat
    /\ MaxTokens \in Nat /\ MaxSessions \in Nat
    /\ MaxPasskeys \in Nat /\ MaxChallenges \in Nat

VARIABLES
    users,          \* web_user
    passkeys,       \* web_passkey: the user each is of
    tokens,         \* web_login_token: user, expires
    sessions,       \* web_session: user, created, expires
    up, lifetime,   \* whether the receiver serves, and for how long its sessions last
    ceremonies,     \* Ceremonies: the user registering, NoName for a sign-in
    request,        \* per handler or command: where it is, for whom, about what
    made,           \* how many of each have been made
    requests, starts,   \* counters of bounds
    capped,         \* history: cap_lifetimes did not fail at this start
    redeemed, answered  \* history: how often a token or a challenge was accepted

database == <<users, passkeys, tokens, sessions>>
server == <<up, lifetime, capped>>
history == <<redeemed, answered>>
counters == <<requests, starts>>
vars == <<database, server, ceremonies, request, made, counters, history>>

Actors == Handlers \cup Commands
Empty == [x \in {} |-> 0]
Idle == [pc |-> "idle", user |-> NoName, name |-> NoName, id |-> 0, at |-> 0]

-----------------------------------------------------------------------------
(* Tables.                                                                 *)

Without(table, ids) == [x \in DOMAIN table \ ids |-> table[x]]
With(table, id, row) == [x \in DOMAIN table \cup {id} |-> IF x = id THEN row ELSE table[x]]
Of(table, name) == {x \in DOMAIN table : table[x].user = name}
ExpiredAt(table, t) == {x \in DOMAIN table : table[x].expires <= t}

\* Foreign keys are on: no row goes in for a user who is not there.
\* Mutation of Exists: a connection without them.
NotEnforced(name) == TRUE
Exists(name) == name \in users

Registrations == {c \in DOMAIN ceremonies : ceremonies[c].user # NoName}
SignIns == {c \in DOMAIN ceremonies : ceremonies[c].user = NoName}

Init ==
    /\ users = {FirstPasskeys[p] : p \in DOMAIN FirstPasskeys}
               \cup {FirstSessions[s] : s \in DOMAIN FirstSessions}
    /\ passkeys = [p \in DOMAIN FirstPasskeys |-> [user |-> FirstPasskeys[p]]]
    /\ tokens = Empty
    /\ up = FALSE /\ lifetime \in Lifetimes /\ capped = FALSE
    /\ sessions = [s \in DOMAIN FirstSessions |->
                    [user |-> FirstSessions[s], created |-> 0, expires |-> lifetime]]
    /\ ceremonies = Empty
    /\ request = [a \in Actors |-> Idle]
    /\ made = [token |-> 0, session |-> Len(FirstSessions),
               passkey |-> Len(FirstPasskeys), challenge |-> 0]
    /\ requests = 0 /\ starts = 0
    /\ redeemed = [i \in 1..MaxTokens |-> 0] /\ answered = [c \in 1..MaxChallenges |-> 0]

-----------------------------------------------------------------------------
(* The receiver's process.                                                 *)

\* Mutation of Outlives: measured from now, not from its creation.
OutlivesNow(s, l) == \A t \in Times : s.expires > t + l
Outlives(s, l) == s.expires > s.created + l

\* A start, of the same binary or another, cuts the sessions to its lifetime;
\* that may fail and only warns.
Start(l) ==
    /\ ~up /\ starts < MaxStarts
    /\ up' = TRUE /\ lifetime' = l /\ starts' = starts + 1
    /\ \/ /\ sessions' = [x \in DOMAIN sessions |->
                            IF Outlives(sessions[x], l)
                            THEN [sessions[x] EXCEPT !.expires = sessions[x].created + l]
                            ELSE sessions[x]]
          /\ capped' = TRUE
       \/ capped' = FALSE /\ UNCHANGED sessions
    /\ UNCHANGED <<users, passkeys, tokens, ceremonies, request, made, requests, history>>

\* Stopped or killed: requests and prompts are gone, commands go on.
Stop ==
    /\ up
    /\ up' = FALSE /\ ceremonies' = Empty
    /\ request' = [a \in Actors |-> IF a \in Handlers THEN Idle ELSE request[a]]
    /\ UNCHANGED <<database, lifetime, capped, made, counters, history>>

\* A prompt nobody answers expires; the set drops it when it needs the room.
Expire(c) ==
    /\ ceremonies' = Without(ceremonies, {c})
    /\ UNCHANGED <<database, server, request, made, counters, history>>

-----------------------------------------------------------------------------
(* Requests.                                                               *)

At(a, pc) == request[a].pc = pc
Goes(a, pc) == request' = [request EXCEPT ![a].pc = pc, ![a].id = 0]
Ends(a) == request' = [request EXCEPT ![a] = Idle]
Begins(a, step) ==
    /\ At(a, "idle") /\ requests < MaxRequests /\ requests' = requests + 1
    /\ request' = [request EXCEPT ![a] = step]

\* What the forms behind the guard ask for, from a browser signed in as u.
Asks(h, u) ==
    \/ \E p \in {"insertUser", "count"}, n \in Names :
        Begins(h, [Idle EXCEPT !.pc = p, !.user = u, !.name = n])
    \/ \E p \in {"issueOwn", "deleteToken", "accountPage"} :
        Begins(h, [Idle EXCEPT !.pc = p, !.user = u, !.name = u])
    \/ \E s \in 1..made.session : Begins(h, [Idle EXCEPT !.pc = "endSession", !.user = u, !.id = s])
    \/ \E p \in 1..made.passkey : Begins(h, [Idle EXCEPT !.pc = "removePasskey", !.user = u, !.id = p])
    \/ \E c \in 0..made.challenge :
        Begins(h, [Idle EXCEPT !.pc = "finishRegistration", !.user = u, !.id = c])

\* The guard reads the session and its expiry; what it found goes with the
\* request, which is not checked again.
Submit(h) ==
    /\ up
    /\ \E s \in DOMAIN sessions, t \in Times :
        t < sessions[s].expires /\ Asks(h, sessions[s].user)
    /\ UNCHANGED <<database, server, ceremonies, made, starts, history>>

\* The login form needs no session.
GetLogin(h) ==
    /\ up
    /\ Begins(h, [Idle EXCEPT !.pc = "loginPage"])
    /\ UNCHANGED <<database, server, ceremonies, made, starts, history>>

\* create-user, create-login-token, delete-user
Run(c) ==
    /\ \E n \in Names, p \in {"insertUser", "issue", "delete"} :
        Begins(c, [Idle EXCEPT !.pc = p, !.name = n])
    /\ UNCHANGED <<database, server, ceremonies, made, starts, history>>

\* A statement fails, or the client goes away at an await.
Fails(a) ==
    /\ ~At(a, "idle") /\ Ends(a)
    /\ UNCHANGED <<database, server, ceremonies, made, counters, history>>

-----------------------------------------------------------------------------
(* Users.                                                                  *)

\* A name that is taken is refused; a new one is followed by its token, in a
\* transaction of its own.
InsertUser(a) ==
    /\ At(a, "insertUser")
    /\ \/ request[a].name \in users /\ Ends(a) /\ UNCHANGED users
       \/ /\ request[a].name \notin users
          /\ users' = users \cup {request[a].name} /\ Goes(a, "issue")
    /\ UNCHANGED <<passkeys, tokens, sessions, server, ceremonies, made, counters, history>>

\* delete_user refuses to remove the last one; the command does not ask.
Count(h) ==
    /\ At(h, "count")
    /\ \/ Cardinality(users) <= 1 /\ Ends(h)
       \/ Cardinality(users) > 1 /\ Goes(h, "delete")
    /\ UNCHANGED <<database, server, ceremonies, made, counters, history>>

\* users::delete, and the cascade
Delete(a) ==
    /\ At(a, "delete")
    /\ LET name == request[a].name IN
        /\ users' = users \ {name}
        /\ passkeys' = Without(passkeys, Of(passkeys, name))
        /\ tokens' = Without(tokens, Of(tokens, name))
        /\ sessions' = Without(sessions, Of(sessions, name))
    /\ Ends(a)
    /\ UNCHANGED <<server, ceremonies, made, counters, history>>

\* end_session, logout
EndSession(h) ==
    /\ At(h, "endSession")
    /\ sessions' = Without(sessions, {request[h].id})
    /\ Ends(h)
    /\ UNCHANGED <<users, passkeys, tokens, server, ceremonies, made, counters, history>>

-----------------------------------------------------------------------------
(* Sign-in tokens.                                                         *)

Replaced(name, t) == Of(tokens, name) \cup ExpiredAt(tokens, t)

\* login_tokens::issue; the account page shows what it issued.
Issue(a) ==
    /\ At(a, "issue") \/ At(a, "issueOwn")
    /\ made.token < MaxTokens
    /\ \E t \in Times :
        LET name == request[a].name
            kept == Without(tokens, Replaced(name, t))
            token == [user |-> name, expires |-> t + TokenLifetime]
        IN  \/ ~Exists(name) /\ tokens' = kept /\ Ends(a) /\ UNCHANGED made
            \/ /\ Exists(name)
               /\ tokens' = With(kept, made.token + 1, token)
               /\ made' = [made EXCEPT !.token = made.token + 1]
               /\ IF At(a, "issueOwn") THEN Goes(a, "accountPage") ELSE Ends(a)
    /\ UNCHANGED <<users, passkeys, sessions, server, ceremonies, counters, history>>

DeleteToken(h) ==
    /\ At(h, "deleteToken")
    /\ tokens' = Without(tokens, Of(tokens, request[h].user))
    /\ Ends(h)
    /\ UNCHANGED <<users, passkeys, sessions, server, ceremonies, made, counters, history>>

\* Mutation of UsedUp: the row is left.
NotUsedUp(i) == {}
UsedUp(i) == {i}

\* Expired sessions are swept at a login; that may fail and only warns.
Sweep(t) == sessions' \in {sessions, Without(sessions, ExpiredAt(sessions, t))}

StartSession(u, t) ==
    /\ made.session < MaxSessions
    /\ sessions' = With(sessions, made.session + 1,
                        [user |-> u, created |-> t, expires |-> t + lifetime])
    /\ made' = [made EXCEPT !.session = made.session + 1]

\* login: the sweep, then the token.
Login(h) ==
    /\ up
    /\ \E i \in 0..made.token, t \in Times :
        Sweep(t) /\ Begins(h, [Idle EXCEPT !.pc = "redeem", !.id = i, !.at = t])
    /\ UNCHANGED <<users, passkeys, tokens, server, ceremonies, made, starts, history>>

\* login_tokens::redeem, one transaction: the token is gone and the session is
\* there. What does not sign in gets the login page again.
Redeem(h) ==
    /\ At(h, "redeem")
    /\ LET i == request[h].id
           t == request[h].at
       IN  \/ /\ i \in DOMAIN tokens /\ t < tokens[i].expires
              /\ tokens' = Without(tokens, UsedUp(i))
              /\ StartSession(tokens[i].user, t)
              /\ redeemed' = [redeemed EXCEPT ![i] = redeemed[i] + 1]
              /\ Ends(h)
           \/ /\ i \in DOMAIN tokens => tokens[i].expires <= t
              /\ tokens' = Without(tokens, {i})
              /\ request' = [request EXCEPT ![h] = [Idle EXCEPT !.pc = "loginPage"]]
              /\ UNCHANGED <<sessions, made, redeemed>>
    /\ UNCHANGED <<users, passkeys, server, ceremonies, counters, answered>>

-----------------------------------------------------------------------------
(* Passkeys.                                                               *)

\* Mutation of HasRoom: the set takes one more.
HasRoomForOneMore(set, capacity) == Cardinality(set) <= capacity
HasRoom(set, capacity) == Cardinality(set) < capacity

\* A page that offers a prompt starts its ceremony, unless the set is full (or
\* the page is not on a host passkeys can be bound to).
Offer(h, u, set, capacity) ==
    /\ made.challenge < MaxChallenges
    /\ \/ /\ HasRoom(set, capacity)
          /\ ceremonies' = With(ceremonies, made.challenge + 1, [user |-> u])
          /\ made' = [made EXCEPT !.challenge = made.challenge + 1]
       \/ UNCHANGED <<ceremonies, made>>
    /\ Ends(h)
    /\ UNCHANGED <<database, server, counters, history>>

AccountPage(h) ==
    At(h, "accountPage") /\ Offer(h, request[h].user, Registrations, RegistrationCapacity)
LoginPage(h) == At(h, "loginPage") /\ Offer(h, NoName, SignIns, SignInCapacity)

\* Mutation of Taken: the ceremony is looked at, not taken.
NotTaken(c, set) == {}
Taken(c, set) == {c} \cap set

\* A challenge is taken whatever comes of the answer.
FinishRegistration(h) ==
    /\ At(h, "finishRegistration")
    /\ LET c == request[h].id IN
        /\ ceremonies' = Without(ceremonies, Taken(c, Registrations))
        /\ \/ /\ c \in Registrations /\ ceremonies[c].user = request[h].user
              /\ answered' = [answered EXCEPT ![c] = answered[c] + 1]
              /\ Goes(h, "insertPasskey")
           \/ Goes(h, "accountPage") /\ UNCHANGED answered
    /\ UNCHANGED <<database, server, made, counters, redeemed>>

InsertPasskey(h) ==
    /\ At(h, "insertPasskey") /\ made.passkey < MaxPasskeys
    /\ Exists(request[h].user)
    /\ passkeys' = With(passkeys, made.passkey + 1, [user |-> request[h].user])
    /\ made' = [made EXCEPT !.passkey = made.passkey + 1]
    /\ Ends(h)
    /\ UNCHANGED <<users, tokens, sessions, server, ceremonies, counters, history>>

\* Mutation of Others: those of every user count.
OthersOfAnyone(u, p) == DOMAIN passkeys \ {p}
Others(u, p) == Of(passkeys, u) \ {p}

\* passkeys::delete: one's own only, and never the last.
RemovePasskey(h) ==
    /\ At(h, "removePasskey")
    /\ LET u == request[h].user
           own == {request[h].id} \cap Of(passkeys, u)
       IN  \/ /\ Others(u, request[h].id) # {}
              /\ passkeys' = Without(passkeys, own) /\ Ends(h)
           \/ /\ Others(u, request[h].id) = {} /\ UNCHANGED passkeys
              /\ IF own = {} THEN Ends(h) ELSE Goes(h, "accountPage")
    /\ UNCHANGED <<users, tokens, sessions, server, ceremonies, made, counters, history>>

\* passkey_login: the passkey is looked up, the challenge taken, the answer
\* verified; the session is another transaction.
PasskeyLogin(h) ==
    /\ up
    /\ \E c \in 0..made.challenge, p \in 0..made.passkey :
        /\ ceremonies' = Without(ceremonies, Taken(c, SignIns))
        /\ \/ /\ c \in SignIns /\ p \in DOMAIN passkeys
              /\ answered' = [answered EXCEPT ![c] = answered[c] + 1]
              /\ Begins(h, [Idle EXCEPT !.pc = "establish", !.user = passkeys[p].user])
           \/ /\ Begins(h, [Idle EXCEPT !.pc = "loginPage"])
              /\ UNCHANGED answered
    /\ UNCHANGED <<database, server, made, starts, redeemed>>

\* establish: the sweep, then the session.
Establish(h) ==
    /\ At(h, "establish")
    /\ \E t \in Times :
        Sweep(t) /\ request' = [request EXCEPT ![h].pc = "insertSession", ![h].at = t]
    /\ UNCHANGED <<users, passkeys, tokens, server, ceremonies, made, counters, history>>

InsertSession(h) ==
    /\ At(h, "insertSession") /\ Exists(request[h].user)
    /\ StartSession(request[h].user, request[h].at)
    /\ Ends(h)
    /\ UNCHANGED <<users, passkeys, tokens, server, ceremonies, counters, history>>

-----------------------------------------------------------------------------
Handle(h) ==
    \/ Submit(h) \/ GetLogin(h) \/ Login(h) \/ Redeem(h)
    \/ PasskeyLogin(h) \/ Establish(h) \/ InsertSession(h)
    \/ Count(h) \/ EndSession(h) \/ DeleteToken(h)
    \/ AccountPage(h) \/ LoginPage(h)
    \/ FinishRegistration(h) \/ InsertPasskey(h) \/ RemovePasskey(h)

Next ==
    \/ \E l \in Lifetimes : Start(l)
    \/ Stop
    \/ \E c \in DOMAIN ceremonies : Expire(c)
    \/ \E h \in Handlers : Handle(h)
    \/ \E c \in Commands : Run(c)
    \/ \E a \in Actors : InsertUser(a) \/ Issue(a) \/ Delete(a) \/ Fails(a)

Spec == Init /\ [][Next]_vars

-----------------------------------------------------------------------------
(* What the accounts promise.                                              *)

Somebody == [user : Names]
SignInToken == [user : Names, expires : Int]
Session == [user : Names, created : Int, expires : Int]

\* Requests, by what they carry.
Bare == [pc : {"idle", "loginPage"}, user : {NoName}, name : {NoName}, id : {0}, at : {0}]
OnName == [pc : {"insertUser", "issue", "count", "delete"},
           user : Names \cup {NoName}, name : Names, id : {0}, at : {0}]
OfSession == [pc : {"issueOwn", "deleteToken", "endSession", "removePasskey", "accountPage",
                    "finishRegistration", "insertPasskey"},
              user : Names, name : Names \cup {NoName}, id : Nat, at : {0}]
Verified == [pc : {"establish"}, user : Names, name : {NoName}, id : {0}, at : {0}]
Entering == [pc : {"insertSession"}, user : Names, name : {NoName}, id : {0}, at : Int]
Redeeming == [pc : {"redeem"}, user : {NoName}, name : {NoName}, id : Nat, at : Int]
Step == Bare \cup OnName \cup OfSession \cup Verified \cup Entering \cup Redeeming

IsTable(table, last, row) ==
    DOMAIN table \subseteq 1..last /\ \A x \in DOMAIN table : table[x] \in row

DatabaseOK ==
    /\ users \subseteq Names
    /\ IsTable(passkeys, made.passkey, Somebody) /\ IsTable(tokens, made.token, SignInToken)
    /\ IsTable(sessions, made.session, Session)
MadeOK == made \in [token : 0..MaxTokens, session : Nat, passkey : Nat, challenge : 0..MaxChallenges]
ServerOK == up \in BOOLEAN /\ lifetime \in Lifetimes /\ capped \in BOOLEAN
CeremoniesOK ==
    /\ IsTable(ceremonies, made.challenge, [user : Names \cup {NoName}])
    /\ Cardinality(Registrations) <= RegistrationCapacity
    /\ Cardinality(SignIns) <= SignInCapacity
RequestsOK == request \in [Actors -> Step] /\ requests \in Nat /\ starts \in Nat
HistoryOK == redeemed \in [1..MaxTokens -> Nat] /\ answered \in [1..MaxChallenges -> Nat]

\* Every variable has its type, every id was made, and neither set of prompts
\* holds more than its capacity.
TypeOK == DatabaseOK /\ MadeOK /\ ServerOK /\ CeremoniesOK /\ RequestsOK /\ HistoryOK

\* A session, a passkey or a token is always of a user there is: deleting a user
\* ends all their ways in, also those a request is about to add (users.rs,
\* schema.rs 4.0).
NoOrphans ==
    /\ \A p \in DOMAIN passkeys : passkeys[p].user \in users
    /\ \A i \in DOMAIN tokens : tokens[i].user \in users
    /\ \A s \in DOMAIN sessions : sessions[s].user \in users

\* "One token per user, so issuing a new one is also how a token that went
\* astray is voided" (login_tokens.rs).
OneTokenEach ==
    \A i, j \in DOMAIN tokens : tokens[i].user = tokens[j].user => i = j

\* "let in once" (login_tokens.rs): a token signs in at most once, and never
\* after it was replaced, deleted or swept, whatever requests present it.
Lives(ids, live, last) ==
    [i \in ids |-> IF i \in live THEN "live" ELSE IF i <= last THEN "ended" ELSE "unissued"]
Token1 == INSTANCE OneTimeUse WITH
    Ids <- 1..MaxTokens, uses <- redeemed,
    state <- Lives(1..MaxTokens, DOMAIN tokens, made.token)
TokenUsedOnce == Token1!Spec

\* "a challenge answers exactly one response whatever becomes of it" (passkey.rs).
Challenge == INSTANCE OneTimeUse WITH
    Ids <- 1..MaxChallenges, uses <- answered,
    state <- Lives(1..MaxChallenges, DOMAIN ceremonies, made.challenge)
ChallengeUsedOnce == Challenge!Spec

\* A user with a passkey keeps one as long as they exist: two removals at once
\* cannot take the last two (passkeys.rs).
WayInKept ==
    [][\A u \in users \cap users' : Of(passkeys, u) # {} => Of(passkeys', u) # {}]_vars

\* "a shorter session lifetime takes effect at deploy" (sessions.rs): while a
\* receiver serves, no session outlives the lifetime of its binary.
LifetimesCapped ==
    up /\ capped => \A s \in DOMAIN sessions : sessions[s].expires <= sessions[s].created + lifetime

\* A session, a token or a key is known here, as in Exchange, by its row's id alone. It
\* may be: what a client presents opens a row exactly when it is the string printed for
\* that row, of its own kind, spelled as printed, before it expires; and a table that
\* cannot be read makes none of them wrong (auth.rs, evaluate in api/auth.rs and
\* web/session.rs).
CredentialsOpenTheirOwn == up => OneKey /\ LastMoment
=============================================================================
