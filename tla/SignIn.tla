------------------------------- MODULE SignIn ------------------------------
(* Who a browser is to Civil, and what it may ask GitHub for: signing in    *)
(* with Google (auth-routes.ts, google.ts, sessions.ts), linking a GitHub   *)
(* account (github-routes.ts, user-auth.ts, connections.ts), the session    *)
(* behind every request (identity.ts) and the installation tokens that      *)
(* requests share (app.ts).                                                 *)
(*                                                                          *)
(* One browser with several tabs: they share its cookies, and what one tab  *)
(* starts another may finish, or spoil.  A start is the navigation that     *)
(* leaves for a provider; it is known by its number, which stands for the   *)
(* state, the nonce and the verifier made for it.  Time passes in ticks of  *)
(* the margin by which tokens are renewed early.                            *)
EXTENDS Integers, Sequences

CONSTANTS
    People,               \* Google accounts, by their `sub`
    Addresses,            \* which an account may change
    Accounts,             \* GitHub accounts
    Installations,
    ReachOf,              \* account -> the installations it can reach, in order
    Requests,             \* the requests under way, one slot each
    Nobody,
    MaxStarts,            \* bounds the starts of a behavior
    MaxTime,              \* bounds the clock
    SESSION_TTL, TOKEN_TTL, TOKEN_RENEW_MARGIN

ASSUME SignInAssumption ==
    /\ ReachOf \in [Accounts -> Seq(Installations)]
    /\ Nobody \notin People \cup Accounts \cup Installations
    /\ {MaxStarts, MaxTime, SESSION_TTL, TOKEN_TTL, TOKEN_RENEW_MARGIN} \subseteq Nat
    /\ TOKEN_RENEW_MARGIN < TOKEN_TTL      \* five minutes of an hour (app.ts:20)

VARIABLES
    now,
    addressOf,            \* each Google account's address today
    users,                \* the rows of users; a user's id is its place
    sessions,             \* every session ever made; row: is its row still there
    signedOut,            \* the sessions whose logout has been answered
    cookies,              \* of the browser: the session, and one start per provider
    starts,
    connections,          \* user id -> the row of user_connections
    tokens,               \* GitHubApp.tokens, each with the time it lasts until
    request

signInVars == <<now, addressOf, users, sessions, signedOut, cookies, starts,
                connections, tokens, request>>

Providers == {"google", "github"}
UserIds == 1..MaxStarts
NotLinked == [account |-> Nobody, installation |-> Nobody]
NoToken == [of |-> Nobody, until |-> 0]
Idle == [phase |-> "idle", session |-> 0, user |-> 0, installation |-> Nobody,
         token |-> NoToken, since |-> 0]

SignInInit ==
    /\ now = 0
    /\ addressOf \in [People -> Addresses]
    /\ users = <<>> /\ sessions = <<>> /\ signedOut = {}
    /\ cookies = [session |-> 0, google |-> 0, github |-> 0]
    /\ starts = <<>>
    /\ connections = [u \in UserIds |-> NotLinked]
    /\ tokens = [i \in Installations |-> NoToken]
    /\ request = [r \in Requests |-> Idle]

-----------------------------------------------------------------------------
(* The identity of a request: the user of the session its cookie carries,   *)
(* if that has a row which has not run out.                                 *)
LoadSessionRowOrNot(s) == IF s # 0 /\ now < sessions[s].expires THEN sessions[s].user ELSE 0

LoadSession(s) ==
    IF s # 0 /\ sessions[s].row /\ now < sessions[s].expires
    THEN sessions[s].user ELSE 0

RowOf(person, address) == {u \in DOMAIN users : users[u].sub = person}

(* The row of a person, made or brought up to date: Google's sub decides.   *)
Upserted(person, address) ==
    LET theirs == RowOf(person, address)
        row(sub) == [sub |-> sub, email |-> address]
    IN IF theirs = {}
       THEN [id |-> Len(users) + 1, rows |-> Append(users, row(person))]
       ELSE LET u == CHOOSE u \in theirs : TRUE
            IN [id |-> u, rows |-> [users EXCEPT ![u] = row(@.sub)]]

-----------------------------------------------------------------------------
(* Leaving for a provider.  The one cookie a provider has is overwritten by *)
(* every start; linking GitHub needs a session, signing in makes one.       *)
Begun(provider) ==
    [provider |-> provider, at |-> "away", who |-> Nobody, cookie |-> 0, session |-> 0,
     address |-> Nobody, by |-> 0]

MayLeave(provider) == provider = "github" => LoadSession(cookies.session) # 0

Leave(provider) ==
    /\ Len(starts) < MaxStarts
    /\ MayLeave(provider)
    /\ starts' = Append(starts, Begun(provider))
    /\ cookies' = [cookies EXCEPT ![provider] = Len(starts) + 1]
    /\ UNCHANGED <<now, addressOf, users, sessions, signedOut, connections, tokens, request>>

(* The author declines at the provider: the callback says so and leaves the *)
(* cookie.                                                                  *)
Decline(t) ==
    /\ starts[t].at = "away"
    /\ starts' = [starts EXCEPT ![t].at = "over"]
    /\ UNCHANGED <<now, addressOf, users, sessions, signedOut, cookies, connections,
                   tokens, request>>

(* An account is chosen, and the browser sends the callback with the        *)
(* cookies it has by now.                                                   *)
Return(t, who) ==
    /\ starts[t].at = "away"
    /\ who \in IF starts[t].provider = "google" THEN People ELSE Accounts
    /\ starts' = [starts EXCEPT ![t].at = "back", ![t].who = who,
                                ![t].cookie = cookies[starts[t].provider],
                                ![t].session = cookies.session]
    /\ UNCHANGED <<now, addressOf, users, sessions, signedOut, cookies, connections,
                   tokens, request>>

Ends(t) ==
    /\ starts' = [starts EXCEPT ![t].at = "over"]
    /\ cookies' = [cookies EXCEPT ![starts[t].provider] = 0]

HasState(t) == starts[t].cookie = t

MayFinish(t) ==
    /\ HasState(t)
    /\ starts[t].provider = "github" => LoadSession(starts[t].session) # 0

(* The callback answers a start whose state is not the cookie's, or that    *)
(* links an account to nobody: it goes no further.  Without a session the   *)
(* hook answers before the handler, and the cookie stays.                   *)
Reject(t) ==
    /\ starts[t].at = "back" /\ ~MayFinish(t)
    /\ IF starts[t].provider = "github" /\ LoadSession(starts[t].session) = 0
       THEN /\ starts' = [starts EXCEPT ![t].at = "over"]
            /\ UNCHANGED cookies
       ELSE Ends(t)
    /\ UNCHANGED <<now, addressOf, users, sessions, signedOut, connections, tokens, request>>

(* The provider exchanges the code for what it says of the account now, or  *)
(* refuses: the state, the nonce and the verifier are those of one start.   *)
GoogleProfile(t) == addressOf[starts[t].who]

GitHubReach(t) ==
    LET reach == ReachOf[starts[t].who] IN IF reach = <<>> THEN Nobody ELSE Head(reach)

Exchange(t) ==
    /\ starts[t].at = "back" /\ MayFinish(t)
    /\ \/ /\ starts' = [starts EXCEPT
                  ![t].at = "exchanged",
                  ![t].by = IF starts[t].provider = "github"
                            THEN LoadSession(starts[t].session) ELSE @,
                  ![t].address = IF starts[t].provider = "google"
                                 THEN GoogleProfile(t) ELSE Nobody]
          /\ UNCHANGED cookies
       \/ Ends(t)
    /\ UNCHANGED <<now, addressOf, users, sessions, signedOut, connections, tokens, request>>

NewSession(user, person) ==
    [user |-> user, row |-> TRUE, expires |-> now + SESSION_TTL, born |-> now, person |-> person]

(* Signed in: the row, a new session, and its cookie.                       *)
SignedIn(t) ==
    /\ starts[t].at = "exchanged" /\ starts[t].provider = "google"
    /\ LET upserted == Upserted(starts[t].who, starts[t].address)
       IN /\ users' = upserted.rows
          /\ sessions' = Append(sessions, NewSession(upserted.id, starts[t].who))
    /\ starts' = [starts EXCEPT ![t].at = "over"]
    /\ cookies' = [cookies EXCEPT !.google = 0, !.session = Len(sessions) + 1]
    /\ UNCHANGED <<now, addressOf, signedOut, connections, tokens, request>>

Link(account, installation) == [account |-> account, installation |-> installation]

(* Linked: to the user the callback's session is of, with the first         *)
(* installation the account reaches, if it reaches any.                     *)
Linked(t) ==
    /\ starts[t].at = "exchanged" /\ starts[t].provider = "github"
    /\ connections' = [connections EXCEPT ![starts[t].by] = Link(starts[t].who, GitHubReach(t))]
    /\ Ends(t)
    /\ UNCHANGED <<now, addressOf, users, sessions, signedOut, tokens, request>>

(* The cookies of starts last ten minutes, which nobody counts here.        *)
Forget(provider) ==
    /\ cookies[provider] # 0
    /\ cookies' = [cookies EXCEPT ![provider] = 0]
    /\ UNCHANGED <<now, addressOf, users, sessions, signedOut, starts, connections,
                   tokens, request>>

(* A Google account gets another address.                                   *)
ChangeAddress(person, address) ==
    /\ addressOf[person] # address
    /\ addressOf' = [addressOf EXCEPT ![person] = address]
    /\ UNCHANGED <<now, users, sessions, signedOut, cookies, starts, connections,
                   tokens, request>>

-----------------------------------------------------------------------------
(* A request that asks GitHub, and the two that do not: they carry the      *)
(* cookie of the moment they were sent.                                     *)
Ask(r, kind) ==
    /\ request[r] = Idle
    /\ cookies.session # 0
    /\ request' = [request EXCEPT ![r] = [Idle EXCEPT !.phase = kind,
                                                     !.session = cookies.session]]
    /\ UNCHANGED <<now, addressOf, users, sessions, signedOut, cookies, starts,
                   connections, tokens>>

Done(r) == request' = [request EXCEPT ![r] = Idle]

(* Logging out deletes the row, and then the cookie.                        *)
LogOut(r) ==
    /\ request[r].phase = "logout"
    /\ sessions' = [sessions EXCEPT ![request[r].session].row = FALSE]
    /\ signedOut' = signedOut \cup {request[r].session}
    /\ cookies' = [cookies EXCEPT !.session = 0]
    /\ Done(r)
    /\ UNCHANGED <<now, addressOf, users, starts, connections, tokens>>

(* Whose request it is: the hook before every handler.                      *)
Identify(r) ==
    /\ request[r].phase \in {"repositories", "disconnect"}
    /\ request[r].user = 0
    /\ LET user == LoadSession(request[r].session)
       IN request' = [request EXCEPT ![r] = IF user = 0 THEN Idle ELSE [@ EXCEPT !.user = user]]
    /\ UNCHANGED <<now, addressOf, users, sessions, signedOut, cookies, starts,
                   connections, tokens>>

Disconnect(r) ==
    /\ request[r].phase = "disconnect" /\ request[r].user # 0
    /\ connections' = [connections EXCEPT ![request[r].user] = NotLinked]
    /\ Done(r)
    /\ UNCHANGED <<now, addressOf, users, sessions, signedOut, cookies, starts, tokens>>

(* Which installation, by the row of the request's own user.                *)
ReadConnection(r) ==
    /\ request[r].phase = "repositories" /\ request[r].user # 0
    /\ LET installation == connections[request[r].user].installation
       IN request' = [request EXCEPT ![r] =
              IF installation = Nobody THEN Idle
              ELSE [@ EXCEPT !.phase = "connected", !.installation = installation]]
    /\ UNCHANGED <<now, addressOf, users, sessions, signedOut, cookies, starts,
                   connections, tokens>>

(* A cached token is used while it lasts longer than the margin.            *)
Lasting(token) == token.until - now > TOKEN_RENEW_MARGIN

CacheKey(installation) == installation

Hold(r, token) ==
    request' = [request EXCEPT ![r] = [@ EXCEPT !.phase = "holds", !.token = token, !.since = now]]

CachedToken(r) ==
    LET cached == tokens[CacheKey(request[r].installation)]
    IN /\ request[r].phase = "connected"
       /\ IF Lasting(cached) THEN Hold(r, cached)
          ELSE request' = [request EXCEPT ![r].phase = "minting"]
       /\ UNCHANGED <<now, addressOf, users, sessions, signedOut, cookies, starts,
                      connections, tokens>>

MintedFor(installation) == [of |-> installation, until |-> now + TOKEN_TTL]

(* GitHub mints one, or refuses.                                            *)
Mint(r) ==
    LET minted == MintedFor(request[r].installation)
    IN /\ request[r].phase = "minting"
       /\ \/ Hold(r, minted) /\ tokens' = [tokens EXCEPT ![CacheKey(minted.of)] = minted]
          \/ Done(r) /\ UNCHANGED tokens
       /\ UNCHANGED <<now, addressOf, users, sessions, signedOut, cookies, starts, connections>>

(* GitHub answers, or throttles the first attempt: the second is made after *)
(* a pause, with the token already held.                                    *)
Throttled(r) == request[r].phase = "holds" /\ request' = [request EXCEPT ![r].phase = "again"]

GitHubAnswers(r) ==
    /\ \/ Throttled(r)
       \/ request[r].phase \in {"holds", "again"} /\ Done(r)
    /\ UNCHANGED <<now, addressOf, users, sessions, signedOut, cookies, starts,
                   connections, tokens>>

(* No request holds a token for longer than the margin.                     *)
Tick ==
    /\ now < MaxTime
    /\ \A r \in Requests : request[r].phase \in {"holds", "again"}
                               => now < request[r].since + TOKEN_RENEW_MARGIN
    /\ now' = now + 1
    /\ UNCHANGED <<addressOf, users, sessions, signedOut, cookies, starts, connections,
                   tokens, request>>

AtProviders ==
    \/ \E p \in Providers : Leave(p) \/ Forget(p)
    \/ \E t \in DOMAIN starts :
           \/ Decline(t) \/ Reject(t) \/ Exchange(t) \/ SignedIn(t) \/ Linked(t)
           \/ \E who \in People \cup Accounts : Return(t, who)
    \/ \E p \in People, a \in Addresses : ChangeAddress(p, a)

InRequest(r) ==
    \/ \E kind \in {"repositories", "disconnect", "logout"} : Ask(r, kind)
    \/ LogOut(r) \/ Identify(r) \/ Disconnect(r)
    \/ ReadConnection(r) \/ CachedToken(r) \/ Mint(r) \/ GitHubAnswers(r)

SignInNext == AtProviders \/ Tick \/ \E r \in Requests : InRequest(r)
SignInSpec == SignInInit /\ [][SignInNext]_signInVars

-----------------------------------------------------------------------------
SignInTypeOK ==
    /\ now \in 0..MaxTime
    /\ addressOf \in [People -> Addresses]
    /\ \A u \in DOMAIN users : users[u] \in [sub : People, email : Addresses]
    /\ \A s \in DOMAIN sessions :
           sessions[s] \in [user : DOMAIN users, row : BOOLEAN, expires : Nat, born : Nat,
                            person : People]
    /\ signedOut \subseteq DOMAIN sessions
    /\ cookies \in [session : {0} \cup DOMAIN sessions, google : {0} \cup DOMAIN starts,
                    github : {0} \cup DOMAIN starts]
    /\ \A t \in DOMAIN starts :
           starts[t] \in [provider : Providers, at : {"away", "back", "exchanged", "over"},
                          who : People \cup Accounts \cup {Nobody}, cookie : 0..Len(starts),
                          session : 0..Len(sessions), address : Addresses \cup {Nobody},
                          by : 0..Len(users)]
    /\ connections \in [UserIds -> [account : Accounts \cup {Nobody},
                                    installation : Installations \cup {Nobody}]]
    /\ \A i \in Installations : tokens[i].of \in Installations \cup {Nobody}
    /\ \A r \in Requests : request[r].user \in {0} \cup DOMAIN users

(* A session belongs to the row of the person who signed in, whatever       *)
(* addresses accounts had before or take from each other: keyed on the      *)
(* address, a person's projects would pass to another.                      *)
PersonKeepsTheirRow ==
    \A s \in DOMAIN sessions : users[sessions[s].user].sub = sessions[s].person

(* No request is anyone's once its session was signed out or has run out:   *)
(* a request that another tab sent before the logout may arrive after it,   *)
(* with the cookie it left with; and so may the callback of a link.         *)
Ended(s) == s \in signedOut \/ now >= sessions[s].born + SESSION_TTL
ServedWhileSignedIn ==
    [][/\ \A r \in Requests :
              request'[r].user # 0 /\ request[r].user = 0 => ~Ended(request[r].session)
       /\ \A t \in DOMAIN starts :
              starts'[t].by # 0 /\ starts[t].by = 0 => ~Ended(starts[t].session)]_signInVars

(* What a callback brings about, a session or a link, comes of the start    *)
(* the browser's cookie was then of: a start overtaken by another tab's     *)
(* cannot finish, nor one whose answer comes when the cookie has gone.      *)
FinishesTheLastStart ==
    [][\A t \in DOMAIN starts :
           starts[t].at = "back" /\ starts'[t].at = "exchanged" =>
               \A later \in DOMAIN starts :
                   later > t /\ starts[later].provider = starts[t].provider
                       => starts[t].cookie # later]_signInVars

(* What is sent to GitHub is sent with a token of the installation it is    *)
(* about, that GitHub still accepts when the throttled request is sent      *)
(* again, whoever else renewed or read the cache meanwhile.                 *)
TokensServeTheirRequest ==
    \A r \in Requests : request[r].phase \in {"holds", "again"} =>
        /\ request[r].token.of = request[r].installation
        /\ request[r].token.until > now

(* Whoever a request, a session or a link is of, it stays theirs: through    *)
(* changes of address, logouts, overtaken starts and tokens run out.         *)
IdentityHolds ==
    /\ []PersonKeepsTheirRow
    /\ []TokensServeTheirRequest
    /\ ServedWhileSignedIn
    /\ FinishesTheLastStart
=============================================================================
