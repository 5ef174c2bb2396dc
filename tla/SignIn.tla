-------------------------------- MODULE SignIn --------------------------------
(***************************************************************************)
(* Accounts, sessions and personal workspaces.  A browser signs in with an *)
(* e-mail and a password, which creates the account of an unknown e-mail,  *)
(* or with Google through Auth.js, which links the Google account to the   *)
(* user whose session the browser has; later its requests read the user    *)
(* and find or create the user's workspace.  Each statement that writes is *)
(* a step, so browsers of one user interleave between them.                *)
(***************************************************************************)
EXTENDS Naturals, Sequences, FiniteSets

CONSTANTS
    Browsers,
    Emails,         \* canonical: trimmed and in lower case
    Passwords,      \* of at least MIN_PASSWORD_LENGTH characters
    OtherEmail,     \* of somebody who came from Google, has a workspace and is suspended
    BadInput,       \* an e-mail or password the schema refuses
    NoHash,         \* users.password_hash is null
    MaxSuspensions

VARIABLES
    users,          \* the users table: [email, hash, status]; the id is the index
    accounts,       \* the accounts table: the user of the Google account of an e-mail, or 0
    workspaces,     \* the workspaces table: the owner of each
    members,        \* workspace_members: [user, workspace]
    browser,        \* browser -> [pc, email, password, token, found, how]
    access,         \* browser -> the last AuthorizedContext, [user, workspace], or none
    wasActive,      \* browser -> its account was active at some time since the request began
    asked,          \* [email, user]: brought from Google to a browser with that user's session
    suspensions

tables == <<users, accounts, workspaces, members>>
signInVars == <<tables, browser, access, wasActive, asked, suspensions>>

NoContext == [user |-> 0, workspace |-> 0]
\* Turned away: to the form with its error, to /sign-in, to /suspended or to the error page.
Idle == {"signed in", "served", "turned away"}

SignInInit ==
    /\ users = <<[email |-> OtherEmail, hash |-> NoHash, status |-> "suspended"]>>
    /\ accounts = [email \in Emails |-> IF email = OtherEmail THEN 1 ELSE 0]
    /\ workspaces = <<1>> /\ members = {[user |-> 1, workspace |-> 1]}
    /\ browser = [b \in Browsers |-> [pc |-> "turned away", email |-> BadInput, password |-> BadInput,
                                      token |-> 0, found |-> 0, how |-> "none"]]
    /\ access = [b \in Browsers |-> NoContext]
    /\ wasActive = [b \in Browsers |-> FALSE]
    /\ asked = {} /\ suspensions = 0

Go(b, pc) == browser' = [browser EXCEPT ![b].pc = pc]
\* What was typed is forgotten, the cookie is not.
TurnAway(b) ==
    browser' = [browser EXCEPT ![b] = [@ EXCEPT !.pc = "turned away", !.email = BadInput,
                                                !.password = BadInput, !.found = 0, !.how = "none"]]

\* A new request: what the last one was served is gone.
Begin(b, active) ==
    /\ access' = [access EXCEPT ![b] = NoContext]
    /\ wasActive' = [wasActive EXCEPT ![b] = active]

\* The browser's cookie now names the user; it gave an e-mail or came from Google with one.
SignedIn(b, user, email, how) ==
    browser' = [browser EXCEPT ![b] =
        [pc |-> "signed in", email |-> email, token |-> user, found |-> 0, how |-> how,
         password |-> IF how = "password" THEN browser[b].password ELSE BadInput]]

-----------------------------------------------------------------------------
(* E-mail and password *)

\* credentialsInputSchema: what it refuses is told to the form.
SubmitCredentials(b) ==
    /\ browser[b].pc \in Idle
    /\ \E email \in Emails \cup {BadInput}, password \in Passwords \cup {BadInput} :
        IF BadInput \in {email, password} THEN TurnAway(b)
        ELSE browser' = [browser EXCEPT ![b] =
                [pc |-> "lookup", email |-> email, password |-> password,
                 token |-> @.token, found |-> 0, how |-> "none"]]
    /\ Begin(b, FALSE)
    /\ UNCHANGED <<tables, asked, suspensions>>

\* getUserByEmail: the row of this e-mail, at most one, or 0.
GetUserByEmail(email) ==
    IF \E i \in DOMAIN users : users[i].email = email
    THEN CHOOSE i \in DOMAIN users : users[i].email = email
    ELSE 0

LookUp(b) ==
    /\ browser[b].pc = "lookup"
    /\ LET existing == GetUserByEmail(browser[b].email)
       IN  IF existing = 0 THEN Go(b, "create")
           ELSE IF users[existing].hash = NoHash THEN TurnAway(b)
           ELSE Go(b, "verify")
    /\ UNCHANGED <<tables, access, wasActive, asked, suspensions>>

NewUser(email, hash) ==
    users' = Append(users, [email |-> email, hash |-> hash, status |-> "active"])

\* The conflicting row is updated.
InsertCredentialsUpsert(email, password) ==
    IF GetUserByEmail(email) = 0 THEN NewUser(email, password)
    ELSE users' = [users EXCEPT ![GetUserByEmail(email)].hash = password]

\* INSERT ... ON CONFLICT DO NOTHING under users_email_unique.
InsertCredentials(email, password) ==
    IF GetUserByEmail(email) = 0 THEN NewUser(email, password) ELSE UNCHANGED users

\* createCredentialsUser, by another browser's insert undisturbed.
CreateCredentialsUser(b) ==
    /\ browser[b].pc = "create"
    /\ \/ InsertCredentials(browser[b].email, browser[b].password) /\ Go(b, "verify")
       \/ UNCHANGED users /\ TurnAway(b)
    /\ UNCHANGED <<accounts, workspaces, members, access, wasActive, asked, suspensions>>

\* verifyCredentials: the id when the password is the stored one's, otherwise 0.
VerifyCredentials(email, password) ==
    LET user == GetUserByEmail(email)
    IN  IF user = 0 THEN 0
        ELSE IF users[user].hash # NoHash /\ users[user].hash = password THEN user ELSE 0

\* signIn("credentials"): the provider reads the row again.
Authorize(b) ==
    /\ browser[b].pc = "verify"
    /\ LET user == VerifyCredentials(browser[b].email, browser[b].password)
       IN  IF user = 0 THEN TurnAway(b)
           ELSE SignedIn(b, user, browser[b].email, "password")
    /\ UNCHANGED <<tables, access, wasActive, asked, suspensions>>

-----------------------------------------------------------------------------
(* Google, through Auth.js and its adapter *)

\* Auth.js has more to do before it answers, for the user found, if one is.
GoOn(b, pc, email, found) ==
    browser' = [browser EXCEPT ![b] = [pc |-> pc, email |-> email, password |-> BadInput,
                                       token |-> @.token, found |-> found, how |-> "none"]]

\* The user comes back from Google, who answers for the e-mail.  An account that is linked
\* signs its user in, unless the browser has the session of another one
\* (OAuthAccountNotLinked); one that is not is to be linked to the session's user, and
\* without a session to a new user, unless the e-mail is taken.
GoogleReturns(b) ==
    /\ browser[b].pc \in Idle
    /\ \E email \in Emails :
        LET owner == accounts[email]
            session == browser[b].token
        IN  \/ /\ owner # 0 /\ session \in {0, owner}
               /\ SignedIn(b, owner, email, "google") /\ UNCHANGED asked
            \/ /\ \/ owner # 0 /\ session \notin {0, owner}
                  \/ owner = 0 /\ session = 0 /\ GetUserByEmail(email) # 0
               /\ TurnAway(b) /\ UNCHANGED asked
            \/ /\ owner = 0 /\ session # 0
               /\ GoOn(b, "google link", email, session)
               /\ asked' = asked \cup {[email |-> email, user |-> session]}
            \/ /\ owner = 0 /\ session = 0 /\ GetUserByEmail(email) = 0
               /\ GoOn(b, "google create", email, 0)
               /\ UNCHANGED asked
    /\ Begin(b, FALSE)
    /\ UNCHANGED <<tables, suspensions>>

\* The adapter's createUser; the unique e-mail may have been taken meanwhile.
GoogleCreateUser(b) ==
    /\ browser[b].pc = "google create"
    /\ \/ /\ GetUserByEmail(browser[b].email) = 0
          /\ NewUser(browser[b].email, NoHash)
          /\ GoOn(b, "google link", browser[b].email, Len(users) + 1)
       \/ UNCHANGED users /\ TurnAway(b)
    /\ UNCHANGED <<accounts, workspaces, members, access, wasActive, asked, suspensions>>

\* linkAccount, under the primary key of accounts; when it fails a user just created stays,
\* and no way of signing in accepts it.
GoogleLinkAccount(b) ==
    /\ browser[b].pc = "google link"
    /\ \/ /\ accounts[browser[b].email] = 0
          /\ accounts' = [accounts EXCEPT ![browser[b].email] = browser[b].found]
          /\ SignedIn(b, browser[b].found, browser[b].email, "google")
       \/ UNCHANGED accounts /\ TurnAway(b)
    /\ UNCHANGED <<users, workspaces, members, access, wasActive, asked, suspensions>>

\* Or the cookie expires.
SignOut(b) ==
    /\ browser[b].pc \in Idle /\ browser[b].token # 0
    /\ browser' = [browser EXCEPT ![b] = [pc |-> "turned away", email |-> BadInput,
            password |-> BadInput, token |-> 0, found |-> 0, how |-> "none"]]
    /\ Begin(b, FALSE)
    /\ UNCHANGED <<tables, asked, suspensions>>

-----------------------------------------------------------------------------
(* Requests of a session *)

\* proxy: without the cookie a page is never reached; with it the page decides.
Visit(b) ==
    /\ browser[b].pc \in Idle
    /\ IF browser[b].token = 0 THEN TurnAway(b) /\ Begin(b, FALSE)
       ELSE /\ browser' = [browser EXCEPT ![b] =
                    [@ EXCEPT !.pc = "account", !.email = BadInput, !.password = BadInput,
                              !.found = 0, !.how = "none"]]
            /\ Begin(b, users[browser[b].token].status = "active")
    /\ UNCHANGED <<tables, asked, suspensions>>

\* getSessionAccount reads the row; requireAuthorizedContext turns a suspended one away.
AccountDecides(b) ==
    IF users[browser[b].token].status = "suspended" THEN TurnAway(b) ELSE Go(b, "membership")

GetSessionAccount(b) ==
    /\ browser[b].pc = "account"
    /\ AccountDecides(b)
    /\ UNCHANGED <<tables, access, wasActive, asked, suspensions>>

Serve(b, workspace) ==
    /\ access' = [access EXCEPT ![b] = [user |-> browser[b].token, workspace |-> workspace]]
    /\ Go(b, "served")

\* ensurePersonalWorkspace, its first SELECT.
ReadMembership(b) ==
    /\ browser[b].pc = "membership"
    /\ \/ \E m \in members : m.user = browser[b].token /\ Serve(b, m.workspace)
       \/ /\ ~\E m \in members : m.user = browser[b].token
          /\ Go(b, "provision") /\ UNCHANGED access
    /\ UNCHANGED <<tables, wasActive, asked, suspensions>>

\* INSERT ... ON CONFLICT DO NOTHING under workspaces_owner_user_unique.
InsertWorkspace(user) ==
    IF \E w \in DOMAIN workspaces : workspaces[w] = user THEN workspaces
    ELSE Append(workspaces, user)

\* One transaction: the workspace, its SELECT by owner and the membership.
ProvisionWorkspace(b) ==
    /\ browser[b].pc = "provision"
    /\ \/ /\ workspaces' = InsertWorkspace(browser[b].token)
          /\ \E w \in DOMAIN workspaces' :
                /\ workspaces'[w] = browser[b].token
                /\ members' = members \cup {[user |-> browser[b].token, workspace |-> w]}
                /\ Serve(b, w)
       \/ UNCHANGED <<workspaces, members, access>> /\ TurnAway(b)
    /\ UNCHANGED <<users, accounts, wasActive, asked, suspensions>>

\* An administrator suspends or reactivates an account.
SetStatus(user) ==
    /\ suspensions < MaxSuspensions
    /\ suspensions' = suspensions + 1
    /\ users' = [users EXCEPT ![user].status = IF @ = "active" THEN "suspended" ELSE "active"]
    /\ wasActive' = [b \in Browsers |->
                        \/ wasActive[b]
                        \/ /\ browser[b].pc \in {"account", "membership", "provision"}
                           /\ browser[b].token = user
                           /\ users[user].status = "suspended"]
    /\ UNCHANGED <<accounts, workspaces, members, browser, access, asked>>

SignInNext ==
    \/ \E b \in Browsers :
        \/ SubmitCredentials(b) \/ LookUp(b) \/ CreateCredentialsUser(b) \/ Authorize(b)
        \/ GoogleReturns(b) \/ GoogleCreateUser(b) \/ GoogleLinkAccount(b) \/ SignOut(b)
        \/ Visit(b) \/ GetSessionAccount(b) \/ ReadMembership(b) \/ ProvisionWorkspace(b)
    \/ \E user \in DOMAIN users : SetStatus(user)

SignInSpec == SignInInit /\ [][SignInNext]_signInVars

-----------------------------------------------------------------------------
(* Properties *)

SignInTypeOK ==
    /\ \A i \in DOMAIN users :
        users[i] \in [email : Emails \cup {OtherEmail}, hash : Passwords \cup {NoHash},
                      status : {"active", "suspended"}]
    /\ accounts \in [Emails -> 0..Len(users)]
    /\ \A w \in DOMAIN workspaces : workspaces[w] \in DOMAIN users
    /\ \A b \in Browsers : browser[b].token \in 0..Len(users)
    /\ access \in [Browsers -> [user : 0..Len(users), workspace : 0..Len(workspaces)]]

\* A browser that has signed in with a password holds a token of the e-mail it gave, with
\* the password that is stored, also when two browsers create that account at once with
\* different passwords, or one of them comes from Google.  One that came from Google holds
\* a token of the user this Google account is linked to.
SignsInToOneself ==
    \A b \in Browsers : browser[b].pc = "signed in" =>
        IF browser[b].how = "password"
        THEN /\ users[browser[b].token].email = browser[b].email
             /\ users[browser[b].token].hash = browser[b].password
        ELSE accounts[browser[b].email] = browser[b].token

\* That a Google account opens this user is the user's doing.
Entitled(email, user, us, asks) ==
    \/ [email |-> email, user |-> user] \in asks
    \/ us[user].email = email /\ us[user].hash = NoHash

\* A Google account opens only the user made for its e-mail, who has no password, or one
\* from whose own session it was brought: never a user with a password because the
\* e-mails agree, and never one of another browser that was signing in meanwhile.
GoogleOpensOnesOwn ==
    \A email \in Emails :
        accounts[email] # 0 => Entitled(email, accounts[email], users, asked)

\* However many first requests of a user overlap or fail, the user ends up with one
\* workspace and one membership, and every access served is in it.
OneWorkspaceEach ==
    /\ \A v, w \in DOMAIN workspaces : workspaces[v] = workspaces[w] => v = w
    /\ \A m \in members : workspaces[m.workspace] = m.user
    /\ \A b \in Browsers : access[b] # NoContext => workspaces[access[b].workspace]
                                                       = access[b].user

\* A request is served only when its account was active at some time since the request
\* began: a token from before the suspension is worth nothing to a request after it.
SuspendedIsTurnedAway ==
    \A b \in Browsers : browser[b].pc = "served" => wasActive[b]

\* Whoever is let in is let in as oneself, if active since the request came, and into one's
\* own workspace.
AccessIsOnesOwn ==
    /\ SignInTypeOK
    /\ SignsInToOneself /\ GoogleOpensOnesOwn /\ OneWorkspaceEach /\ SuspendedIsTurnedAway

-----------------------------------------------------------------------------
(* The inductive invariant *)

BrowserRecord ==
    [pc : {"lookup", "create", "verify", "google create", "google link", "account",
           "membership", "provision"} \cup Idle,
     email : Emails \cup {BadInput}, password : Passwords \cup {BadInput},
     token : Nat, found : Nat, how : {"none", "password", "google"}]

UserRecord ==
    [email : Emails \cup {OtherEmail}, hash : Passwords \cup {NoHash},
     status : {"active", "suspended"}]

\* Every account that is linked is its user's own.
LinksOK ==
    /\ accounts \in [Emails -> Nat]
    /\ \A email \in Emails : accounts[email] # 0 =>
        accounts[email] \in DOMAIN users /\ Entitled(email, accounts[email], users, asked)

TablesOK ==
    /\ users \in Seq(UserRecord) /\ LinksOK
    /\ workspaces \in Seq(Nat)
    /\ \A w \in DOMAIN workspaces : workspaces[w] \in DOMAIN users
    /\ \A v, w \in DOMAIN workspaces : workspaces[v] = workspaces[w] => v = w
    /\ \A m \in members : m.workspace \in DOMAIN workspaces /\ workspaces[m.workspace] = m.user
    /\ browser \in [Browsers -> BrowserRecord]
    /\ access \in [Browsers -> [user : Nat, workspace : Nat]]
    /\ wasActive \in [Browsers -> BOOLEAN]

\* What a browser r is signing in with has passed the form or comes from Google, the user
\* it is about to link is its own, and so is the one it has signed in to.
Genuine(r, us, links, asks) ==
    /\ r.pc \in {"lookup", "create", "verify", "google create", "google link"} =>
        r.email \in Emails
    /\ r.pc \in {"lookup", "create", "verify"} => r.password \in Passwords
    /\ r.pc = "google link" => r.found \in DOMAIN us /\ Entitled(r.email, r.found, us, asks)
    /\ r.pc = "signed in" =>
        /\ r.token # 0
        /\ IF r.how = "password"
           THEN us[r.token].email = r.email /\ us[r.token].hash = r.password
           ELSE r.email \in Emails /\ links[r.email] = r.token

\* A request goes on with a token, and from its reading of the account as one that was
\* active meanwhile.
InSession(r, us, active) ==
    /\ r.token \in 0..Len(us)
    /\ r.pc \in {"account", "membership", "provision"} => r.token # 0
    /\ r.pc = "account" /\ us[r.token].status = "active" => active
    /\ r.pc \in {"membership", "provision", "served"} => active

OnesOwn(context, ws) ==
    context # NoContext => context.workspace \in DOMAIN ws
                           /\ ws[context.workspace] = context.user

SignInIInv ==
    /\ TablesOK
    /\ \A b \in Browsers : /\ Genuine(browser[b], users, accounts, asked)
                           /\ InSession(browser[b], users, wasActive[b])
                           /\ OnesOwn(access[b], workspaces)
=============================================================================
