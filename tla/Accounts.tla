------------------------------ MODULE Accounts ------------------------------
(***************************************************************************)
(* The accounts of the auth service: registration and the links that       *)
(* verify an address, the administrator's decisions about early access to  *)
(* the MCP server, the OAuth challenges of Hydra that connect a client,    *)
(* and the humanity challenges with the reputation that sets their price.  *)
(*                                                                         *)
(* Every await of a handler ends a step, so the queries of two requests    *)
(* interleave.  The limits on requests, the captcha and the passwords only *)
(* refuse a request; a request here is one that they have let through.     *)
(***************************************************************************)
EXTENDS Integers, FiniteSets

CONSTANTS
  Emails, Tasks, Tokens, Flows,
  Scenes,      \* who there is at first, what each caller may ask for and how often, and the
               \* bounds on the time and on the faults
  Screen,      \* CONSENT_SCREEN_ENABLED
  TokenTTL, ChallengeTTL,
  TrustedAt, RiskyAt,         \* how many more humans, or bots, make a tier
  PowDifficulty, MinPow, MaxPow,
  Null

ASSUME AccountsConstants ==
  /\ {TokenTTL, ChallengeTTL, TrustedAt, RiskyAt, PowDifficulty, MinPow, MaxPow} \subseteq Nat
  /\ MinPow <= MaxPow /\ Screen \in BOOLEAN

UserRow == [id : Nat, verified : BOOLEAN, access : BOOLEAN]
FlowState == [state : {"login", "consent", "connected", "rejected"}, subject : Emails \cup {Null},
              skip : BOOLEAN, by : Emails \cup {Null}, entitled : BOOLEAN]

\* What may be asked for; some requests name no address, some a flow of OAuth.
Nameless == {"verify", "challenge", "verifyHuman"}
Flowing == {"oauthLogin", "loginAccept", "consent", "consentAccept", "consentReject"}
Ops == Nameless \cup Flowing
         \cup {"register", "resend", "login", "waitlist", "grant", "access", "delete", "logout"}
Request == [op : Ops, email : Emails \cup {Null}, on : BOOLEAN, flow : Flows \cup {Null}]

ASSUME AccountsSets ==
  /\ IsFiniteSet(Emails)
  /\ Null \notin Emails \cup Flows \cup Request \cup UserRow \cup FlowState
ASSUME ScenesAssumption ==
  \A s \in Scenes :
    /\ s.users \in [Emails -> UserRow \cup {Null}]
    /\ s.sessions \subseteq Emails /\ s.browsers \subseteq Emails
    /\ s.asks \in [Tasks -> SUBSET Request]
    /\ \A c \in Tasks : \A r \in s.asks[c] :
         (r.email = Null => r.op \in Nameless) /\ (r.op \in Flowing => r.flow # Null)

VARIABLES
  scene,
  user,      \* the User of an address, or Null
  ids,       \* how many users there have been
  grants,    \* McpEarlyAccessGrant: addresses that are granted access when they register
  waitlist,  \* McpWaitlist: an address is not there, listed or invited
  tokens,    \* EmailToken
  inbox,     \* links that have arrived
  sessions,  \* addresses that hold a creator's token
  flow, sso, remembered,     \* Hydra: challenges, login sessions, consents
  rep,       \* the reputation of one cohort
  challenge, \* the challenge that a caller holds
  task, left,                \* requests under way, and how many a caller has left
  now, faults,
  decided, late              \* history, for the properties

mail == <<tokens, inbox>>
access == <<grants, waitlist, decided>>
hydra == <<flow, sso, remembered>>
human == <<rep, challenge>>
accountsVars == <<scene, user, ids, access, mail, sessions, hydra, human, task, left, now, faults, late>>

Fault == faults < scene.faults /\ faults' = faults + 1

Free == [pc |-> "idle", req |-> Null, uid |-> Null, token |-> Null,
         alone |-> TRUE, known |-> Null]
NewUser(id) == [id |-> id, verified |-> FALSE, access |-> FALSE]
Is(e, uid) == user[e] # Null /\ user[e].id = uid
HasAccess(e) == user[e] # Null /\ user[e].access

AccountsInit ==
  /\ scene \in Scenes
  /\ user = scene.users /\ ids = Cardinality(Emails)
  /\ grants = {} /\ waitlist = [e \in Emails |-> "no"]
  /\ tokens = {} /\ inbox = {}
  /\ sessions = scene.sessions
  /\ flow = [f \in Flows |-> Null] /\ sso = {} /\ remembered = {}
  /\ rep = [humans |-> 0, bots |-> 0, average |-> 0]
  /\ challenge = [c \in Tasks |-> Null]
  /\ task = [c \in Tasks |-> Free] /\ left = scene.left
  /\ now = 0 /\ faults = 0
  /\ decided = [e \in Emails |-> Null] /\ late = [e \in Emails |-> {}]

-----------------------------------------------------------------------------
(* Requests. *)

At(c, pc) == task[c].pc = pc
GoOn(c, pc) == task' = [task EXCEPT ![c].pc = pc]
Done(c) == task' = [task EXCEPT ![c] = Free]

\* A user asks for a link when none has arrived, and tries every one that has.
Wants(r) ==
  CASE r.op = "resend" -> user[r.email] # Null /\ ~user[r.email].verified /\ inbox = {}
    [] r.op = "verify" -> inbox # {}
    [] OTHER -> TRUE
Repeats == {"verify", "resend"}
\* Requests that come with a creator's token.
Guarded == {"loginAccept", "consentAccept", "consentReject", "logout"}
\* Requests that decide about access, or meet the account they decide about.
Deciding == {"register", "grant", "access", "delete"}
Meets(r, x) == r # Null /\ r.op \in Deciding /\ x.op \in Deciding /\ r.email = x.email

Start(c) ==
  /\ At(c, "idle")
  /\ \E r \in scene.asks[c] :
       /\ Wants(r) /\ (r.op \in Repeats \/ left[c] > 0)
       /\ r.op \in Guarded => r.email \in sessions
       /\ r.flow # Null => flow[r.flow] # Null
       /\ \E t \in IF r.op = "verify" THEN inbox ELSE {Null} :
            task' = [d \in Tasks |->
              IF d = c
              THEN [Free EXCEPT !.pc = r.op, !.req = r, !.token = t,
                                !.alone = \A x \in Tasks \ {c} : ~Meets(task[x].req, r),
                                !.known = rep]
              ELSE IF Meets(task[d].req, r) THEN [task[d] EXCEPT !.alone = FALSE] ELSE task[d]]
       /\ left' = IF r.op \in Repeats THEN left ELSE [left EXCEPT ![c] = @ - 1]
  /\ late' = [e \in Emails |-> IF HasAccess(e) THEN late[e] \ {c} ELSE late[e] \cup {c}]
  /\ UNCHANGED <<scene, user, ids, access, mail, sessions, hydra, human, now, faults>>

\* The process restarts: the rows stay, the requests are gone.
Crash ==
  /\ Fault
  /\ \E c \in Tasks : task[c].pc # "idle"
  /\ task' = [c \in Tasks |-> Free]
  /\ decided' = [e \in Emails |->
       IF \E c \in Tasks : task[c].req # Null /\ task[c].req.op \in Deciding /\ task[c].req.email = e
       THEN Null ELSE decided[e]]
  /\ UNCHANGED <<scene, user, ids, grants, waitlist, mail, sessions, hydra, human, left, now, late>>

Tick ==
  /\ now < scene.time /\ now' = now + 1
  /\ UNCHANGED <<scene, user, ids, access, mail, sessions, hydra, human, task, left, faults, late>>

-----------------------------------------------------------------------------
(* Registration, and the link that verifies an address. *)

SignUp(c) ==
  /\ At(c, "register")
  /\ LET e == task[c].req.email IN
       IF user[e] # Null THEN Done(c) /\ UNCHANGED <<user, ids>>
       ELSE /\ user' = [user EXCEPT ![e] = NewUser(ids + 1)]
            /\ ids' = ids + 1
            /\ task' = [task EXCEPT ![c].pc = "lookGrant", ![c].uid = ids + 1]
  /\ UNCHANGED <<scene, access, mail, sessions, hydra, human, left, now, faults, late>>

LookGrant(c) ==
  /\ At(c, "lookGrant")
  /\ GoOn(c, IF task[c].req.email \in grants THEN "applyGrant" ELSE "clearTokens")
  /\ UNCHANGED <<scene, user, ids, access, mail, sessions, hydra, human, left, now, faults, late>>

\* An update of a row that is gone fails, and with it the request.
SetAccess(c, e, on) ==
  /\ user' = [user EXCEPT ![e].access = on]
  /\ late' = IF on THEN [late EXCEPT ![e] = {}] ELSE late

ApplyGrant(c) ==
  /\ At(c, "applyGrant")
  /\ LET e == task[c].req.email IN
       IF Is(e, task[c].uid) THEN SetAccess(c, e, TRUE) /\ GoOn(c, "clearTokens")
       ELSE Done(c) /\ UNCHANGED <<user, late>>
  /\ UNCHANGED <<scene, ids, access, mail, sessions, hydra, human, left, now, faults>>

ResendVerification(c) ==
  /\ At(c, "resend")
  /\ LET e == task[c].req.email IN
       IF user[e] # Null /\ ~user[e].verified
       THEN task' = [task EXCEPT ![c].pc = "clearTokens", ![c].uid = user[e].id]
       ELSE Done(c)
  /\ UNCHANGED <<scene, user, ids, access, mail, sessions, hydra, human, left, now, faults, late>>

OwnedBy(uid) == {t \in tokens : t.uid = uid}

ClearTokens(c) ==
  /\ At(c, "clearTokens")
  /\ tokens' = tokens \ OwnedBy(task[c].uid)
  /\ GoOn(c, "createToken")
  /\ UNCHANGED <<scene, user, ids, access, inbox, sessions, hydra, human, left, now, faults, late>>

\* A plausible mistake: the old tokens are cleared after the new one was made.
CreateThenClear(c) ==
  /\ At(c, "createToken")
  /\ \E t \in Tokens : task' = [task EXCEPT ![c].pc = "sendMail", ![c].token = t]
  /\ tokens' = tokens \ OwnedBy(task[c].uid)
  /\ UNCHANGED <<scene, user, ids, access, inbox, sessions, hydra, human, left, now, faults, late>>

\* Every token is new; one that is nowhere any more is named again.
Unused ==
  CHOOSE t \in Tokens \ (inbox \cup {x.token : x \in tokens} \cup {task[d].token : d \in Tasks}) : TRUE
CreateVerificationToken(c) ==
  /\ At(c, "createToken")
  /\ LET e == task[c].req.email IN
       IF ~Is(e, task[c].uid) THEN Done(c) /\ UNCHANGED tokens
       ELSE \E t \in Tokens :
              /\ t = Unused
              /\ tokens' = tokens \cup {[token |-> t, email |-> e, uid |-> task[c].uid,
                                         expiresAt |-> now + TokenTTL]}
              /\ task' = [task EXCEPT ![c].pc = "sendMail", ![c].token = t]
  /\ UNCHANGED <<scene, user, ids, access, inbox, sessions, hydra, human, left, now, faults, late>>

\* A mail that cannot be sent is the user's to ask for again.
SendVerificationEmail(c) ==
  /\ At(c, "sendMail")
  /\ \/ inbox' = inbox \cup {task[c].token} /\ UNCHANGED faults
     \/ Fault /\ UNCHANGED inbox
  /\ Done(c)
  /\ UNCHANGED <<scene, user, ids, access, tokens, sessions, hydra, human, left, now, late>>

Good(t) == {x \in tokens : x.token = t /\ x.expiresAt >= now}
VerifyEmail(c) ==
  /\ At(c, "verify")
  /\ IF Good(task[c].token) = {} THEN Done(c) /\ inbox' = inbox \ {task[c].token}
     ELSE /\ \E x \in Good(task[c].token) :
               task' = [task EXCEPT ![c].pc = "markVerified", ![c].uid = x.uid, ![c].req.email = x.email]
          /\ UNCHANGED inbox
  /\ UNCHANGED <<scene, user, ids, access, tokens, sessions, hydra, human, left, now, faults, late>>

MarkVerified(c) ==
  /\ At(c, "markVerified")
  /\ LET e == task[c].req.email IN
       IF Is(e, task[c].uid) THEN user' = [user EXCEPT ![e].verified = TRUE] /\ GoOn(c, "dropTokens")
       ELSE Done(c) /\ UNCHANGED user
  /\ UNCHANGED <<scene, ids, access, mail, sessions, hydra, human, left, now, faults, late>>

\* The tokens are gone before the request is answered with a session.
DropTokens(c) ==
  /\ At(c, "dropTokens")
  /\ tokens' = tokens \ OwnedBy(task[c].uid)
  /\ sessions' = sessions \cup {task[c].req.email}
  /\ Done(c)
  /\ UNCHANGED <<scene, user, ids, access, inbox, hydra, human, left, now, faults, late>>

Login(c) ==
  /\ At(c, "login")
  /\ LET e == task[c].req.email IN
       sessions' = IF user[e] # Null /\ user[e].verified THEN sessions \cup {e} ELSE sessions
  /\ Done(c)
  /\ UNCHANGED <<scene, user, ids, access, mail, hydra, human, left, now, faults, late>>

-----------------------------------------------------------------------------
(* The waiting list, and the administrator. *)

\* The list and the mails to its two readers.
McpWaitlist(c) ==
  /\ At(c, "waitlist")
  /\ IF waitlist[task[c].req.email] = "no" THEN GoOn(c, "list") ELSE Done(c)
  /\ UNCHANGED <<scene, user, ids, access, mail, sessions, hydra, human, left, now, faults, late>>

CreateListed(c) ==
  /\ At(c, "list")
  /\ waitlist' = [waitlist EXCEPT ![task[c].req.email] = IF @ = "no" THEN "listed" ELSE @]
  /\ Done(c)
  /\ UNCHANGED <<scene, user, ids, grants, decided, mail, sessions, hydra, human, left, now, faults, late>>

\* Both decisions look for the user first; only the one by address may find none.
FindUser(c) ==
  /\ At(c, "grant") \/ At(c, "access")
  /\ LET e == task[c].req.email IN
       IF user[e] # Null THEN task' = [task EXCEPT ![c].pc = "setAccess", ![c].uid = user[e].id]
       ELSE IF At(c, "grant") THEN GoOn(c, "recordGrant")
       ELSE Done(c)
  /\ UNCHANGED <<scene, user, ids, access, mail, sessions, hydra, human, left, now, faults, late>>

SetEarlyAccess(c) ==
  /\ At(c, "setAccess")
  /\ LET e == task[c].req.email IN
       IF Is(e, task[c].uid)
       THEN /\ SetAccess(c, e, task[c].req.on)
            /\ GoOn(c, IF task[c].req.op = "grant" THEN "recordGrant" ELSE "markInvited")
       ELSE Done(c) /\ UNCHANGED <<user, late>>
  /\ UNCHANGED <<scene, ids, access, mail, sessions, hydra, human, left, now, faults>>

\* A plausible mistake: the row of a user who is registered is let be.
RecordUnregistered(c) ==
  /\ At(c, "recordGrant")
  /\ grants' = IF task[c].req.on THEN grants \cup {task[c].req.email}
               ELSE IF task[c].uid = Null THEN grants \ {task[c].req.email} ELSE grants
  /\ GoOn(c, "markInvited")
  /\ UNCHANGED <<scene, user, ids, waitlist, decided, mail, sessions, hydra, human, left, now, faults, late>>

RecordGrant(c) ==
  /\ At(c, "recordGrant")
  /\ grants' = IF task[c].req.on THEN grants \cup {task[c].req.email} ELSE grants \ {task[c].req.email}
  /\ GoOn(c, "markInvited")
  /\ UNCHANGED <<scene, user, ids, waitlist, decided, mail, sessions, hydra, human, left, now, faults, late>>

MarkInvited(c) ==
  /\ At(c, "markInvited")
  /\ LET r == task[c].req IN
       /\ waitlist' = [waitlist EXCEPT ![r.email] = IF @ = "no" THEN @ ELSE IF r.on THEN "invited" ELSE "listed"]
       /\ decided' = [decided EXCEPT ![r.email] =
            IF task[c].alone THEN [on |-> r.on, about |-> r.op] ELSE Null]
  /\ Done(c)
  /\ UNCHANGED <<scene, user, ids, grants, mail, sessions, hydra, human, left, now, faults, late>>

\* An account goes with its tokens; what was decided about its address stays.
DeleteCreator(c) ==
  /\ At(c, "delete")
  /\ LET e == task[c].req.email IN
       /\ user' = [user EXCEPT ![e] = Null]
       /\ tokens' = {t \in tokens : t.email # e}
       /\ decided' = [decided EXCEPT ![e] = IF @ # Null /\ @.about = "access" THEN Null ELSE @]
  /\ Done(c)
  /\ UNCHANGED <<scene, ids, grants, waitlist, inbox, sessions, hydra, human, left, now, faults, late>>

-----------------------------------------------------------------------------
(* OAuth: a client sends the browser of a user to Hydra, Hydra to the login  *)
(* and to the consent; what is accepted is connected.                        *)

StartFlow(f, e) ==
  /\ flow[f] = Null
  /\ flow' = [flow EXCEPT ![f] = [state |-> "login", subject |-> IF e \in sso THEN e ELSE Null,
                                  skip |-> FALSE, by |-> Null, entitled |-> FALSE]]
  /\ UNCHANGED <<scene, user, ids, access, mail, sessions, sso, remembered, human, task, left, now, faults, late>>

\* A challenge can be answered once; Hydra refuses what comes later.
LoggedIn(f, e) ==
  /\ flow' = [flow EXCEPT ![f].state = "consent", ![f].subject = e, ![f].skip = e \in remembered]
  /\ sso' = IF flow[f].subject = Null THEN sso \cup {e} ELSE sso

\* The browser comes with a login that Hydra remembers, or is sent to log in.
OauthLogin(c) ==
  /\ At(c, "oauthLogin")
  /\ LET f == flow[task[c].req.flow] IN
       IF f.state = "login" /\ f.subject # Null THEN GoOn(c, "acceptLogin") ELSE Done(c)
  /\ UNCHANGED <<scene, user, ids, access, mail, sessions, hydra, human, left, now, faults, late>>

AcceptLogin(c) ==
  /\ At(c, "acceptLogin") \/ At(c, "loginAccept")
  /\ LET f == task[c].req.flow
         e == IF At(c, "acceptLogin") THEN flow[f].subject ELSE task[c].req.email
     IN  IF flow[f].state = "login" THEN LoggedIn(f, e) ELSE UNCHANGED <<flow, sso>>
  /\ Done(c)
  /\ UNCHANGED <<scene, user, ids, access, mail, sessions, remembered, human, left, now, faults, late>>

\* The consent of a flow, asked for by the browser or approved by a user.
Consent(c) ==
  /\ At(c, "consent") \/ At(c, "consentAccept")
  /\ LET f == flow[task[c].req.flow] IN
       IF f.state # "consent" \/ (At(c, "consentAccept") /\ f.subject # task[c].req.email)
       THEN Done(c)
       ELSE GoOn(c, "gate")
  /\ UNCHANGED <<scene, user, ids, access, mail, sessions, hydra, human, left, now, faults, late>>

\* A plausible mistake: access is checked before the screen, and not after it.
GateBeforeScreen(c) ==
  /\ At(c, "gate")
  /\ LET f == flow[task[c].req.flow]  asks == task[c].req.op = "consent" IN
       IF asks /\ ~HasAccess(f.subject) THEN GoOn(c, "reject")
       ELSE IF asks /\ Screen /\ ~f.skip THEN Done(c)
       ELSE GoOn(c, "acceptConsent")
  /\ UNCHANGED <<scene, user, ids, access, mail, sessions, hydra, human, left, now, faults, late>>

SubjectHasMcpAccess(c) ==
  /\ At(c, "gate")
  /\ LET f == flow[task[c].req.flow]  asks == task[c].req.op = "consent" IN
       IF ~HasAccess(f.subject) THEN (IF asks THEN GoOn(c, "reject") ELSE Done(c))
       ELSE IF asks /\ Screen /\ ~f.skip THEN Done(c)
       ELSE GoOn(c, "acceptConsent")
  /\ UNCHANGED <<scene, user, ids, access, mail, sessions, hydra, human, left, now, faults, late>>

\* Hydra issues a code, and remembers the consent of its subject.
AcceptConsent(f, by, entitled) ==
  /\ flow' = [flow EXCEPT ![f].state = "connected", ![f].by = by, ![f].entitled = entitled]
  /\ remembered' = remembered \cup {flow[f].subject}

GrantConsent(c) ==
  /\ At(c, "acceptConsent")
  /\ LET f == task[c].req.flow IN
       IF flow[f].state = "consent"
       THEN AcceptConsent(f, task[c].req.email, c \notin late[flow[f].subject])
       ELSE UNCHANGED <<flow, remembered>>
  /\ Done(c)
  /\ UNCHANGED <<scene, user, ids, access, mail, sessions, sso, human, left, now, faults, late>>

RejectConsent(c) ==
  /\ \/ At(c, "reject")
     \/ At(c, "consentReject")
  /\ LET f == task[c].req.flow IN
       IF flow[f].state = "consent" /\ (At(c, "consentReject") => flow[f].subject = task[c].req.email)
       THEN flow' = [flow EXCEPT ![f].state = "rejected"]
       ELSE UNCHANGED flow
  /\ Done(c)
  /\ UNCHANGED <<scene, user, ids, access, mail, sessions, sso, remembered, human, left, now, faults, late>>

\* A failure of Hydra is swallowed; tokens that were issued go on.
Logout(c) ==
  /\ At(c, "logout")
  /\ \/ sso' = sso \ {task[c].req.email} /\ UNCHANGED faults
     \/ Fault /\ UNCHANGED sso
  /\ GoOn(c, "forget")
  /\ UNCHANGED <<scene, user, ids, access, mail, sessions, flow, remembered, human, left, now, late>>

Forget(c) ==
  /\ At(c, "forget")
  /\ \/ remembered' = remembered \ {task[c].req.email} /\ UNCHANGED faults
     \/ Fault /\ UNCHANGED remembered
  /\ Done(c)
  /\ UNCHANGED <<scene, user, ids, access, mail, sessions, flow, sso, human, left, now, late>>

\* Hydra does not answer: 502.
HydraFails(c) ==
  /\ task[c].pc \in {"oauthLogin", "acceptLogin", "loginAccept", "consent", "consentAccept",
                     "acceptConsent", "reject", "consentReject"}
  /\ Fault /\ Done(c)
  /\ UNCHANGED <<scene, user, ids, access, mail, sessions, hydra, human, left, now, late>>

-----------------------------------------------------------------------------
(* Humanity. *)

Clamp(n, lo, hi) == IF n < lo THEN lo ELSE IF n > hi THEN hi ELSE n
Tier(r) ==
  IF r.humans - r.bots >= TrustedAt THEN "trusted"
  ELSE IF r.bots - r.humans > RiskyAt THEN "risky" ELSE "standard"
Delta == [trusted |-> -2, standard |-> 0, risky |-> 4]
AdaptDifficulty(tier) == Clamp(PowDifficulty + Delta[tier], MinPow, MaxPow)

\* Without Redis everyone is of the standard tier.
Challenge(c) ==
  /\ At(c, "challenge")
  /\ \E r \in {rep, Null} :
       /\ IF r = Null THEN Fault ELSE UNCHANGED faults
       /\ challenge' = [challenge EXCEPT ![c] =
            [difficulty |-> AdaptDifficulty(IF r = Null THEN "standard" ELSE Tier(r)),
             expiresAt |-> now + ChallengeTTL, read |-> r, known |-> task[c].known]]
  /\ Done(c)
  /\ UNCHANGED <<scene, user, ids, access, mail, sessions, hydra, rep, left, now, late>>

\* Solved too fast or by a browser that looks like a bot; solved; or not at all.
VerifyHuman(c) ==
  /\ At(c, "verifyHuman")
  /\ IF challenge[c] = Null \/ challenge[c].expiresAt < now THEN Done(c)
     ELSE \/ Done(c)
          \/ \E o \in {"humans", "bots"} : task' = [task EXCEPT ![c].pc = "average", ![c].token = o]
  /\ UNCHANGED <<scene, user, ids, access, mail, sessions, hydra, human, left, now, faults, late>>

\* The average is read before the transaction that writes it.
ReadAverage(c) ==
  /\ At(c, "average")
  /\ task' = [task EXCEPT ![c].pc = "update", ![c].known = rep]
  /\ UNCHANGED <<scene, user, ids, access, mail, sessions, hydra, human, left, now, faults, late>>

Counted(r, c) == [r EXCEPT ![task[c].token] = @ + 1, !.average = task[c].known.average + 1]

\* A plausible mistake: the counters are written as they were read.
UpdateAsRead(c) ==
  /\ At(c, "update")
  /\ \/ rep' = Counted(task[c].known, c) /\ UNCHANGED faults
     \/ Fault /\ UNCHANGED rep
  /\ Done(c)
  /\ UNCHANGED <<scene, user, ids, access, mail, sessions, hydra, challenge, left, now, late>>

UpdateReputation(c) ==
  /\ At(c, "update")
  /\ \/ rep' = Counted(rep, c) /\ UNCHANGED faults
     \/ Fault /\ UNCHANGED rep
  /\ Done(c)
  /\ UNCHANGED <<scene, user, ids, access, mail, sessions, hydra, challenge, left, now, late>>

-----------------------------------------------------------------------------
Mailing(c) ==
  \/ SignUp(c) \/ LookGrant(c) \/ ApplyGrant(c) \/ ResendVerification(c) \/ ClearTokens(c)
  \/ CreateVerificationToken(c) \/ SendVerificationEmail(c) \/ VerifyEmail(c) \/ MarkVerified(c)
  \/ DropTokens(c)
Administering(c) ==
  \/ McpWaitlist(c) \/ CreateListed(c) \/ FindUser(c) \/ SetEarlyAccess(c) \/ RecordGrant(c)
  \/ MarkInvited(c) \/ DeleteCreator(c)
Connecting(c) ==
  \/ Login(c) \/ OauthLogin(c) \/ AcceptLogin(c) \/ Consent(c) \/ SubjectHasMcpAccess(c)
  \/ GrantConsent(c) \/ RejectConsent(c) \/ Logout(c) \/ Forget(c) \/ HydraFails(c)
Proving(c) ==
  \/ Challenge(c) \/ VerifyHuman(c) \/ ReadAverage(c) \/ UpdateReputation(c)
Handle(c) == Mailing(c) \/ Administering(c) \/ Connecting(c) \/ Proving(c)

AccountsNext ==
  \/ Crash \/ Tick
  \/ \E f \in Flows : \E e \in scene.browsers : StartFlow(f, e)
  \/ \E c \in Tasks : Start(c) \/ Handle(c)

\* A request goes on, and a user asks for a link and tries those that arrive.
Fairness == \A c \in Tasks : WF_accountsVars(Handle(c)) /\ WF_accountsVars(Start(c))

AccountsSpec == AccountsInit /\ [][AccountsNext]_accountsVars /\ Fairness

-----------------------------------------------------------------------------
(* Properties. *)

\* Whoever registers and asks for links can verify the address in the end: mails are lost, links lapse,
\* the process restarts, requests clear one another's tokens (index.ts:464-465).
Asks(op, e) == \E c \in Tasks : \E r \in scene.asks[c] : r.op = op /\ r.email = e
CanVerify ==
  \A e \in Emails : (user[e] # Null /\ Asks("resend", e)) ~> (user[e] = Null \/ user[e].verified)

\* What an administrator decided while nobody else did holds: for the account, and
\* for the address through deletion and registration (index.ts:1842-1848).
Undisputed(e) == \A c \in Tasks : task[c].req = Null \/ task[c].req.op \notin Deciding \/ task[c].req.email # e
AccessIsDecided ==
  \A e \in Emails : decided[e] # Null /\ user[e] # Null /\ Undisputed(e) => user[e].access = decided[e].on

\* A client is connected for a user who has had access since the request that
\* connected it arrived, and who approved it where approval is asked for
\* (index.ts:681, "Only users granted MCP early-access may connect").
ConnectedIsEntitled ==
  \A f \in Flows : flow[f] # Null /\ flow[f].state = "connected" =>
    flow[f].entitled /\ (Screen => flow[f].skip \/ flow[f].by = flow[f].subject)

\* The price of a challenge knows of every outcome that was counted before it was
\* asked for, however the counts overlap.
TierIsInformed ==
  \A c \in Tasks : challenge[c] # Null /\ challenge[c].read # Null =>
    /\ challenge[c].read.humans >= challenge[c].known.humans
    /\ challenge[c].read.bots >= challenge[c].known.bots
=============================================================================
