------------------------------ MODULE Tenants ------------------------------
(***************************************************************************)
(* auth-service: the rows of the creators, the three ways a row comes to   *)
(* name a domain (settings, the connect handshake, the DNS provisioning),  *)
(* and the mirror of price and payout onto the contract.  One action per   *)
(* await of a handler.                                                     *)
(*                                                                         *)
(* A creator stands for its siteId.  Nonces and codes are taken to be      *)
(* unguessable: a call carries the right one or ends without effect.       *)
(***************************************************************************)
EXTENDS Naturals, FiniteSets

CONSTANTS
  Users, Domains, Wallets,
  Handshakes,   \* connect_ids
  Nonces,       \* nonces of the DNS provisioning
  Calls,        \* handlers that may run at the same time
  Changes,      \* what a settings request may ask: domain, wallet, price, or None
  Fees,         \* platform fees that an admin may set
  Offers,       \* records that wallets may register by themselves
  DefaultPrice, DefaultFee,
  None,
  MaxCalls      \* bound on the handlers that ever start

ASSUME ChangesAssumption ==
  Changes \subseteq [domain : Domains \cup {None}, wallet : Wallets \cup {None}, price : Nat \cup {None}]
ASSUME NoneAssumption == None \notin Users \cup Domains \cup Wallets \cup Handshakes \cup Changes \cup Nat
ASSUME KeysAssumption == Users \cap Domains = {}
ASSUME BoundAssumption == MaxCalls \in Nat
ASSUME OffersAssumption ==
  Offers \subseteq [key : Domains \cup Users, wallet : Wallets, price : Nat, fee : Nat]
ASSUME FeesAssumption == Fees \subseteq Nat /\ DefaultPrice \in Nat /\ DefaultFee \in Nat

VARIABLES
  users,    \* creators that have a row
  row,      \* row[u]: the columns of u's row
  pending,  \* pending[h]: the ConnectPending row of handshake h
  nonces,   \* nonces[n]: state of n in the memory of the service
  begun,    \* number of handlers that have started
  call,     \* call[c]: where handler c is, and what it has read
  syncs,    \* mirrors on their way to the relayer
  chain,    \* creator records of the contract
  own,      \* records that their wallets registered by themselves
  proved,   \* proved[u]: domains whose control u has proved
  typed,    \* creators that entered a domain in their settings
  held      \* every verified row there ever was, as the chain would name it

vars == <<users, row, pending, nonces, begun, call, syncs, chain, own, proved, typed, held>>
mirrorVars == <<syncs, chain, own>>

Keys == Domains \cup Users
Rows == [domain : Domains \cup {None}, verified : BOOLEAN, token : BOOLEAN,
         wallet : Wallets \cup {None}, price : Nat, fee : Nat]
Pending == [state : {"new", "open", "coded", "gone"}, site : Domains \cup {None},
            user : Users \cup {None}, fresh : BOOLEAN]
Steps == {"idle", "settings", "confirm", "claim", "code", "exchange", "discard", "dns", "provision"}
CallRecords == [at : Steps, user : Users \cup {None}, hs : Handshakes \cup {None},
                site : Domains \cup {None}, nonce : Nonces \cup {None},
                ask : Changes \cup {None}, reset : BOOLEAN]
Records == [key : Keys, wallet : Wallets, price : Nat, fee : Nat]

Idle == [at |-> "idle", user |-> None, hs |-> None, site |-> None, nonce |-> None,
         ask |-> None, reset |-> FALSE]
NewRow == [domain |-> None, verified |-> FALSE, token |-> TRUE, wallet |-> None,
           price |-> DefaultPrice, fee |-> DefaultFee]

TypeOK == /\ users \subseteq Users
          /\ row \in [Users -> Rows]
          /\ pending \in [Handshakes -> Pending]
          /\ nonces \in [Nonces -> {"new", "open", "gone"}]
          /\ begun \in 0..MaxCalls
          /\ call \in [Calls -> CallRecords]
          /\ syncs \subseteq Records
          /\ chain \subseteq Records
          /\ own \subseteq Records
          /\ proved \in [Users -> SUBSET Domains]
          /\ typed \subseteq Users
          /\ held \subseteq Records

Init == /\ users = {}
        /\ row = [u \in Users |-> NewRow]
        /\ pending = [h \in Handshakes |->
                        [state |-> "new", site |-> None, user |-> None, fresh |-> TRUE]]
        /\ nonces = [n \in Nonces |-> "new"]
        /\ begun = 0
        /\ call = [c \in Calls |-> Idle]
        /\ syncs = {}
        /\ chain = {}
        /\ own = {}
        /\ proved = [u \in Users |-> {}]
        /\ typed = {}
        /\ held = {}

-----------------------------------------------------------------------------
(* Helpers *)

\* onchainKey: the domain, else the siteId.
OnchainKey(u, r) == IF r.domain # None THEN r.domain ELSE u

\* What a row would be on the chain.
RecordOf(u, r) == [key |-> OnchainKey(u, r), wallet |-> r.wallet, price |-> r.price, fee |-> r.fee]

\* A plausible mistake: the mirror does not ask whether the domain is verified.
MirrorUnverified(u, r) ==
  IF r.domain # None /\ r.wallet # None /\ r.price > 0 THEN {RecordOf(u, r)} ELSE {}

\* syncCreatorOnChain: what it sends for a row, if anything.
Mirror(u, r) ==
  IF r.domain # None /\ r.verified /\ r.wallet # None /\ r.price > 0
    THEN {RecordOf(u, r)} ELSE {}

\* prisma.user.update of u's row to r: the row must exist and the domain be free.
UpdateRow(u, r) ==
  /\ u \in users
  /\ \A v \in users \ {u} : r.domain # None => row[v].domain # r.domain
  /\ row' = [row EXCEPT ![u] = r]
  /\ held' = held \cup IF r.verified /\ r.domain # None /\ r.wallet # None
                         THEN {RecordOf(u, r)} ELSE {}

Begin(c, rec) ==
  /\ call[c].at = "idle"
  /\ begun < MaxCalls
  /\ begun' = begun + 1
  /\ call' = [call EXCEPT ![c] = rec]

Goto(c, from, to) ==
  /\ call[c].at = from
  /\ call' = [call EXCEPT ![c].at = to]

End(c, from) ==
  /\ call[c].at = from
  /\ call' = [call EXCEPT ![c] = Idle]

-----------------------------------------------------------------------------
(* Accounts *)

\* POST /register: the row is created with its siteId and a site token.
Register(u) ==
  /\ u \notin users
  /\ row[u] = NewRow
  /\ users' = users \cup {u}
  /\ UNCHANGED <<row, pending, nonces, begun, call, mirrorVars, proved, typed, held>>

\* DELETE /admin/creators/:id.  An id is not given again.
AdminDelete(u) ==
  /\ u \in users
  /\ users' = users \ {u}
  /\ row' = [row EXCEPT ![u] = [NewRow EXCEPT !.token = FALSE]]
  /\ UNCHANGED <<pending, nonces, begun, call, mirrorVars, proved, typed, held>>

\* PATCH /admin/creators/:id: the fee is not compared with the price, and nothing is mirrored.
AdminFee(u) ==
  /\ \E fee \in Fees : UpdateRow(u, [row[u] EXCEPT !.fee = fee])
  /\ UNCHANGED <<users, pending, nonces, begun, call, mirrorVars, proved, typed>>

-----------------------------------------------------------------------------
(* PATCH /settings *)

\* A price must exceed the fee; a domain other than the row's resets the verification.
SettingsRead(c, u) ==
  /\ u \in users
  /\ \E ch \in Changes :
       /\ ch.price # None => ch.price > row[u].fee
       /\ Begin(c, [Idle EXCEPT !.at = "settings", !.user = u, !.ask = ch,
                      !.reset = ch.domain # None /\ ch.domain # row[u].domain])
  /\ UNCHANGED <<users, row, pending, nonces, mirrorVars, proved, typed, held>>

Asked(value, old) == IF value = None THEN old ELSE value

\* The row after the update.
Settled(r, ch, reset) ==
  [r EXCEPT !.domain = Asked(ch.domain, r.domain),
            !.wallet = Asked(ch.wallet, r.wallet),
            !.price = Asked(ch.price, r.price),
            !.verified = r.verified /\ ~reset,
            !.token = r.token /\ ~reset]

SettingsWrite(c) ==
  LET u == call[c].user
      ch == call[c].ask
      r == Settled(row[u], ch, call[c].reset)
  IN /\ End(c, "settings")
     /\ UpdateRow(u, r)
     /\ syncs' = syncs \cup Mirror(u, r)
     /\ typed' = IF ch.domain # None THEN typed \cup {u} ELSE typed
     /\ UNCHANGED <<users, pending, nonces, begun, chain, own, proved>>

-----------------------------------------------------------------------------
(* The connect handshake *)

ConnectInit(h) ==
  /\ pending[h].state = "new"
  /\ \E d \in Domains :
       pending' = [pending EXCEPT ![h].state = "open", ![h].site = d]
  /\ UNCHANGED <<users, row, nonces, begun, call, mirrorVars, proved, typed, held>>

\* PENDING_TTL_MS is over.
ConnectExpire(h) ==
  /\ pending[h].state \in {"open", "coded"}
  /\ pending' = [pending EXCEPT ![h].fresh = FALSE]
  /\ UNCHANGED <<users, row, nonces, begun, call, mirrorVars, proved, typed, held>>

\* POST /connect/authorize, up to the callback; an expired handshake is deleted.
AuthorizeRead(c, u, h) ==
  /\ u \in users
  /\ pending[h].state \in {"open", "coded"}
  /\ \/ /\ pending[h].fresh
        /\ Begin(c, [Idle EXCEPT !.at = "confirm", !.user = u, !.hs = h, !.site = pending[h].site])
        /\ UNCHANGED pending
     \/ /\ ~pending[h].fresh
        /\ pending' = [pending EXCEPT ![h].state = "gone"]
        /\ UNCHANGED <<begun, call>>
  /\ UNCHANGED <<users, row, nonces, mirrorVars, proved, typed, held>>

\* A plausible mistake: the nonce that the site reports is not compared.
ConfirmAnyNonce(c) ==
  /\ Goto(c, "confirm", "claim")
  /\ UNCHANGED <<users, row, pending, nonces, begun, mirrorVars, proved, typed, held>>

\* confirmOwnership: the site reports the nonce of the handshake.
Confirm(c) ==
  /\ Goto(c, "confirm", "claim")
  /\ proved' = [proved EXCEPT ![call[c].user] = @ \cup {call[c].site}]
  /\ UNCHANGED <<users, row, pending, nonces, begun, mirrorVars, typed, held>>

\* The row takes the domain.  (A conflict found by the query before it ends the
\* call as the unique index does.)
Claim(c) ==
  LET u == call[c].user IN
  /\ Goto(c, "claim", "code")
  /\ UpdateRow(u, [row[u] EXCEPT !.domain = call[c].site])
  /\ UNCHANGED <<users, pending, nonces, begun, mirrorVars, proved, typed>>

\* The handshake gets its one-time code.
IssueCode(c) ==
  LET h == call[c].hs IN
  /\ End(c, "code")
  /\ pending[h].state \in {"open", "coded"}
  /\ pending' = [pending EXCEPT ![h].state = "coded", ![h].user = call[c].user]
  /\ UNCHANGED <<users, row, nonces, begun, mirrorVars, proved, typed, held>>

\* POST /connect/token with the code.
ExchangeRead(c, h) ==
  /\ pending[h].state = "coded"
  /\ pending[h].fresh
  /\ Begin(c, [Idle EXCEPT !.at = "exchange", !.user = pending[h].user, !.hs = h])
  /\ UNCHANGED <<users, row, pending, nonces, mirrorVars, proved, typed, held>>

\* The row gets a token and counts as verified, whatever domain it names by now.
Exchange(c) ==
  LET u == call[c].user IN
  /\ Goto(c, "exchange", "discard")
  /\ UpdateRow(u, [row[u] EXCEPT !.token = TRUE, !.verified = TRUE])
  /\ UNCHANGED <<users, pending, nonces, begun, mirrorVars, proved, typed>>

Discard(c) ==
  /\ End(c, "discard")
  /\ pending' = [pending EXCEPT ![call[c].hs].state = "gone"]
  /\ UNCHANGED <<users, row, nonces, begun, mirrorVars, proved, typed, held>>

-----------------------------------------------------------------------------
(* DNS provisioning *)

ProvisionInit(n) ==
  /\ nonces[n] = "new"
  /\ nonces' = [nonces EXCEPT ![n] = "open"]
  /\ UNCHANGED <<users, row, pending, begun, call, mirrorVars, proved, typed, held>>

\* A nonce is not bound to a creator or a site until its record is looked up.
ProvisionRead(c, u, n) ==
  /\ u \in users
  /\ nonces[n] = "open"
  /\ \E d \in Domains :
       Begin(c, [Idle EXCEPT !.at = "dns", !.user = u, !.site = d, !.nonce = n])
  /\ UNCHANGED <<users, row, pending, nonces, mirrorVars, proved, typed, held>>

\* verifyDomainTxt finds the record; the nonce is spent.
ResolveTxt(c) ==
  /\ Goto(c, "dns", "provision")
  /\ proved' = [proved EXCEPT ![call[c].user] = @ \cup {call[c].site}]
  /\ nonces' = [nonces EXCEPT ![call[c].nonce] = "gone"]
  /\ UNCHANGED <<users, row, pending, begun, mirrorVars, typed, held>>

ProvisionWrite(c) ==
  LET u == call[c].user
      r == [row[u] EXCEPT !.domain = call[c].site, !.token = TRUE, !.verified = TRUE]
  IN /\ End(c, "provision")
     /\ UpdateRow(u, r)
     /\ syncs' = syncs \cup Mirror(u, r)
     /\ UNCHANGED <<users, pending, nonces, begun, chain, own, proved, typed>>

\* PROVISION_TTL_MS is over, and the nonce is pruned.
ProvisionExpire(n) ==
  /\ nonces[n] = "open"
  /\ nonces' = [nonces EXCEPT ![n] = "gone"]
  /\ UNCHANGED <<users, row, pending, begun, call, mirrorVars, proved, typed, held>>

-----------------------------------------------------------------------------
(* The mirror, and what may fail *)

\* /register-creator and register_by_keeper: the price must exceed the fee, and
\* a key that is registered keeps its creator.
SyncLands(s) ==
  /\ s \in syncs
  /\ syncs' = syncs \ {s}
  /\ s.price > s.fee
  /\ \A o \in chain : o.key = s.key => o.wallet = s.wallet
  /\ chain' = {o \in chain : o.key # s.key} \cup {s}
  /\ UNCHANGED <<users, row, pending, nonces, begun, call, own, proved, typed, held>>

\* register of the contract: a wallet writes a record of its own under any key, over
\* whatever is there.
RegisterByWallet(o) ==
  /\ o.price > o.fee
  /\ chain' = {x \in chain : x.key # o.key} \cup {o}
  /\ own' = own \cup {o}
  /\ UNCHANGED <<users, row, pending, nonces, begun, call, syncs, proved, typed, held>>

\* It is refused, or lost with an error that is only logged.
SyncFails(s) ==
  /\ s \in syncs
  /\ syncs' = syncs \ {s}
  /\ UNCHANGED <<users, row, pending, nonces, begun, call, chain, own, proved, typed, held>>

\* A call ends early: a conflict, a row that is gone, a site that does not
\* confirm, an error of the database.
Abort(c) ==
  /\ call[c].at # "idle"
  /\ call' = [call EXCEPT ![c] = Idle]
  /\ UNCHANGED <<users, row, pending, nonces, begun, mirrorVars, proved, typed, held>>

\* The service restarts: calls and nonces are in memory.
Restart ==
  /\ call' = [c \in Calls |-> Idle]
  /\ nonces' = [n \in Nonces |-> IF nonces[n] = "open" THEN "gone" ELSE nonces[n]]
  /\ UNCHANGED <<users, row, pending, begun, mirrorVars, proved, typed, held>>

Next == \/ \E u \in Users : Register(u) \/ AdminDelete(u) \/ AdminFee(u)
        \/ \E c \in Calls :
             \/ \E u \in Users :
                  \/ SettingsRead(c, u)
                  \/ \E h \in Handshakes : AuthorizeRead(c, u, h)
                  \/ \E n \in Nonces : ProvisionRead(c, u, n)
             \/ SettingsWrite(c)
             \/ Confirm(c) \/ Claim(c) \/ IssueCode(c)
             \/ \E h \in Handshakes : ExchangeRead(c, h)
             \/ Exchange(c) \/ Discard(c)
             \/ ResolveTxt(c) \/ ProvisionWrite(c)
             \/ Abort(c)
        \/ \E h \in Handshakes : ConnectInit(h) \/ ConnectExpire(h)
        \/ \E n \in Nonces : ProvisionInit(n) \/ ProvisionExpire(n)
        \/ \E s \in syncs : SyncLands(s) \/ SyncFails(s)
        \/ \E o \in Offers : RegisterByWallet(o)
        \/ Restart

Spec == Init /\ [][Next]_vars

-----------------------------------------------------------------------------
(* Properties *)

\* A verified row names a domain and has a token, whichever of the handshake,
\* the provisioning and the settings wrote it last and whatever they had read.
VerifiedIsComplete ==
  \A u \in users : row[u].verified => row[u].domain # None /\ row[u].token

\* A creator who never typed a domain into its settings is verified for a domain
\* it has proved, however its handshakes and provisionings interleave or end early.
VerifiedIsProved ==
  \A u \in users \ typed : row[u].verified => row[u].domain \in proved[u]

\* The service puts under a domain only what some verified row for that domain said,
\* wallet, price and fee together: any other record of the contract was registered
\* by the very wallet that it pays.
MirrorsAreVerifiedRows == chain \subseteq held \cup own

=============================================================================
