--------------------------- MODULE TenantsProofs ----------------------------
(***************************************************************************)
(* Proofs about the two halves of the auth service: Tenants, for any       *)
(* creators, domains, handshakes, nonces and concurrent calls, and         *)
(* Accounts, for any addresses, requests, flows, tokens and set-ups.       *)
(*                                                                         *)
(* A verified row is made of what several calls wrote.  The token exchange *)
(* never looks at the domain: that it finds one follows from the handshake *)
(* having a code only after its creator's row was given a domain, which no *)
(* call takes away (Named).  A creator that never typed a domain holds, at *)
(* any time and verified or not, one it has proved (DomainsProved).        *)
(*                                                                         *)
(* Of the accounts, the hard part is what an administrator has decided: it *)
(* holds but for the moments in which a registration has made the account  *)
(* and not yet looked at the grant (DecidedHolds).                         *)
(***************************************************************************)
EXTENDS Tenants, Accounts, FiniteSetTheorems, TLAPS

\* u's row names a domain, or is deleted for good.
Named(u) == row[u].domain # None \/ (u \notin users /\ row[u] # NewRow)

\* What a call carries at each of its steps.
Carries(k) ==
  /\ k.at # "idle" => k.user \in Users
  /\ k.at = "settings" => k.ask \in Changes
  /\ k.at \in {"confirm", "claim", "dns", "provision"} => k.site \in Domains
  /\ k.at \in {"confirm", "claim", "code", "exchange", "discard"} => k.hs \in Handshakes
  /\ k.at = "dns" => k.nonce \in Nonces

CallsCarry == \A c \in Calls : Carries(call[c])

\* A handshake names its site; once it has a code, or a call is about to issue
\* or exchange it, the creator's row names a domain.
CodesAreNamed ==
  /\ \A h \in Handshakes : pending[h].state \in {"open", "coded"} => pending[h].site \in Domains
  /\ \A h \in Handshakes : pending[h].state = "coded" => /\ pending[h].user \in Users
                                                         /\ Named(pending[h].user)
  /\ \A c \in Calls : call[c].at \in {"code", "exchange"} => Named(call[c].user)

\* A call claims a domain only for the creator that has proved it.
ClaimsAreProved ==
  \A c \in Calls : call[c].at \in {"claim", "provision"} => call[c].site \in proved[call[c].user]

\* Without a domain typed into the settings, the domain of a row is proved.
DomainsProved ==
  \A u \in users \ typed : row[u].domain # None => row[u].domain \in proved[u]

MirrorsHeld == syncs \subseteq held /\ chain \subseteq held \cup own

IInv == /\ TypeOK
        /\ CallsCarry
        /\ CodesAreNamed
        /\ ClaimsAreProved
        /\ DomainsProved
        /\ VerifiedIsComplete
        /\ MirrorsHeld

\* A new row has the types of its columns.
LEMMA NewRowType == NewRow \in Rows /\ [NewRow EXCEPT !.token = FALSE] \in Rows
BY FeesAssumption DEF NewRow, Rows

\* An idle call is a call record, and carries nothing.
LEMMA IdleType == Idle \in CallRecords /\ Idle.at = "idle"
BY DEF Idle, CallRecords, Steps

\* The rows that the handlers write have the types of the columns.
LEMMA RowFields ==
  ASSUME NEW r \in Rows
  PROVE  /\ [r EXCEPT !.token = TRUE, !.verified = TRUE] \in Rows
         /\ \A d \in Domains : [r EXCEPT !.domain = d] \in Rows
         /\ \A d \in Domains : [r EXCEPT !.domain = d, !.token = TRUE, !.verified = TRUE] \in Rows
BY DEF Rows

\* So does the row that settings write.
LEMMA SettledType ==
  ASSUME NEW r \in Rows, NEW ch \in Changes, NEW reset \in BOOLEAN
  PROVE  Settled(r, ch, reset) \in Rows
<1>1. /\ Asked(ch.domain, r.domain) \in Domains \cup {None}
      /\ Asked(ch.wallet, r.wallet) \in Wallets \cup {None}
      /\ Asked(ch.price, r.price) \in Nat
  BY ChangesAssumption DEF Asked, Rows
<1>2. (r.verified /\ ~reset) \in BOOLEAN /\ (r.token /\ ~reset) \in BOOLEAN
  OBVIOUS
<1>3. QED
  BY <1>1, <1>2 DEF Settled, Rows

\* What happens to a handshake keeps its types.
LEMMA PendingFields ==
  ASSUME NEW p \in Pending
  PROVE  /\ \A d \in Domains : [p EXCEPT !.state = "open", !.site = d] \in Pending
         /\ \A u \in Users : [p EXCEPT !.state = "coded", !.user = u] \in Pending
         /\ [p EXCEPT !.state = "gone"] \in Pending
         /\ [p EXCEPT !.fresh = FALSE] \in Pending
BY DEF Pending

\* What an update of a row leaves behind: the row, and its trace in held.
LEMMA Update ==
  ASSUME TypeOK, NEW u \in Users, NEW r \in Rows, UpdateRow(u, r)
  PROVE  /\ u \in users
         /\ row' = [row EXCEPT ![u] = r]
         /\ row' \in [Users -> Rows]
         /\ held \subseteq held'
         /\ held' \subseteq Records
         /\ Mirror(u, r) \subseteq held'
         /\ Mirror(u, r) \subseteq Records
<1>1. r.wallet # None /\ r.domain # None => RecordOf(u, r) \in Records
  BY DEF Rows, RecordOf, OnchainKey, Records, Keys
<1>2. QED
  BY <1>1 DEF UpdateRow, TypeOK, Mirror

\* The initial state satisfies the invariant.
LEMMA Initial == Init => IInv
<1> SUFFICES ASSUME Init
             PROVE  IInv
  OBVIOUS
<1> USE DEF Init
<1>1. TypeOK
  BY NewRowType, IdleType, BoundAssumption DEF TypeOK, Pending
<1>2. CallsCarry /\ ClaimsAreProved
  BY DEF CallsCarry, Carries, ClaimsAreProved, Idle
<1>3. CodesAreNamed
  BY DEF CodesAreNamed, Idle
<1>4. DomainsProved /\ VerifiedIsComplete /\ MirrorsHeld
  BY DEF DomainsProved, VerifiedIsComplete, MirrorsHeld
<1>5. QED
  BY <1>1, <1>2, <1>3, <1>4 DEF IInv

\* Every step keeps the types.
LEMMA TypeStep == TypeOK /\ CallsCarry /\ CodesAreNamed /\ [Next]_vars => TypeOK'
<1> SUFFICES ASSUME TypeOK, CallsCarry, CodesAreNamed, [Next]_vars
             PROVE  TypeOK'
  OBVIOUS
<1> USE IdleType
<1> DEFINE CallType == call' \in [Calls -> CallRecords] /\ begun' \in 0..MaxCalls
<1>a. ASSUME NEW c \in Calls, NEW rec \in CallRecords, Begin(c, rec)
      PROVE  CallType
  BY <1>a, BoundAssumption DEF Begin, TypeOK
<1>b. ASSUME NEW c \in Calls, NEW from \in Steps, NEW to \in Steps, Goto(c, from, to)
      PROVE  call' \in [Calls -> CallRecords]
  BY <1>b DEF Goto, TypeOK, CallRecords
<1>c. ASSUME NEW c \in Calls, NEW from \in Steps, End(c, from)
      PROVE  call' \in [Calls -> CallRecords]
  BY <1>c DEF End, TypeOK
<1>1. ASSUME NEW u \in Users, Register(u)
      PROVE  TypeOK'
  BY <1>1 DEF Register, TypeOK, mirrorVars
<1>2. ASSUME NEW u \in Users, AdminDelete(u)
      PROVE  TypeOK'
  BY <1>2, NewRowType DEF AdminDelete, TypeOK, mirrorVars
<1>3. ASSUME NEW u \in Users, AdminFee(u)
      PROVE  TypeOK'
  <2>1. PICK fee \in Fees : UpdateRow(u, [row[u] EXCEPT !.fee = fee])
    BY <1>3 DEF AdminFee
  <2>2. [row[u] EXCEPT !.fee = fee] \in Rows
    BY FeesAssumption DEF TypeOK, Rows
  <2>3. QED
    BY <1>3, <2>1, <2>2, Update DEF AdminFee, TypeOK, mirrorVars
<1>4. ASSUME NEW c \in Calls, NEW u \in Users, SettingsRead(c, u)
      PROVE  TypeOK'
  <2>1. PICK ch \in Changes :
          Begin(c, [Idle EXCEPT !.at = "settings", !.user = u, !.ask = ch,
                      !.reset = ch.domain # None /\ ch.domain # row[u].domain])
    BY <1>4 DEF SettingsRead
  <2>2. [Idle EXCEPT !.at = "settings", !.user = u, !.ask = ch,
           !.reset = ch.domain # None /\ ch.domain # row[u].domain] \in CallRecords
    BY DEF Idle, CallRecords, Steps
  <2>3. CallType
    BY <1>a, <2>1, <2>2
  <2>4. QED
    BY <1>4, <2>3 DEF SettingsRead, TypeOK, mirrorVars
<1>5. ASSUME NEW c \in Calls, SettingsWrite(c)
      PROVE  TypeOK'
  <2> DEFINE u == call[c].user
             ch == call[c].ask
             r == Settled(row[u], ch, call[c].reset)
  <2>1. u \in Users /\ ch \in Changes
    BY <1>5 DEF SettingsWrite, End, CallsCarry, Carries
  <2>2. r \in Rows
    BY <2>1, SettledType DEF TypeOK, CallRecords
  <2>3. CASE TRUE
    <3>1. UpdateRow(u, r) /\ End(c, "settings")
      BY <1>5 DEF SettingsWrite
    <3> HIDE DEF r, u, ch
    <3>2. /\ row' \in [Users -> Rows]
          /\ held' \subseteq Records
          /\ Mirror(u, r) \subseteq Records
      BY <2>1, <2>2, <3>1, Update
    <3>3. call' \in [Calls -> CallRecords]
      BY <3>1, <1>c DEF Steps
    <3>4. /\ syncs' = syncs \cup Mirror(u, r)
          /\ typed' \subseteq typed \cup {u}
          /\ UNCHANGED <<users, pending, nonces, begun, chain, own, proved>>
      BY <1>5 DEF SettingsWrite, u, r, ch
    <3>5. QED
      BY <2>1, <3>2, <3>3, <3>4 DEF TypeOK
  <2>4. QED
    BY <2>3
<1>6. ASSUME NEW h \in Handshakes, ConnectInit(h) \/ ConnectExpire(h)
      PROVE  TypeOK'
  <2>1. pending[h] \in Pending
    BY DEF TypeOK
  <2>2. CASE ConnectInit(h)
    <3>1. PICK d \in Domains : pending' = [pending EXCEPT ![h].state = "open", ![h].site = d]
      BY <2>2 DEF ConnectInit
    <3>2. pending' = [pending EXCEPT ![h] = [pending[h] EXCEPT !.state = "open", !.site = d]]
      BY <3>1, <2>1 DEF TypeOK, Pending
    <3>3. pending' \in [Handshakes -> Pending]
      BY <2>1, <3>2, PendingFields DEF TypeOK
    <3>4. QED
      BY <2>2, <3>3 DEF ConnectInit, TypeOK, mirrorVars
  <2>3. CASE ConnectExpire(h)
    <3>1. pending' = [pending EXCEPT ![h] = [pending[h] EXCEPT !.fresh = FALSE]]
      BY <2>3 DEF ConnectExpire
    <3>2. pending' \in [Handshakes -> Pending]
      BY <2>1, <3>1, PendingFields DEF TypeOK
    <3>3. QED
      BY <2>3, <3>2 DEF ConnectExpire, TypeOK, mirrorVars
  <2>4. QED
    BY <1>6, <2>2, <2>3
<1>7. ASSUME NEW c \in Calls, NEW u \in Users, NEW h \in Handshakes, AuthorizeRead(c, u, h)
      PROVE  TypeOK'
  <2>1. CASE /\ Begin(c, [Idle EXCEPT !.at = "confirm", !.user = u, !.hs = h, !.site = pending[h].site])
             /\ UNCHANGED pending
    <3>1. [Idle EXCEPT !.at = "confirm", !.user = u, !.hs = h, !.site = pending[h].site] \in CallRecords
      BY DEF Idle, CallRecords, Steps, TypeOK, Pending
    <3>2. CallType
      BY <1>a, <2>1, <3>1
    <3>3. QED
      BY <1>7, <2>1, <3>2 DEF AuthorizeRead, TypeOK, mirrorVars
  <2>2. CASE /\ pending' = [pending EXCEPT ![h].state = "gone"]
             /\ UNCHANGED <<begun, call>>
    BY <1>7, <2>2 DEF AuthorizeRead, TypeOK, Pending, mirrorVars
  <2>3. QED
    BY <1>7, <2>1, <2>2 DEF AuthorizeRead
<1>8. ASSUME NEW c \in Calls, Confirm(c)
      PROVE  TypeOK'
  <2>1. call[c].user \in Users /\ call[c].site \in Domains
    BY <1>8 DEF Confirm, Goto, CallsCarry, Carries
  <2>2. call' \in [Calls -> CallRecords]
    BY <1>8, <1>b DEF Confirm, Steps
  <2>3. QED
    BY <1>8, <2>1, <2>2 DEF Confirm, TypeOK, mirrorVars
<1>9. ASSUME NEW c \in Calls, Claim(c)
      PROVE  TypeOK'
  <2>1. call[c].user \in Users /\ call[c].site \in Domains
    BY <1>9 DEF Claim, Goto, CallsCarry, Carries
  <2>2. call' \in [Calls -> CallRecords]
    BY <1>9, <1>b DEF Claim, Steps
  <2>3. [row[call[c].user] EXCEPT !.domain = call[c].site] \in Rows
    BY <2>1, RowFields DEF TypeOK
  <2>4. QED
    BY <1>9, <2>1, <2>2, <2>3, Update DEF Claim, TypeOK, mirrorVars
<1>10. ASSUME NEW c \in Calls, IssueCode(c)
       PROVE  TypeOK'
  <2>1. call' \in [Calls -> CallRecords]
    BY <1>10, <1>c DEF IssueCode, Steps
  <2> DEFINE h == call[c].hs
             u == call[c].user
  <2>2. h \in Handshakes /\ u \in Users
    BY <1>10 DEF IssueCode, End, CallsCarry, Carries
  <2>3. pending' = [pending EXCEPT ![h] = [pending[h] EXCEPT !.state = "coded", !.user = u]]
    BY <1>10, <2>2 DEF IssueCode, TypeOK, Pending
  <2> HIDE DEF h, u
  <2>4. pending' \in [Handshakes -> Pending]
    BY <2>2, <2>3, PendingFields DEF TypeOK
  <2>5. QED
    BY <1>10, <2>1, <2>4 DEF IssueCode, TypeOK, mirrorVars
<1>11. ASSUME NEW c \in Calls, NEW h \in Handshakes, ExchangeRead(c, h)
       PROVE  TypeOK'
  <2>1. [Idle EXCEPT !.at = "exchange", !.user = pending[h].user, !.hs = h] \in CallRecords
    BY DEF Idle, CallRecords, Steps, TypeOK, Pending
  <2>2. CallType
    BY <1>11, <1>a, <2>1 DEF ExchangeRead
  <2>3. QED
    BY <1>11, <2>2 DEF ExchangeRead, TypeOK, mirrorVars
<1>12. ASSUME NEW c \in Calls, Exchange(c)
       PROVE  TypeOK'
  <2>1. call[c].user \in Users
    BY <1>12 DEF Exchange, Goto, CallsCarry, Carries
  <2>2. call' \in [Calls -> CallRecords]
    BY <1>12, <1>b DEF Exchange, Steps
  <2>3. [row[call[c].user] EXCEPT !.token = TRUE, !.verified = TRUE] \in Rows
    BY <2>1, RowFields DEF TypeOK
  <2>4. QED
    BY <1>12, <2>1, <2>2, <2>3, Update DEF Exchange, TypeOK, mirrorVars
<1>13. ASSUME NEW c \in Calls, Discard(c)
       PROVE  TypeOK'
  <2>1. call' \in [Calls -> CallRecords]
    BY <1>13, <1>c DEF Discard, Steps
  <2>2. QED
    BY <1>13, <2>1 DEF Discard, TypeOK, Pending, mirrorVars
<1>14. ASSUME NEW n \in Nonces, ProvisionInit(n) \/ ProvisionExpire(n)
       PROVE  TypeOK'
  BY <1>14 DEF ProvisionInit, ProvisionExpire, TypeOK, mirrorVars
<1>15. ASSUME NEW c \in Calls, NEW u \in Users, NEW n \in Nonces, ProvisionRead(c, u, n)
       PROVE  TypeOK'
  <2>1. PICK d \in Domains :
          Begin(c, [Idle EXCEPT !.at = "dns", !.user = u, !.site = d, !.nonce = n])
    BY <1>15 DEF ProvisionRead
  <2>2. [Idle EXCEPT !.at = "dns", !.user = u, !.site = d, !.nonce = n] \in CallRecords
    BY DEF Idle, CallRecords, Steps
  <2>3. CallType
    BY <1>a, <2>1, <2>2
  <2>4. QED
    BY <1>15, <2>3 DEF ProvisionRead, TypeOK, mirrorVars
<1>16. ASSUME NEW c \in Calls, ResolveTxt(c)
       PROVE  TypeOK'
  <2>1. call[c].user \in Users /\ call[c].site \in Domains
    BY <1>16 DEF ResolveTxt, Goto, CallsCarry, Carries
  <2>2. call' \in [Calls -> CallRecords]
    BY <1>16, <1>b DEF ResolveTxt, Steps
  <2>3. QED
    BY <1>16, <2>1, <2>2 DEF ResolveTxt, TypeOK, mirrorVars
<1>17. ASSUME NEW c \in Calls, ProvisionWrite(c)
       PROVE  TypeOK'
  <2> DEFINE u == call[c].user
             r == [row[u] EXCEPT !.domain = call[c].site, !.token = TRUE, !.verified = TRUE]
  <2>1. u \in Users /\ call[c].site \in Domains
    BY <1>17 DEF ProvisionWrite, End, CallsCarry, Carries
  <2>2. r \in Rows
    BY <2>1, RowFields DEF TypeOK
  <2>3. UpdateRow(u, r) /\ End(c, "provision")
    BY <1>17 DEF ProvisionWrite
  <2>4. /\ syncs' = syncs \cup Mirror(u, r)
        /\ UNCHANGED <<users, pending, nonces, begun, chain, own, proved, typed>>
    BY <1>17 DEF ProvisionWrite
  <2> HIDE DEF r, u
  <2>5. /\ row' \in [Users -> Rows]
        /\ held' \subseteq Records
        /\ Mirror(u, r) \subseteq Records
    BY <2>1, <2>2, <2>3, Update
  <2>6. call' \in [Calls -> CallRecords]
    BY <2>3, <1>c DEF Steps
  <2>7. QED
    BY <2>4, <2>5, <2>6 DEF TypeOK
<1>18. ASSUME NEW s \in syncs, SyncLands(s) \/ SyncFails(s)
       PROVE  TypeOK'
  BY <1>18 DEF SyncLands, SyncFails, TypeOK
<1>18o. ASSUME NEW o \in Offers, RegisterByWallet(o)
        PROVE  TypeOK'
  BY <1>18o, OffersAssumption DEF RegisterByWallet, TypeOK, Records, Keys
<1>19. ASSUME NEW c \in Calls, Abort(c)
       PROVE  TypeOK'
  BY <1>19 DEF Abort, TypeOK, mirrorVars
<1>20. CASE Restart
  BY <1>20 DEF Restart, TypeOK, mirrorVars
<1>21. CASE UNCHANGED vars
  BY <1>21 DEF vars, TypeOK
<1>22. QED
  BY <1>1, <1>2, <1>3, <1>4, <1>5, <1>6, <1>7, <1>8, <1>9, <1>10, <1>11, <1>12, <1>13,
     <1>14, <1>15, <1>16, <1>17, <1>18, <1>18o, <1>19, <1>20, <1>21 DEF Next

\* A call that begins, moves on or ends carries what its step needs.
LEMMA CallsStep == TypeOK /\ CallsCarry /\ CodesAreNamed /\ [Next]_vars => CallsCarry'
<1> SUFFICES ASSUME TypeOK, CallsCarry, CodesAreNamed, [Next]_vars
             PROVE  CallsCarry'
  OBVIOUS
<1>0. call \in [Calls -> CallRecords]
  BY DEF TypeOK
<1>i. Carries(Idle)
  BY DEF Carries, Idle
<1>a. ASSUME NEW c \in Calls, NEW rec, Carries(rec), Begin(c, rec)
      PROVE  CallsCarry'
  BY <1>a, <1>0 DEF Begin, CallsCarry
<1>c. ASSUME NEW c \in Calls, NEW from \in Steps, End(c, from)
      PROVE  CallsCarry'
  BY <1>c, <1>0, <1>i DEF End, CallsCarry
<1>b. ASSUME NEW c \in Calls, NEW from \in Steps, NEW to \in Steps, Goto(c, from, to),
             <<from, to>> \in {<<"confirm", "claim">>, <<"claim", "code">>,
                               <<"exchange", "discard">>, <<"dns", "provision">>}
      PROVE  CallsCarry'
  <2>1. call' = [call EXCEPT ![c] = [call[c] EXCEPT !.at = to]]
    BY <1>b DEF Goto
  <2>2. Carries([call[c] EXCEPT !.at = to])
    BY <1>b, <1>0 DEF Goto, CallsCarry, Carries, CallRecords
  <2>3. QED
    BY <2>1, <2>2, <1>0 DEF CallsCarry
<1>1. ASSUME NEW c \in Calls, NEW u \in Users, SettingsRead(c, u)
      PROVE  CallsCarry'
  <2>1. PICK ch \in Changes :
          Begin(c, [Idle EXCEPT !.at = "settings", !.user = u, !.ask = ch,
                      !.reset = ch.domain # None /\ ch.domain # row[u].domain])
    BY <1>1 DEF SettingsRead
  <2>2. Carries([Idle EXCEPT !.at = "settings", !.user = u, !.ask = ch,
                   !.reset = ch.domain # None /\ ch.domain # row[u].domain])
    BY DEF Idle, Carries
  <2>3. QED
    BY <1>a, <2>1, <2>2
<1>2. ASSUME NEW c \in Calls, NEW u \in Users, NEW h \in Handshakes, AuthorizeRead(c, u, h)
      PROVE  CallsCarry'
  <2>1. pending[h].site \in Domains
    BY <1>2 DEF AuthorizeRead, CodesAreNamed
  <2>2. Carries([Idle EXCEPT !.at = "confirm", !.user = u, !.hs = h, !.site = pending[h].site])
    BY <2>1 DEF Idle, Carries
  <2>3. CASE Begin(c, [Idle EXCEPT !.at = "confirm", !.user = u, !.hs = h, !.site = pending[h].site])
    BY <1>a, <2>2, <2>3
  <2>4. CASE UNCHANGED call
    BY <2>4 DEF CallsCarry
  <2>5. QED
    BY <1>2, <2>3, <2>4 DEF AuthorizeRead
<1>3. ASSUME NEW c \in Calls, NEW h \in Handshakes, ExchangeRead(c, h)
      PROVE  CallsCarry'
  <2>1. pending[h].user \in Users
    BY <1>3 DEF ExchangeRead, CodesAreNamed
  <2>2. Carries([Idle EXCEPT !.at = "exchange", !.user = pending[h].user, !.hs = h])
    BY <2>1 DEF Idle, Carries
  <2>3. QED
    BY <1>3, <1>a, <2>2 DEF ExchangeRead
<1>4. ASSUME NEW c \in Calls, NEW u \in Users, NEW n \in Nonces, ProvisionRead(c, u, n)
      PROVE  CallsCarry'
  <2>1. PICK d \in Domains :
          Begin(c, [Idle EXCEPT !.at = "dns", !.user = u, !.site = d, !.nonce = n])
    BY <1>4 DEF ProvisionRead
  <2>2. Carries([Idle EXCEPT !.at = "dns", !.user = u, !.site = d, !.nonce = n])
    BY DEF Idle, Carries
  <2>3. QED
    BY <1>a, <2>1, <2>2
<1>5. ASSUME NEW c \in Calls, Confirm(c) \/ Claim(c) \/ Exchange(c) \/ ResolveTxt(c)
      PROVE  CallsCarry'
  BY <1>5, <1>b DEF Confirm, Claim, Exchange, ResolveTxt, Steps
<1>6. ASSUME NEW c \in Calls, SettingsWrite(c) \/ IssueCode(c) \/ Discard(c) \/ ProvisionWrite(c)
      PROVE  CallsCarry'
  BY <1>6, <1>c DEF SettingsWrite, IssueCode, Discard, ProvisionWrite, Steps
<1>7. ASSUME NEW c \in Calls, Abort(c)
      PROVE  CallsCarry'
  BY <1>7, <1>0, <1>i DEF Abort, CallsCarry
<1>8. CASE Restart
  BY <1>8, <1>i DEF Restart, CallsCarry
<1>9. CASE UNCHANGED call
  BY <1>9 DEF CallsCarry
<1>10. QED
  BY <1>1, <1>2, <1>3, <1>4, <1>5, <1>6, <1>7, <1>8, <1>9
     DEF Next, Register, AdminDelete, AdminFee, ConnectInit, ConnectExpire, ProvisionInit,
         ProvisionExpire, SyncLands, SyncFails, RegisterByWallet, vars

\* What every handler that writes a row has in common, whatever it had read.
GoodWrite(u, r) ==
  /\ u \in users
  /\ r \in Rows
  /\ users' = users
  /\ row' = [row EXCEPT ![u] = r]
  /\ proved' = proved
  /\ typed \subseteq typed'
  /\ row[u].domain # None => r.domain # None
  /\ r.verified => r.domain # None /\ r.token
  /\ u \notin typed' => r.domain = None \/ r.domain \in proved[u]
  /\ held \subseteq held'
  /\ syncs' \subseteq syncs \cup held'
  /\ chain' = chain /\ own' = own

\* The five handlers write rows that way: settings because a new domain resets
\* what the old one stood for, the exchange because its creator is Named.
LEMMA Writes ==
  ASSUME IInv,
         \/ \E u \in Users : AdminFee(u)
         \/ \E c \in Calls : SettingsWrite(c) \/ Claim(c) \/ Exchange(c) \/ ProvisionWrite(c)
  PROVE  \E u \in Users, r \in Rows : GoodWrite(u, r)
<1> USE DEF IInv
<1>0. /\ TypeOK
      /\ users \subseteq Users
      /\ \A u \in Users : row[u] \in Rows
  BY DEF TypeOK
<1>1. ASSUME NEW u \in Users, AdminFee(u)
      PROVE  \E r \in Rows : GoodWrite(u, r)
  <2>1. PICK fee \in Fees : UpdateRow(u, [row[u] EXCEPT !.fee = fee])
    BY <1>1 DEF AdminFee
  <2> DEFINE r == [row[u] EXCEPT !.fee = fee]
  <2>2. /\ r \in Rows
        /\ r.domain = row[u].domain
        /\ r.verified = row[u].verified
        /\ r.token = row[u].token
    BY <1>0, FeesAssumption DEF Rows
  <2>3. UpdateRow(u, r)
    BY <2>1
  <2> HIDE DEF r
  <2>4. u \in users /\ row' = [row EXCEPT ![u] = r] /\ held \subseteq held'
    BY <1>0, <2>2, <2>3, Update
  <2>5. UNCHANGED <<users, proved, typed, syncs, chain, own>>
    BY <1>1 DEF AdminFee, mirrorVars
  <2>6. QED
    BY <2>2, <2>4, <2>5 DEF GoodWrite, VerifiedIsComplete, DomainsProved
<1>2. ASSUME NEW c \in Calls, SettingsWrite(c)
      PROVE  \E u \in Users, r \in Rows : GoodWrite(u, r)
  <2> DEFINE u == call[c].user
             ch == call[c].ask
             reset == call[c].reset
             r == Settled(row[u], ch, reset)
  <2>1. u \in Users /\ ch \in Changes /\ reset \in BOOLEAN
    BY <1>2, <1>0 DEF SettingsWrite, End, CallsCarry, Carries, TypeOK, CallRecords
  <2>2. UpdateRow(u, r)
    BY <1>2 DEF SettingsWrite
  <2>3. /\ syncs' = syncs \cup Mirror(u, r)
        /\ typed' = IF ch.domain # None THEN typed \cup {u} ELSE typed
        /\ UNCHANGED <<users, chain, own, proved>>
    BY <1>2 DEF SettingsWrite
  <2> HIDE DEF u, ch, reset
  <2>4. r \in Rows
    BY <1>0, <2>1, SettledType
  <2>5. /\ r.domain = Asked(ch.domain, row[u].domain)
        /\ r.verified = (row[u].verified /\ ~reset)
        /\ r.token = (row[u].token /\ ~reset)
    BY <1>0, <2>1 DEF Settled, Rows
  <2> HIDE DEF r
  <2>6. /\ u \in users
        /\ row' = [row EXCEPT ![u] = r]
        /\ held \subseteq held'
        /\ Mirror(u, r) \subseteq held'
    BY <1>0, <2>1, <2>2, <2>4, Update
  <2>7. /\ row[u].domain # None => r.domain # None
        /\ ch.domain = None => r.domain = row[u].domain
    BY <2>5 DEF Asked
  <2>8. r.verified => r.domain # None /\ r.token
    BY <2>5, <2>6, <2>7 DEF VerifiedIsComplete
  <2>9. u \notin typed' => r.domain = None \/ r.domain \in proved[u]
    BY <2>3, <2>6, <2>7 DEF DomainsProved
  <2>10. QED
    BY <2>1, <2>3, <2>4, <2>6, <2>7, <2>8, <2>9 DEF GoodWrite
<1>3. ASSUME NEW c \in Calls, Claim(c)
      PROVE  \E u \in Users, r \in Rows : GoodWrite(u, r)
  <2> DEFINE u == call[c].user
             r == [row[u] EXCEPT !.domain = call[c].site]
  <2>1. u \in Users /\ call[c].site \in Domains /\ call[c].site \in proved[u]
    BY <1>3 DEF Claim, Goto, CallsCarry, Carries, ClaimsAreProved
  <2>2. UpdateRow(u, r) /\ UNCHANGED <<users, proved, typed, syncs, chain, own>>
    BY <1>3 DEF Claim, mirrorVars
  <2> HIDE DEF u
  <2>3. r \in Rows
    BY <1>0, <2>1, RowFields
  <2>4. /\ r.domain = call[c].site
        /\ r.verified = row[u].verified
        /\ r.token = row[u].token
    BY <1>0, <2>1 DEF Rows
  <2> HIDE DEF r
  <2>5. u \in users /\ row' = [row EXCEPT ![u] = r] /\ held \subseteq held'
    BY <1>0, <2>1, <2>2, <2>3, Update
  <2>6. r.domain # None
    BY <2>1, <2>4, NoneAssumption
  <2>7. QED
    BY <2>1, <2>2, <2>3, <2>4, <2>5, <2>6 DEF GoodWrite, VerifiedIsComplete
<1>4. ASSUME NEW c \in Calls, Exchange(c)
      PROVE  \E u \in Users, r \in Rows : GoodWrite(u, r)
  <2> DEFINE u == call[c].user
             r == [row[u] EXCEPT !.token = TRUE, !.verified = TRUE]
  <2>1. u \in Users /\ Named(u)
    BY <1>4 DEF Exchange, Goto, CallsCarry, Carries, CodesAreNamed
  <2>2. UpdateRow(u, r) /\ UNCHANGED <<users, proved, typed, syncs, chain, own>>
    BY <1>4 DEF Exchange, mirrorVars
  <2> HIDE DEF u
  <2>3. r \in Rows
    BY <1>0, <2>1, RowFields
  <2>4. r.domain = row[u].domain /\ r.token
    BY <1>0, <2>1 DEF Rows
  <2> HIDE DEF r
  <2>5. u \in users /\ row' = [row EXCEPT ![u] = r] /\ held \subseteq held'
    BY <1>0, <2>1, <2>2, <2>3, Update
  <2>6. r.domain # None
    BY <2>1, <2>4, <2>5 DEF Named
  <2>7. QED
    BY <2>1, <2>2, <2>3, <2>4, <2>5, <2>6 DEF GoodWrite, DomainsProved
<1>5. ASSUME NEW c \in Calls, ProvisionWrite(c)
      PROVE  \E u \in Users, r \in Rows : GoodWrite(u, r)
  <2> DEFINE u == call[c].user
             r == [row[u] EXCEPT !.domain = call[c].site, !.token = TRUE, !.verified = TRUE]
  <2>1. u \in Users /\ call[c].site \in Domains /\ call[c].site \in proved[u]
    BY <1>5 DEF ProvisionWrite, End, CallsCarry, Carries, ClaimsAreProved
  <2>2. /\ UpdateRow(u, r)
        /\ syncs' = syncs \cup Mirror(u, r)
        /\ UNCHANGED <<users, proved, typed, chain, own>>
    BY <1>5 DEF ProvisionWrite
  <2> HIDE DEF u
  <2>3. r \in Rows
    BY <1>0, <2>1, RowFields
  <2>4. r.domain = call[c].site /\ r.token
    BY <1>0, <2>1 DEF Rows
  <2> HIDE DEF r
  <2>5. /\ u \in users
        /\ row' = [row EXCEPT ![u] = r]
        /\ held \subseteq held'
        /\ Mirror(u, r) \subseteq held'
    BY <1>0, <2>1, <2>2, <2>3, Update
  <2>6. r.domain # None
    BY <2>1, <2>4, NoneAssumption
  <2>7. QED
    BY <2>1, <2>2, <2>3, <2>4, <2>5, <2>6 DEF GoodWrite
<1>6. QED
  BY <1>1, <1>2, <1>3, <1>4, <1>5

\* Rows change in a good write, a registration or a deletion.
LEMMA RowSteps ==
  ASSUME IInv, [Next]_vars
  PROVE  \/ UNCHANGED <<users, row, typed>> /\ proved \in [Users -> SUBSET Domains]
               /\ \A u \in Users : proved[u] \subseteq proved'[u]
         \/ \E u \in Users, r \in Rows : GoodWrite(u, r)
         \/ \E u \in Users : Register(u) \/ AdminDelete(u)
<1>1. proved \in [Users -> SUBSET Domains]
  BY DEF IInv, TypeOK
<1>2. CASE \E c \in Calls : Confirm(c) \/ ResolveTxt(c)
  BY <1>1, <1>2 DEF Confirm, ResolveTxt
<1>3. CASE \/ \E u \in Users : AdminFee(u)
           \/ \E c \in Calls : SettingsWrite(c) \/ Claim(c) \/ Exchange(c) \/ ProvisionWrite(c)
  BY <1>3, Writes
<1>4. CASE \E u \in Users : Register(u) \/ AdminDelete(u)
  BY <1>4
<1>5. CASE UNCHANGED <<users, row, typed, proved>>
  BY <1>1, <1>5
<1>6. QED
  BY <1>2, <1>3, <1>4, <1>5
     DEF Next, vars, SettingsRead, AuthorizeRead, ProvisionRead, ExchangeRead, IssueCode, Discard,
         Abort, Restart, ConnectInit, ConnectExpire, ProvisionInit, ProvisionExpire, SyncLands, SyncFails,
         RegisterByWallet

\* A creator that is Named stays so: no call takes a domain away, and no id is
\* given again.
LEMMA NamedStable ==
  ASSUME IInv, [Next]_vars, NEW u \in Users, Named(u)
  PROVE  Named(u)'
<1>0. row \in [Users -> Rows]
  BY DEF IInv, TypeOK
<1>1. CASE UNCHANGED <<users, row>>
  BY <1>1 DEF Named
<1>2. ASSUME NEW v \in Users, NEW r \in Rows, GoodWrite(v, r)
      PROVE  Named(u)'
  BY <1>0, <1>2 DEF GoodWrite, Named
<1>3. ASSUME NEW v \in Users, Register(v)
      PROVE  Named(u)'
  BY <1>3 DEF Register, Named, NewRow
<1>4. ASSUME NEW v \in Users, AdminDelete(v)
      PROVE  Named(u)'
  <2>1. [NewRow EXCEPT !.token = FALSE] # NewRow
    BY DEF NewRow
  <2>2. QED
    BY <1>0, <1>4, <2>1 DEF AdminDelete, Named
<1>5. QED
  BY <1>1, <1>2, <1>3, <1>4, RowSteps

\* A handshake has a code, and a call handles one, only for creators that are Named.
LEMMA CodesStep == IInv /\ TypeOK' /\ [Next]_vars => CodesAreNamed'
<1> SUFFICES ASSUME IInv, TypeOK', [Next]_vars
             PROVE  CodesAreNamed'
  OBVIOUS
<1>0. /\ call \in [Calls -> CallRecords]
      /\ pending \in [Handshakes -> Pending]
      /\ row \in [Users -> Rows]
  BY DEF IInv, TypeOK
<1>n. \A u \in Users : Named(u) => Named(u)'
  BY NamedStable
<1> DEFINE Sites == \A h \in Handshakes :
                      pending[h].state \in {"open", "coded"} => pending[h].site \in Domains
           Coded == \A h \in Handshakes :
                      pending[h].state = "coded" => pending[h].user \in Users /\ Named(pending[h].user)
           AllHandled == \A c \in Calls :
                        call[c].at \in {"code", "exchange"} => Named(call[c].user)
<1>s. Sites /\ Coded /\ AllHandled
  BY DEF IInv, CodesAreNamed
<1>u. \A c \in Calls : call[c].at # "idle" => call[c].user \in Users
  BY DEF IInv, CallsCarry, Carries
<1>p. ASSUME UNCHANGED pending
      PROVE  Sites' /\ Coded'
  BY <1>p, <1>n, <1>s
<1>h. ASSUME NEW c \in Calls, NEW k,
             call' = [call EXCEPT ![c] = k],
             k.at \in {"code", "exchange"} => Named(k.user)'
      PROVE  AllHandled'
  BY <1>h, <1>n, <1>s, <1>u, <1>0
<1>i. ASSUME UNCHANGED call
      PROVE  AllHandled'
  BY <1>i, <1>n, <1>s, <1>u
<1>1. ASSUME NEW h \in Handshakes, ConnectInit(h) \/ ConnectExpire(h)
      PROVE  CodesAreNamed'
  <2>1. AllHandled'
    BY <1>1, <1>i DEF ConnectInit, ConnectExpire
  <2>2. CASE ConnectInit(h)
    <3>1. PICK d \in Domains : pending' = [pending EXCEPT ![h].state = "open", ![h].site = d]
      BY <2>2 DEF ConnectInit
    <3>2. /\ \A g \in Handshakes \ {h} : pending'[g] = pending[g]
          /\ pending'[h].state = "open"
          /\ pending'[h].site = d
      BY <3>1, <1>0 DEF Pending
    <3>3. QED
      BY <2>1, <3>2, <1>n, <1>s DEF CodesAreNamed
  <2>3. CASE ConnectExpire(h)
    <3>1. /\ \A g \in Handshakes \ {h} : pending'[g] = pending[g]
          /\ pending'[h].state = pending[h].state
          /\ pending'[h].site = pending[h].site
          /\ pending'[h].user = pending[h].user
      BY <2>3, <1>0 DEF ConnectExpire, Pending
    <3>2. QED
      BY <2>1, <3>1, <1>n, <1>s DEF CodesAreNamed
  <2>4. QED
    BY <1>1, <2>2, <2>3
<1>2. ASSUME NEW h \in Handshakes, pending' = [pending EXCEPT ![h].state = "gone"]
      PROVE  Sites' /\ Coded'
  <2>1. /\ \A g \in Handshakes \ {h} : pending'[g] = pending[g]
        /\ pending'[h].state = "gone"
    BY <1>2, <1>0 DEF Pending
  <2>2. QED
    BY <2>1, <1>n, <1>s
<1>3. ASSUME NEW c \in Calls, IssueCode(c)
      PROVE  CodesAreNamed'
  <2> DEFINE h == call[c].hs
  <2>1. /\ h \in Handshakes
        /\ call[c].user \in Users
        /\ Named(call[c].user)
    BY <1>3, <1>s DEF IssueCode, End, IInv, CallsCarry, Carries
  <2>2. /\ pending[h].state \in {"open", "coded"}
        /\ pending' = [pending EXCEPT ![h].state = "coded", ![h].user = call[c].user]
    BY <1>3 DEF IssueCode
  <2> HIDE DEF h
  <2>3. /\ \A g \in Handshakes \ {h} : pending'[g] = pending[g]
        /\ pending'[h].state = "coded"
        /\ pending'[h].site = pending[h].site
        /\ pending'[h].user = call[c].user
    BY <2>1, <2>2, <1>0 DEF Pending
  <2>4. Sites' /\ Coded'
    BY <2>1, <2>2, <2>3, <1>n, <1>s
  <2>5. AllHandled'
    BY <1>3, <1>h DEF IssueCode, End, Idle
  <2>6. QED
    BY <2>4, <2>5 DEF CodesAreNamed
<1>4. ASSUME NEW c \in Calls, NEW u \in Users, NEW h \in Handshakes, AuthorizeRead(c, u, h)
      PROVE  CodesAreNamed'
  <2>1. CASE UNCHANGED call /\ pending' = [pending EXCEPT ![h].state = "gone"]
    BY <2>1, <1>2, <1>i DEF CodesAreNamed
  <2>2. CASE /\ Begin(c, [Idle EXCEPT !.at = "confirm", !.user = u, !.hs = h, !.site = pending[h].site])
             /\ UNCHANGED pending
    <3>1. AllHandled'
      BY <2>2, <1>h DEF Begin, Idle
    <3>2. QED
      BY <2>2, <3>1, <1>p DEF CodesAreNamed
  <2>3. QED
    BY <1>4, <2>1, <2>2 DEF AuthorizeRead
<1>5. ASSUME NEW c \in Calls, Discard(c)
      PROVE  CodesAreNamed'
  <2>1. call[c].hs \in Handshakes
    BY <1>5 DEF Discard, End, IInv, CallsCarry, Carries
  <2>2. AllHandled'
    BY <1>5, <1>h DEF Discard, End, Idle
  <2>3. Sites' /\ Coded'
    BY <1>5, <1>2, <2>1 DEF Discard
  <2>4. QED
    BY <2>2, <2>3 DEF CodesAreNamed
<1>6. ASSUME NEW c \in Calls, NEW h \in Handshakes, ExchangeRead(c, h)
      PROVE  CodesAreNamed'
  <2> DEFINE k == [Idle EXCEPT !.at = "exchange", !.user = pending[h].user, !.hs = h]
  <2>1. Named(pending[h].user)'
    BY <1>6, <1>n, <1>s DEF ExchangeRead
  <2>2. UNCHANGED pending /\ call' = [call EXCEPT ![c] = k]
    BY <1>6 DEF ExchangeRead, Begin
  <2>3. k.user = pending[h].user
    BY DEF Idle
  <2> HIDE DEF k
  <2>4. AllHandled'
    BY <2>1, <2>2, <2>3, <1>h
  <2>5. QED
    BY <2>2, <2>4, <1>p DEF CodesAreNamed
<1>7. ASSUME NEW c \in Calls, Claim(c)
      PROVE  CodesAreNamed'
  <2> DEFINE k == [call[c] EXCEPT !.at = "code"]
             r == [row[call[c].user] EXCEPT !.domain = call[c].site]
  <2>1. call[c].user \in Users /\ call[c].site \in Domains
    BY <1>7 DEF Claim, Goto, IInv, CallsCarry, Carries
  <2>2. UNCHANGED pending /\ call' = [call EXCEPT ![c] = k]
    BY <1>7 DEF Claim, Goto
  <2>3. row' = [row EXCEPT ![call[c].user] = r]
    BY <1>7 DEF Claim, UpdateRow
  <2>4. r.domain # None
    BY <2>1, <1>0, NoneAssumption DEF Rows
  <2>5. Named(call[c].user)'
    BY <2>1, <2>2, <2>3, <2>4, <1>0 DEF Named
  <2>6. k.user = call[c].user
    BY <1>0 DEF CallRecords
  <2> HIDE DEF k
  <2>7. AllHandled'
    BY <2>2, <2>5, <2>6, <1>h
  <2>8. QED
    BY <2>2, <2>7, <1>p DEF CodesAreNamed
<1>8. ASSUME UNCHANGED pending, AllHandled'
      PROVE  CodesAreNamed'
  BY <1>8, <1>p DEF CodesAreNamed
<1>9. ASSUME NEW c \in Calls, SettingsWrite(c) \/ ProvisionWrite(c) \/ Abort(c)
      PROVE  CodesAreNamed'
  BY <1>9, <1>8, <1>h DEF SettingsWrite, ProvisionWrite, Abort, End, Idle
<1>10. ASSUME NEW c \in Calls, Confirm(c) \/ Exchange(c) \/ ResolveTxt(c)
       PROVE  CodesAreNamed'
  <2>1. PICK to \in {"claim", "discard", "provision"} : call' = [call EXCEPT ![c] = [call[c] EXCEPT !.at = to]]
    BY <1>10 DEF Confirm, Exchange, ResolveTxt, Goto
  <2>2. [call[c] EXCEPT !.at = to].at = to
    BY <1>0 DEF CallRecords
  <2>3. AllHandled'
    BY <2>1, <2>2, <1>h
  <2>4. QED
    BY <1>10, <2>3, <1>8 DEF Confirm, Exchange, ResolveTxt
<1>11. ASSUME NEW c \in Calls, NEW u \in Users,
              SettingsRead(c, u) \/ \E n \in Nonces : ProvisionRead(c, u, n)
       PROVE  CodesAreNamed'
  <2>1. CASE SettingsRead(c, u)
    BY <2>1, <1>8, <1>h DEF SettingsRead, Begin, Idle
  <2>2. CASE \E n \in Nonces : ProvisionRead(c, u, n)
    BY <2>2, <1>8, <1>h DEF ProvisionRead, Begin, Idle
  <2>3. QED
    BY <1>11, <2>1, <2>2
<1>12. CASE Restart
  BY <1>12, <1>8 DEF Restart, Idle
<1>13. CASE UNCHANGED <<pending, call>>
  BY <1>13, <1>8, <1>i
<1>14. QED
  BY <1>1, <1>3, <1>4, <1>5, <1>6, <1>7, <1>9, <1>10, <1>11, <1>12, <1>13
     DEF Next, Register, AdminDelete, AdminFee, ProvisionInit, ProvisionExpire, SyncLands,
         SyncFails, RegisterByWallet, vars

\* A call reaches a claim by a proof of control, and proofs are not forgotten.
LEMMA ClaimsStep == IInv /\ [Next]_vars => ClaimsAreProved'
<1> SUFFICES ASSUME IInv, [Next]_vars
             PROVE  ClaimsAreProved'
  OBVIOUS
<1>0. /\ call \in [Calls -> CallRecords]
      /\ proved \in [Users -> SUBSET Domains]
  BY DEF IInv, TypeOK
<1>s. /\ ClaimsAreProved
      /\ \A c \in Calls : call[c].at # "idle" => call[c].user \in Users
  BY DEF IInv, CallsCarry, Carries
<1>1. ASSUME NEW c \in Calls, Confirm(c) \/ ResolveTxt(c)
      PROVE  ClaimsAreProved'
  <2>1. PICK to \in {"claim", "provision"} : call' = [call EXCEPT ![c] = [call[c] EXCEPT !.at = to]]
    BY <1>1 DEF Confirm, ResolveTxt, Goto
  <2>2. /\ call'[c].user = call[c].user
        /\ call'[c].site = call[c].site
        /\ \A e \in Calls \ {c} : call'[e] = call[e]
    BY <1>0, <2>1 DEF CallRecords
  <2>3. /\ call[c].user \in Users
        /\ proved' = [proved EXCEPT ![call[c].user] = @ \cup {call[c].site}]
    BY <1>1, <1>s DEF Confirm, ResolveTxt, Goto
  <2>4. call'[c].site \in proved'[call'[c].user]
    BY <1>0, <2>2, <2>3
  <2>5. \A u \in Users : proved[u] \subseteq proved'[u]
    BY <1>0, <2>3
  <2>6. QED
    BY <1>s, <2>2, <2>4, <2>5 DEF ClaimsAreProved
<1>a. ASSUME UNCHANGED proved, NEW c \in Calls, NEW k, call' = [call EXCEPT ![c] = k],
             k.at \notin {"claim", "provision"}
      PROVE  ClaimsAreProved'
  BY <1>a, <1>0, <1>s DEF ClaimsAreProved
<1>2. ASSUME NEW c \in Calls, Claim(c) \/ Exchange(c)
      PROVE  ClaimsAreProved'
  <2>1. PICK to \in {"code", "discard"} : call' = [call EXCEPT ![c] = [call[c] EXCEPT !.at = to]]
    BY <1>2 DEF Claim, Exchange, Goto
  <2>2. [call[c] EXCEPT !.at = to].at = to
    BY <1>0 DEF CallRecords
  <2>3. QED
    BY <1>2, <1>a, <2>1, <2>2 DEF Claim, Exchange
<1>3. ASSUME NEW c \in Calls,
             SettingsWrite(c) \/ IssueCode(c) \/ Discard(c) \/ ProvisionWrite(c) \/ Abort(c)
      PROVE  ClaimsAreProved'
  BY <1>3, <1>a DEF SettingsWrite, IssueCode, Discard, ProvisionWrite, Abort, End, Idle
<1>b. ASSUME UNCHANGED proved, NEW c \in Calls, NEW rec, Begin(c, rec),
             rec.at \notin {"claim", "provision"}
      PROVE  ClaimsAreProved'
  BY <1>b, <1>a DEF Begin
<1>4. ASSUME UNCHANGED <<proved, call>>
      PROVE  ClaimsAreProved'
  BY <1>4, <1>s DEF ClaimsAreProved
<1>5. ASSUME NEW c \in Calls, NEW u \in Users, SettingsRead(c, u)
      PROVE  ClaimsAreProved'
  BY <1>5, <1>b DEF SettingsRead, Idle
<1>6. ASSUME NEW c \in Calls, NEW u \in Users, NEW h \in Handshakes, AuthorizeRead(c, u, h)
      PROVE  ClaimsAreProved'
  BY <1>6, <1>b, <1>4 DEF AuthorizeRead, Idle
<1>7. ASSUME NEW c \in Calls, NEW u \in Users, NEW n \in Nonces, ProvisionRead(c, u, n)
      PROVE  ClaimsAreProved'
  BY <1>7, <1>b DEF ProvisionRead, Idle
<1>8. ASSUME NEW c \in Calls, NEW h \in Handshakes, ExchangeRead(c, h)
      PROVE  ClaimsAreProved'
  BY <1>8, <1>b DEF ExchangeRead, Idle
<1>9. CASE Restart
  BY <1>9 DEF Restart, ClaimsAreProved, Idle
<1>10. QED
  BY <1>1, <1>2, <1>3, <1>4, <1>5, <1>6, <1>7, <1>8, <1>9
     DEF Next, Register, AdminDelete, AdminFee, ConnectInit, ConnectExpire, ProvisionInit,
         ProvisionExpire, SyncLands, SyncFails, RegisterByWallet, vars

\* A row keeps to proved domains until its creator types one, and a verified row
\* keeps a domain and a token.
LEMMA RowsStep == IInv /\ [Next]_vars => DomainsProved' /\ VerifiedIsComplete'
<1> SUFFICES ASSUME IInv, [Next]_vars
             PROVE  DomainsProved' /\ VerifiedIsComplete'
  OBVIOUS
<1>0. users \subseteq Users /\ row \in [Users -> Rows]
  BY DEF IInv, TypeOK
<1>s. DomainsProved /\ VerifiedIsComplete
  BY DEF IInv
<1>1. CASE UNCHANGED <<users, row, typed>> /\ \A u \in Users : proved[u] \subseteq proved'[u]
  BY <1>0, <1>1, <1>s DEF DomainsProved, VerifiedIsComplete
<1>2. ASSUME NEW u \in Users, NEW r \in Rows, GoodWrite(u, r)
      PROVE  DomainsProved' /\ VerifiedIsComplete'
  BY <1>0, <1>2, <1>s DEF GoodWrite, DomainsProved, VerifiedIsComplete
<1>3. ASSUME NEW u \in Users, Register(u)
      PROVE  DomainsProved' /\ VerifiedIsComplete'
  BY <1>3, <1>s DEF Register, NewRow, DomainsProved, VerifiedIsComplete
<1>4. ASSUME NEW u \in Users, AdminDelete(u)
      PROVE  DomainsProved' /\ VerifiedIsComplete'
  BY <1>0, <1>4, <1>s DEF AdminDelete, DomainsProved, VerifiedIsComplete
<1>5. QED
  BY <1>1, <1>2, <1>3, <1>4, RowSteps

\* A mirror carries what a verified row held when it was written.
LEMMA MirrorsStep == IInv /\ [Next]_vars => MirrorsHeld'
<1> SUFFICES ASSUME IInv, [Next]_vars
             PROVE  MirrorsHeld'
  OBVIOUS
<1>s. MirrorsHeld
  BY DEF IInv
<1>1. CASE \/ \E u \in Users : AdminFee(u)
           \/ \E c \in Calls : SettingsWrite(c) \/ Claim(c) \/ Exchange(c) \/ ProvisionWrite(c)
  <2>1. PICK u \in Users, r \in Rows : GoodWrite(u, r)
    BY <1>1, Writes
  <2>2. QED
    BY <2>1, <1>s DEF GoodWrite, MirrorsHeld
<1>2. CASE \E s \in syncs : SyncLands(s) \/ SyncFails(s)
  BY <1>2, <1>s DEF SyncLands, SyncFails, MirrorsHeld
<1>4. CASE \E o \in Offers : RegisterByWallet(o)
  BY <1>4, <1>s DEF RegisterByWallet, MirrorsHeld
<1>3. CASE UNCHANGED <<syncs, chain, own, held>>
  BY <1>3, <1>s DEF MirrorsHeld
<1>5. QED
  BY <1>1, <1>2, <1>3, <1>4
     DEF Next, vars, mirrorVars, Register, AdminDelete, SettingsRead, AuthorizeRead, ProvisionRead,
         ExchangeRead, Confirm, IssueCode, Discard, ResolveTxt, Abort, Restart, ConnectInit,
         ConnectExpire, ProvisionInit, ProvisionExpire

\* The inductive invariant holds throughout, for all the handlers of index.ts and
\* connect.ts that write a creator's row.
THEOREM TenantsInvariance == Spec => []IInv
<1>1. IInv /\ [Next]_vars => IInv'
  <2> SUFFICES ASSUME IInv, [Next]_vars
               PROVE  IInv'
    OBVIOUS
  <2>1. TypeOK'
    BY TypeStep DEF IInv
  <2>2. CallsCarry'
    BY CallsStep DEF IInv
  <2>3. CodesAreNamed'
    BY <2>1, CodesStep
  <2>4. ClaimsAreProved' /\ DomainsProved' /\ VerifiedIsComplete' /\ MirrorsHeld'
    BY ClaimsStep, RowsStep, MirrorsStep
  <2>5. QED
    BY <2>1, <2>2, <2>3, <2>4 DEF IInv
<1>2. QED
  BY Initial, <1>1, PTL DEF Spec

\* Every reachable state has the types that the columns and the handlers' locals have.
THEOREM TenantsTypeCorrect == Spec => []TypeOK
<1>1. IInv => TypeOK
  BY DEF IInv
<1>2. QED
  BY <1>1, TenantsInvariance, PTL

\* A verified row names a domain and has a token, however many handshakes,
\* provisionings and settings requests interleave, expire or fail.
THEOREM VerifiedComplete == Spec => []VerifiedIsComplete
<1>1. IInv => VerifiedIsComplete
  BY DEF IInv
<1>2. QED
  BY <1>1, TenantsInvariance, PTL

\* A creator that typed no domain into its settings is verified for a domain whose
\* control it has proved, by the nonce of a handshake or by a TXT record.
THEOREM VerifiedProved == Spec => []VerifiedIsProved
<1>1. IInv => VerifiedIsProved
  BY DEF IInv, VerifiedIsComplete, DomainsProved, VerifiedIsProved
<1>2. QED
  BY <1>1, TenantsInvariance, PTL

\* The service puts nothing under a domain but what a verified row for it said: any
\* other record of the contract was registered by the wallet that it pays.
THEOREM MirrorsVerified == Spec => []MirrorsAreVerifiedRows
<1>1. IInv => MirrorsAreVerifiedRows
  BY DEF IInv, MirrorsHeld, MirrorsAreVerifiedRows
<1>2. QED
  BY <1>1, TenantsInvariance, PTL

-----------------------------------------------------------------------------
(* The accounts.  A request is judged by what it is at and, where it       *)
(* decides about an address, by whether it has met another that does; an   *)
(* administrator's decision is followed through the requests that undo it  *)
(* or, for an address that registers again, restore it (DecidedHolds).     *)

TaskPcs == Ops \cup {"idle", "lookGrant", "applyGrant", "clearTokens", "createToken", "sendMail",
                     "markVerified", "dropTokens", "list", "setAccess", "recordGrant", "markInvited",
                     "acceptLogin", "gate", "acceptConsent", "reject", "forget", "average", "update"}
FlowPcs == Flowing \cup {"acceptLogin", "gate", "acceptConsent", "reject"}
Reputation == [humans : Nat, bots : Nat, average : Nat]
Marks == Tokens \cup {"humans", "bots", Null}
TaskRec == [pc : TaskPcs, req : Request \cup {Null}, uid : Nat \cup {Null}, token : Marks,
            alone : BOOLEAN, known : Reputation \cup {Null}]
TokenRow == [token : Tokens, email : Emails, uid : Nat, expiresAt : Nat]
PricedRec == [difficulty : Int, expiresAt : Nat, read : Reputation \cup {Null}, known : Reputation]

RowsOK ==
  /\ scene \in Scenes /\ ids \in Nat /\ now \in Nat
  /\ user \in [Emails -> UserRow \cup {Null}]
  /\ tokens \subseteq TokenRow /\ inbox \subseteq Marks
  /\ sessions \subseteq Emails /\ sso \subseteq Emails
  /\ flow \in [Flows -> FlowState \cup {Null}]
  /\ rep \in Reputation /\ challenge \in [Tasks -> PricedRec \cup {Null}]
  /\ late \in [Emails -> SUBSET Tasks]
  /\ decided \in [Emails -> [on : BOOLEAN, about : {"grant", "access"}] \cup {Null}]

\* A request that is at pc: what it may have asked for.
Fits(pc, r) ==
  /\ r \in Request
  /\ pc \notin Nameless \cup {"average", "update"} => r.email \in Emails
  /\ pc \in FlowPcs => r.op \in Flowing
  /\ r.op \in Flowing => r.flow \in Flows
  /\ pc \in {"register", "lookGrant", "applyGrant"} => r.op = "register"
  /\ pc \in {"grant", "recordGrant"} => r.op = "grant"
  /\ pc \in {"access", "delete", "verify", "consent", "consentAccept"} => r.op = pc
  /\ pc \in {"setAccess", "markInvited"} => r.op \in {"grant", "access"}
  /\ pc \in {"markVerified", "dropTokens"} => r.op = "verify"
  /\ pc \in {"gate", "acceptConsent"} => r.op \in {"consent", "consentAccept"}
TasksOK ==
  /\ task \in [Tasks -> TaskRec]
  /\ \A c \in Tasks : task[c].pc # "idle" =>
       /\ Fits(task[c].pc, task[c].req)
       /\ task[c].req.op \in Flowing => flow[task[c].req.flow] # Null

\* The requests that decide about an address; those that met no other are alone.
Deciders(e) == {c \in Tasks : task[c].pc # "idle" /\ task[c].req.op \in Deciding /\ task[c].req.email = e}
AloneIsAlone == \A e \in Emails : \A c, d \in Deciders(e) : c # d => ~task[c].alone

\* What a decision that met no other has done stands.
AloneHolds(c) ==
  task[c].pc \in {"recordGrant", "markInvited"} /\ task[c].alone =>
    /\ user[task[c].req.email] # Null => user[task[c].req.email].access = task[c].req.on
    /\ task[c].req.op = "grant" /\ task[c].pc = "markInvited" =>
         (task[c].req.email \in grants <=> task[c].req.on)
    /\ task[c].req.op = "access" => user[task[c].req.email] # Null
AloneDecides == \A c \in Tasks : AloneHolds(c)

\* A decision holds until another is about to be put down: for an address that is
\* registered, or is being registered and will be granted access in a moment.
Undoing(e) == \E c \in Deciders(e) : task[c].pc \in {"recordGrant", "markInvited"}
Granting(e, c) == c \in Deciders(e) /\ task[c].pc \in {"lookGrant", "applyGrant"}
Holding(e) ==
  /\ decided[e].about = "grant" => (e \in grants <=> decided[e].on)
  /\ decided[e].about = "access" => user[e] # Null
  /\ \A c \in Tasks : Granting(e, c) =>
       decided[e].about = "grant" /\ (task[c].pc = "applyGrant" => decided[e].on)
  /\ user[e] # Null /\ user[e].access # decided[e].on =>
       decided[e].on /\ \E c \in Tasks : Granting(e, c) /\ task[c].uid = user[e].id
DecidedHolds == \A e \in Emails : decided[e] # Null /\ ~Undoing(e) => Holding(e)

\* A request is late for an address that had no access since it arrived; a flow has
\* a subject once it is logged in.
LateHasNoAccess == \A e \in Emails : HasAccess(e) => late[e] = {}
SubjectsKnown == \A f \in Flows : flow[f] # Null /\ flow[f].state # "login" => flow[f].subject \in Emails
Passed(c, f) ==
  /\ task[c].pc = "acceptLogin" => f.subject \in Emails
  /\ task[c].pc \in {"gate", "acceptConsent", "reject"} => f.state # "login"
  /\ task[c].pc \in {"gate", "acceptConsent"} /\ task[c].req.op = "consentAccept" =>
       f.subject = task[c].req.email
  /\ task[c].pc = "acceptConsent" =>
       c \notin late[f.subject] /\ (Screen => f.skip \/ f.subject = task[c].req.email)
FlowsOK == \A c \in Tasks : task[c].pc \in FlowPcs => Passed(c, flow[task[c].req.flow])

\* Reputation only grows.
Knows(k) == k \in Reputation /\ k.humans <= rep.humans /\ k.bots <= rep.bots
TiersOK ==
  \A c \in Tasks : task[c].pc # "idle" =>
    /\ Knows(task[c].known)
    /\ task[c].pc \in {"average", "update"} => task[c].token \in {"humans", "bots"}

AccountsInv ==
  /\ RowsOK /\ TasksOK /\ AloneIsAlone /\ AloneDecides /\ DecidedHolds
  /\ LateHasNoAccess /\ SubjectsKnown /\ FlowsOK /\ ConnectedIsEntitled
  /\ TiersOK /\ TierIsInformed

\* The constants, for the provers.
LEMMA AccountsNulls ==
  /\ Null \notin Emails /\ Null \notin Flows /\ Null \notin Request /\ Null \notin UserRow /\ Null \notin FlowState
  /\ TokenTTL \in Nat /\ ChallengeTTL \in Nat
BY AccountsSets, AccountsConstants

LEMMA FreeIsTyped == Free \in TaskRec /\ Free.pc = "idle"
BY DEF Free, TaskRec, TaskPcs, Marks

\* The initial state satisfies the invariant.
LEMMA AccountsInitial == AccountsInit => AccountsInv
<1> SUFFICES ASSUME AccountsInit PROVE AccountsInv
  OBVIOUS
<1> USE DEF AccountsInit
<1>1. \A c \in Tasks : task[c] = Free
  OBVIOUS
<1>2. \A c \in Tasks : task[c].pc = "idle"
  BY <1>1, FreeIsTyped
<1>3. RowsOK
  <2>1. Cardinality(Emails) \in Nat
    BY AccountsSets, FS_CardinalityType
  <2>2. scene.users \in [Emails -> UserRow \cup {Null}] /\ scene.sessions \subseteq Emails
    BY ScenesAssumption
  <2>3. [humans |-> 0, bots |-> 0, average |-> 0] \in Reputation
    BY DEF Reputation
  <2>4. QED
    BY <2>1, <2>2, <2>3 DEF RowsOK
<1>4. TasksOK
  BY <1>2, FreeIsTyped DEF TasksOK
<1>5. AloneIsAlone /\ AloneDecides /\ DecidedHolds /\ FlowsOK
  BY <1>2 DEF AloneIsAlone, AloneDecides, AloneHolds, DecidedHolds, FlowsOK, Deciders, FlowPcs, Flowing
<1>6. LateHasNoAccess /\ SubjectsKnown /\ ConnectedIsEntitled /\ TiersOK /\ TierIsInformed
  BY <1>2 DEF LateHasNoAccess, SubjectsKnown, ConnectedIsEntitled, TiersOK, TierIsInformed
<1>7. QED
  BY <1>3, <1>4, <1>5, <1>6 DEF AccountsInv

-----------------------------------------------------------------------------
(* One request moves at a time. *)

\* It ends, or goes on as the request that it was.
Handled(c) ==
  /\ task' \in [Tasks -> TaskRec]
  /\ \A d \in Tasks : d # c => task'[d] = task[d]
  /\ task[c].pc # "idle"
  /\ task'[c].pc # "idle" =>
       /\ task'[c].req.op = task[c].req.op /\ task'[c].req.flow = task[c].req.flow
       /\ task[c].req.op # "verify" => task'[c].req = task[c].req
       /\ task'[c].alone = task[c].alone
       /\ Fits(task'[c].pc, task'[c].req)

LEMMA DoneMoves ==
  ASSUME TasksOK, NEW c \in Tasks, task[c].pc # "idle", Done(c)
  PROVE  Handled(c) /\ task'[c].pc = "idle"
BY FreeIsTyped DEF TasksOK, Done, Handled

LEMMA Becomes ==
  ASSUME TasksOK, NEW c \in Tasks, task[c].pc # "idle", NEW k \in TaskRec, task' = [task EXCEPT ![c] = k],
         k.alone = task[c].alone, k.req = task[c].req, Fits(k.pc, k.req)
  PROVE  Handled(c) /\ task'[c] = k
BY DEF TasksOK, Handled

LEMMA GoOnMoves ==
  ASSUME TasksOK, NEW c \in Tasks, task[c].pc # "idle", NEW pc \in TaskPcs, GoOn(c, pc),
         Fits(pc, task[c].req)
  PROVE  /\ Handled(c) /\ task'[c].pc = pc /\ task'[c].req = task[c].req /\ task'[c].uid = task[c].uid
         /\ task'[c].token = task[c].token /\ task'[c].known = task[c].known
<1> DEFINE k == [task[c] EXCEPT !.pc = pc]
<1>1. /\ k \in TaskRec /\ k.pc = pc /\ k.req = task[c].req /\ k.uid = task[c].uid
      /\ k.token = task[c].token /\ k.known = task[c].known /\ k.alone = task[c].alone
  BY DEF TasksOK, TaskRec
<1>2. task' = [task EXCEPT ![c] = k]
  BY DEF GoOn
<1> HIDE DEF k
<1>3. QED
  BY <1>1, <1>2, Becomes

\* ... with the user that it has found or made, ...
LEMMA UidMoves ==
  ASSUME TasksOK, NEW c \in Tasks, task[c].pc # "idle", NEW pc \in TaskPcs, NEW uid \in Nat,
         task' = [task EXCEPT ![c].pc = pc, ![c].uid = uid], Fits(pc, task[c].req)
  PROVE  /\ Handled(c) /\ task'[c].pc = pc /\ task'[c].req = task[c].req /\ task'[c].uid = uid
         /\ task'[c].known = task[c].known
<1> DEFINE k == [task[c] EXCEPT !.pc = pc, !.uid = uid]
<1>1. /\ k \in TaskRec /\ k.pc = pc /\ k.req = task[c].req /\ k.uid = uid
      /\ k.known = task[c].known /\ k.alone = task[c].alone
  BY DEF TasksOK, TaskRec
<1>2. task' = [task EXCEPT ![c] = k]
  OBVIOUS
<1> HIDE DEF k
<1>3. QED
  BY <1>1, <1>2, Becomes

\* ... or with a token.
LEMMA TokenMoves ==
  ASSUME TasksOK, NEW c \in Tasks, task[c].pc # "idle", NEW pc \in TaskPcs, NEW t \in Marks,
         task' = [task EXCEPT ![c].pc = pc, ![c].token = t], Fits(pc, task[c].req)
  PROVE  /\ Handled(c) /\ task'[c].pc = pc /\ task'[c].req = task[c].req /\ task'[c].token = t
         /\ task'[c].known = task[c].known
<1> DEFINE k == [task[c] EXCEPT !.pc = pc, !.token = t]
<1>1. /\ k \in TaskRec /\ k.pc = pc /\ k.req = task[c].req /\ k.token = t
      /\ k.known = task[c].known /\ k.alone = task[c].alone
  BY DEF TasksOK, TaskRec
<1>2. task' = [task EXCEPT ![c] = k]
  OBVIOUS
<1> HIDE DEF k
<1>3. QED
  BY <1>1, <1>2, Becomes

LEMMA MailingMoves ==
  ASSUME RowsOK, TasksOK, NEW c \in Tasks, Mailing(c)
  PROVE  Handled(c)
<1>1. task[c].pc # "idle" /\ Fits(task[c].pc, task[c].req)
  BY DEF Mailing, SignUp, LookGrant, ApplyGrant, ResendVerification, ClearTokens, CreateVerificationToken,
         SendVerificationEmail, VerifyEmail, MarkVerified, DropTokens, At, TasksOK
<1>2. CASE SignUp(c)
  <2>1. ids + 1 \in Nat
    BY DEF RowsOK
  <2>2. Fits("lookGrant", task[c].req)
    BY <1>1, <1>2 DEF SignUp, At, Fits, FlowPcs, Flowing, Nameless
  <2>3. QED
    BY <1>1, <1>2, <2>1, <2>2, UidMoves, DoneMoves DEF SignUp, TaskPcs
<1>3. CASE LookGrant(c) \/ ApplyGrant(c)
  <2>1. Fits("applyGrant", task[c].req) /\ Fits("clearTokens", task[c].req)
    BY <1>1, <1>3 DEF LookGrant, ApplyGrant, At, Fits, FlowPcs, Flowing, Nameless
  <2>2. "applyGrant" \in TaskPcs /\ "clearTokens" \in TaskPcs
    BY DEF TaskPcs
  <2>3. QED
    BY <1>1, <1>3, <2>1, <2>2, GoOnMoves, DoneMoves DEF LookGrant, ApplyGrant
<1>4. CASE ResendVerification(c) \/ ClearTokens(c)
  <2>1. At(c, "resend") => Fits("clearTokens", task[c].req)
    BY <1>1 DEF At, Fits, FlowPcs, Flowing, Nameless
  <2>2. At(c, "clearTokens") => Fits("createToken", task[c].req)
    BY <1>1 DEF At, Fits, FlowPcs, Flowing, Nameless
  <2>3. "createToken" \in TaskPcs /\ "clearTokens" \in TaskPcs
    BY DEF TaskPcs
  <2>4. At(c, "resend") /\ user[task[c].req.email] # Null => user[task[c].req.email].id \in Nat
    BY <1>1 DEF At, Fits, Nameless, RowsOK, UserRow
  <2>5. QED
    BY <1>1, <1>4, <2>1, <2>2, <2>3, <2>4, GoOnMoves, DoneMoves, UidMoves
       DEF ResendVerification, ClearTokens
<1>5. CASE CreateVerificationToken(c)
  <2>1. Fits("sendMail", task[c].req)
    BY <1>1, <1>5 DEF CreateVerificationToken, At, Fits, FlowPcs, Flowing, Nameless
  <2>2. "sendMail" \in TaskPcs /\ Tokens \subseteq Marks
    BY DEF TaskPcs, Marks
  <2>3. QED
    BY <1>1, <1>5, <2>1, <2>2, TokenMoves, DoneMoves DEF CreateVerificationToken
<1>6. CASE SendVerificationEmail(c) \/ DropTokens(c)
  BY <1>1, <1>6, DoneMoves DEF SendVerificationEmail, DropTokens
<1>7. CASE VerifyEmail(c)
  <2>1. CASE Done(c)
    BY <1>1, <2>1, DoneMoves
  <2>2. CASE ~Done(c)
    <3>1. PICK x \in Good(task[c].token) :
            task' = [task EXCEPT ![c].pc = "markVerified", ![c].uid = x.uid, ![c].req.email = x.email]
      BY <1>7, <2>2 DEF VerifyEmail
    <3>2. x.uid \in Nat /\ x.email \in Emails
      BY DEF Good, RowsOK, TokenRow
    <3> DEFINE r == [task[c].req EXCEPT !.email = x.email]
               k == [task[c] EXCEPT !.pc = "markVerified", !.uid = x.uid, !.req = r]
    <3>3. r \in Request /\ r.op = "verify" /\ r.flow = task[c].req.flow /\ r.email = x.email
      BY <1>1, <1>7, <3>2 DEF VerifyEmail, At, Fits, Request
    <3>4. Fits("markVerified", r)
      BY <1>1, <1>7, <3>2, <3>3 DEF VerifyEmail, At, Fits, FlowPcs, Flowing, Nameless
    <3>5. k = [[task[c] EXCEPT !.pc = "markVerified", !.uid = x.uid] EXCEPT !.req.email = x.email]
      BY DEF TasksOK, TaskRec
    <3>6. task' = [task EXCEPT ![c] = k]
      BY <3>1, <3>5 DEF TasksOK, TaskRec
    <3> HIDE DEF r
    <3>7. k \in TaskRec /\ k.pc = "markVerified" /\ k.req = r /\ k.alone = task[c].alone
      BY <3>2, <3>3 DEF TasksOK, TaskRec, TaskPcs
    <3> HIDE DEF k
    <3>8. task[c].req.op = "verify"
      BY <1>1, <1>7 DEF VerifyEmail, At, Fits
    <3>9. QED
      BY <1>1, <3>3, <3>4, <3>6, <3>7, <3>8 DEF Handled, TasksOK
  <2>3. QED
    BY <2>1, <2>2
<1>8. CASE MarkVerified(c)
  <2>1. Fits("dropTokens", task[c].req) /\ "dropTokens" \in TaskPcs
    BY <1>1, <1>8 DEF MarkVerified, At, Fits, FlowPcs, Flowing, Nameless, TaskPcs
  <2>2. QED
    BY <1>1, <1>8, <2>1, GoOnMoves, DoneMoves DEF MarkVerified
<1>9. QED
  BY <1>2, <1>3, <1>4, <1>5, <1>6, <1>7, <1>8 DEF Mailing

LEMMA AdministeringMoves ==
  ASSUME RowsOK, TasksOK, NEW c \in Tasks, Administering(c)
  PROVE  Handled(c)
<1>1. task[c].pc # "idle" /\ Fits(task[c].pc, task[c].req)
  BY DEF Administering, McpWaitlist, CreateListed, FindUser, SetEarlyAccess, RecordGrant, MarkInvited,
         DeleteCreator, At, TasksOK
<1>2. CASE McpWaitlist(c)
  <2>1. Fits("list", task[c].req) /\ "list" \in TaskPcs
    BY <1>1, <1>2 DEF McpWaitlist, At, Fits, FlowPcs, Flowing, Nameless, TaskPcs
  <2>2. QED
    BY <1>1, <1>2, <2>1, GoOnMoves, DoneMoves DEF McpWaitlist
<1>3. CASE FindUser(c)
  <2>1. Fits("setAccess", task[c].req) /\ (At(c, "grant") => Fits("recordGrant", task[c].req))
    BY <1>1, <1>3 DEF FindUser, At, Fits, FlowPcs, Flowing, Nameless
  <2>2. "setAccess" \in TaskPcs /\ "recordGrant" \in TaskPcs
    BY DEF TaskPcs
  <2>3. user[task[c].req.email] # Null => user[task[c].req.email].id \in Nat
    BY <1>1, <1>3 DEF FindUser, At, Fits, Nameless, RowsOK, UserRow
  <2>4. QED
    BY <1>1, <1>3, <2>1, <2>2, <2>3, GoOnMoves, DoneMoves, UidMoves DEF FindUser
<1>4. CASE SetEarlyAccess(c)
  <2>1. Fits("markInvited", task[c].req) /\ (task[c].req.op = "grant" => Fits("recordGrant", task[c].req))
    BY <1>1, <1>4 DEF SetEarlyAccess, At, Fits, FlowPcs, Flowing, Nameless
  <2>2. "markInvited" \in TaskPcs /\ "recordGrant" \in TaskPcs
    BY DEF TaskPcs
  <2>3. QED
    BY <1>1, <1>4, <2>1, <2>2, GoOnMoves, DoneMoves DEF SetEarlyAccess
<1>5. CASE RecordGrant(c)
  <2>1. Fits("markInvited", task[c].req) /\ "markInvited" \in TaskPcs
    BY <1>1, <1>5 DEF RecordGrant, At, Fits, FlowPcs, Flowing, Nameless, TaskPcs
  <2>2. QED
    BY <1>1, <1>5, <2>1, GoOnMoves DEF RecordGrant
<1>6. CASE CreateListed(c) \/ MarkInvited(c) \/ DeleteCreator(c)
  BY <1>1, <1>6, DoneMoves DEF CreateListed, MarkInvited, DeleteCreator
<1>7. QED
  BY <1>2, <1>3, <1>4, <1>5, <1>6 DEF Administering

LEMMA ConnectingMoves ==
  ASSUME RowsOK, TasksOK, NEW c \in Tasks, Connecting(c)
  PROVE  Handled(c)
<1>1. task[c].pc # "idle" /\ Fits(task[c].pc, task[c].req)
  BY DEF Connecting, Login, OauthLogin, AcceptLogin, Consent, SubjectHasMcpAccess, GrantConsent, RejectConsent,
         Logout, Forget, HydraFails, At, TasksOK
<1>2. CASE OauthLogin(c)
  <2>1. Fits("acceptLogin", task[c].req) /\ "acceptLogin" \in TaskPcs
    BY <1>1, <1>2 DEF OauthLogin, At, Fits, FlowPcs, Flowing, Nameless, TaskPcs
  <2>2. QED
    BY <1>1, <1>2, <2>1, GoOnMoves, DoneMoves DEF OauthLogin
<1>3. CASE Consent(c)
  <2>1. Fits("gate", task[c].req) /\ "gate" \in TaskPcs
    BY <1>1, <1>3 DEF Consent, At, Fits, FlowPcs, Flowing, Nameless, TaskPcs
  <2>2. QED
    BY <1>1, <1>3, <2>1, GoOnMoves, DoneMoves DEF Consent
<1>4. CASE SubjectHasMcpAccess(c)
  <2>1. Fits("acceptConsent", task[c].req) /\ Fits("reject", task[c].req)
    BY <1>1, <1>4 DEF SubjectHasMcpAccess, At, Fits, FlowPcs, Flowing, Nameless
  <2>2. "acceptConsent" \in TaskPcs /\ "reject" \in TaskPcs
    BY DEF TaskPcs
  <2>3. QED
    BY <1>1, <1>4, <2>1, <2>2, GoOnMoves, DoneMoves DEF SubjectHasMcpAccess
<1>5. CASE Logout(c)
  <2>1. Fits("forget", task[c].req) /\ "forget" \in TaskPcs
    BY <1>1, <1>5 DEF Logout, At, Fits, FlowPcs, Flowing, Nameless, TaskPcs
  <2>2. QED
    BY <1>1, <1>5, <2>1, GoOnMoves DEF Logout
<1>6. CASE Login(c) \/ AcceptLogin(c) \/ GrantConsent(c) \/ RejectConsent(c) \/ Forget(c) \/ HydraFails(c)
  BY <1>1, <1>6, DoneMoves DEF Login, AcceptLogin, GrantConsent, RejectConsent, Forget, HydraFails
<1>7. QED
  BY <1>2, <1>3, <1>4, <1>5, <1>6 DEF Connecting

LEMMA ProvingMoves ==
  ASSUME RowsOK, TasksOK, NEW c \in Tasks, Proving(c)
  PROVE  Handled(c)
<1>1. task[c].pc # "idle" /\ Fits(task[c].pc, task[c].req)
  BY DEF Proving, Challenge, VerifyHuman, ReadAverage, UpdateReputation, At, TasksOK
<1>2. CASE VerifyHuman(c)
  <2>1. Fits("average", task[c].req) /\ "average" \in TaskPcs /\ {"humans", "bots"} \subseteq Marks
    BY <1>1, <1>2 DEF VerifyHuman, At, Fits, FlowPcs, Flowing, Nameless, TaskPcs, Marks
  <2>2. QED
    BY <1>1, <1>2, <2>1, TokenMoves, DoneMoves DEF VerifyHuman
<1>3. CASE ReadAverage(c)
  <2> DEFINE k == [task[c] EXCEPT !.pc = "update", !.known = rep]
  <2>0. task[c] \in TaskRec /\ rep \in Reputation /\ "update" \in TaskPcs
    BY DEF TasksOK, RowsOK, TaskPcs
  <2>1. k \in TaskRec /\ k.pc = "update" /\ k.req = task[c].req /\ k.alone = task[c].alone
    BY <2>0 DEF TaskRec
  <2>2. task' = [task EXCEPT ![c] = k]
    BY <1>3 DEF ReadAverage
  <2> HIDE DEF k
  <2>3. Fits("update", task[c].req)
    BY <1>1, <1>3 DEF ReadAverage, At, Fits, FlowPcs, Flowing, Nameless
  <2>4. QED
    BY <1>1, <2>1, <2>2, <2>3, Becomes
<1>4. CASE Challenge(c) \/ UpdateReputation(c)
  BY <1>1, <1>4, DoneMoves DEF Challenge, UpdateReputation
<1>5. QED
  BY <1>2, <1>3, <1>4 DEF Proving

\* Every step of a handler.
LEMMA HandleMoves ==
  ASSUME RowsOK, TasksOK, NEW c \in Tasks, Handle(c)
  PROVE  Handled(c)
BY MailingMoves, AdministeringMoves, ConnectingMoves, ProvingMoves DEF Handle

\* A request that starts: who decides about the same address meets it.
StartsWith(c, r) ==
  /\ task' \in [Tasks -> TaskRec]
  /\ task'[c].pc = r.op /\ task'[c].req = r /\ task'[c].known = rep
  /\ task'[c].alone = \A x \in Tasks \ {c} : ~Meets(task[x].req, r)
  /\ \A d \in Tasks : d # c =>
       /\ task'[d].pc = task[d].pc /\ task'[d].req = task[d].req /\ task'[d].uid = task[d].uid
       /\ task'[d].token = task[d].token /\ task'[d].known = task[d].known
       /\ task'[d].alone = (task[d].alone /\ ~Meets(task[d].req, r))

LEMMA StartMoves ==
  ASSUME RowsOK, TasksOK, NEW c \in Tasks, Start(c)
  PROVE  \E r \in scene.asks[c] :
           /\ r \in Request /\ Fits(r.op, r) /\ (r.op \in Flowing => flow[r.flow] # Null)
           /\ StartsWith(c, r)
<1>1. PICK r \in scene.asks[c], t \in inbox \cup {Null} :
        /\ r.flow # Null => flow[r.flow] # Null
        /\ task' = [d \in Tasks |->
             IF d = c
             THEN [Free EXCEPT !.pc = r.op, !.req = r, !.token = t,
                               !.alone = \A x \in Tasks \ {c} : ~Meets(task[x].req, r),
                               !.known = rep]
             ELSE IF Meets(task[d].req, r) THEN [task[d] EXCEPT !.alone = FALSE] ELSE task[d]]
  BY DEF Start
<1>2. r \in Request /\ (r.email = Null => r.op \in Nameless) /\ (r.op \in Flowing => r.flow # Null)
  BY ScenesAssumption DEF RowsOK
<1>3. Fits(r.op, r)
  BY <1>2 DEF Fits, Request, FlowPcs, Ops, Nameless, Flowing
<1> DEFINE alone == \A x \in Tasks \ {c} : ~Meets(task[x].req, r)
           k == [Free EXCEPT !.pc = r.op, !.req = r, !.token = t, !.alone = alone, !.known = rep]
<1>4. alone \in BOOLEAN /\ t \in Marks /\ rep \in Reputation /\ r.op \in TaskPcs
  BY <1>2 DEF RowsOK, Marks, Request, TaskPcs
<1>5. task'[c] = k
  BY <1>1
<1> HIDE DEF alone
<1>6. k \in TaskRec /\ k.pc = r.op /\ k.req = r /\ k.known = rep /\ k.alone = alone
  BY <1>2, <1>4, FreeIsTyped DEF TaskRec, Free
<1>7. ASSUME NEW d \in Tasks, d # c
      PROVE  /\ task'[d] \in TaskRec
             /\ task'[d].pc = task[d].pc /\ task'[d].req = task[d].req /\ task'[d].uid = task[d].uid
             /\ task'[d].token = task[d].token /\ task'[d].known = task[d].known
             /\ task'[d].alone = (task[d].alone /\ ~Meets(task[d].req, r))
  <2>1. task[d] \in TaskRec
    BY DEF TasksOK
  <2>2. CASE Meets(task[d].req, r)
    <3>1. task'[d] = [task[d] EXCEPT !.alone = FALSE]
      BY <1>1, <1>7, <2>2
    <3>2. QED
      BY <2>1, <2>2, <3>1 DEF TaskRec
  <2>3. CASE ~Meets(task[d].req, r)
    <3>1. task'[d] = task[d]
      BY <1>1, <1>7, <2>3
    <3>2. task[d].alone \in BOOLEAN
      BY <2>1 DEF TaskRec
    <3>3. QED
      BY <2>1, <2>3, <3>1, <3>2
  <2>4. QED
    BY <2>2, <2>3
<1>8. task' \in [Tasks -> TaskRec]
  <2>1. \A d \in Tasks : task'[d] \in TaskRec
    BY <1>5, <1>6, <1>7
  <2>2. QED
    BY <1>1, <2>1
<1> HIDE DEF k
<1>9. StartsWith(c, r)
  BY <1>5, <1>6, <1>7, <1>8 DEF StartsWith, alone
<1>10. flow[r.flow] # Null \/ r.op \notin Flowing
  BY <1>1, <1>2
<1>11. QED
  BY <1>2, <1>3, <1>9, <1>10

\* Nobody is at work after a restart.
LEMMA CrashMoves ==
  ASSUME Crash
  PROVE  task' \in [Tasks -> TaskRec] /\ \A c \in Tasks : task'[c].pc = "idle"
BY FreeIsTyped DEF Crash

\* A flow that has begun stays.
LEMMA FlowStays ==
  ASSUME RowsOK, TasksOK, [AccountsNext]_accountsVars
  PROVE  /\ flow' \in [Flows -> FlowState \cup {Null}]
         /\ \A f \in Flows : flow[f] # Null => flow'[f] # Null
<1>1. flow \in [Flows -> FlowState \cup {Null}] /\ Null \notin FlowState
  BY AccountsNulls DEF RowsOK
<1>2. CASE UNCHANGED flow
  BY <1>1, <1>2
<1>3. ASSUME NEW f \in Flows, NEW e \in scene.browsers, StartFlow(f, e)
      PROVE  flow' \in [Flows -> FlowState \cup {Null}] /\ \A g \in Flows : flow[g] # Null => flow'[g] # Null
  <2> DEFINE n == [state |-> "login", subject |-> IF e \in sso THEN e ELSE Null,
                   skip |-> FALSE, by |-> Null, entitled |-> FALSE]
  <2>1. n \in FlowState
    BY DEF FlowState, RowsOK
  <2>2. flow' = [flow EXCEPT ![f] = n]
    BY <1>3 DEF StartFlow
  <2> HIDE DEF n
  <2>3. QED
    BY <1>1, <2>1, <2>2
<1>4. ASSUME NEW c \in Tasks, AcceptLogin(c)
      PROVE  flow' \in [Flows -> FlowState \cup {Null}] /\ \A g \in Flows : flow[g] # Null => flow'[g] # Null
  <2>1. PICK f, e : /\ f = task[c].req.flow
                    /\ e = IF At(c, "acceptLogin") THEN flow[f].subject ELSE task[c].req.email
                    /\ flow' = flow \/ flow' = [flow EXCEPT ![f].state = "consent", ![f].subject = e,
                                                            ![f].skip = e \in remembered]
    BY <1>4 DEF AcceptLogin, LoggedIn
  <2>2. f \in Flows /\ flow[f] \in FlowState /\ (At(c, "loginAccept") => task[c].req.email \in Emails)
    BY <1>1, <1>4, <2>1 DEF TasksOK, AcceptLogin, At, Fits, FlowPcs, Flowing, Nameless
  <2>3. e \in Emails \cup {Null}
    BY <1>4, <2>1, <2>2 DEF AcceptLogin, FlowState
  <2> DEFINE skip == e \in remembered
             n == [flow[f] EXCEPT !.state = "consent", !.subject = e, !.skip = skip]
  <2>4. skip \in BOOLEAN
    OBVIOUS
  <2>5. flow' = flow \/ flow' = [flow EXCEPT ![f] = n]
    BY <2>1
  <2> HIDE DEF skip
  <2>6. n \in FlowState
    BY <2>2, <2>3, <2>4 DEF FlowState
  <2> HIDE DEF n
  <2>7. QED
    BY <1>1, <2>2, <2>5, <2>6
<1>5. ASSUME NEW c \in Tasks, GrantConsent(c)
      PROVE  flow' \in [Flows -> FlowState \cup {Null}] /\ \A g \in Flows : flow[g] # Null => flow'[g] # Null
  <2> DEFINE f == task[c].req.flow
             entitled == c \notin late[flow[f].subject]
  <2>1. \/ flow' = flow
        \/ flow' = [flow EXCEPT ![f].state = "connected", ![f].by = task[c].req.email,
                                ![f].entitled = entitled]
    BY <1>5 DEF GrantConsent, AcceptConsent
  <2>2. f \in Flows /\ flow[f] \in FlowState /\ task[c].req.email \in Emails
    BY <1>1, <1>5, <2>1 DEF TasksOK, GrantConsent, At, Fits, FlowPcs, Flowing, Nameless
  <2> DEFINE n == [flow[f] EXCEPT !.state = "connected", !.by = task[c].req.email, !.entitled = entitled]
  <2>0. entitled \in BOOLEAN
    OBVIOUS
  <2>4. flow' = flow \/ flow' = [flow EXCEPT ![f] = n]
    BY <2>1
  <2> HIDE DEF entitled, f
  <2>3. n \in FlowState
    BY <2>0, <2>2 DEF FlowState
  <2> HIDE DEF n
  <2>5. QED
    BY <1>1, <2>2, <2>3, <2>4
<1>6. ASSUME NEW c \in Tasks, RejectConsent(c)
      PROVE  flow' \in [Flows -> FlowState \cup {Null}] /\ \A g \in Flows : flow[g] # Null => flow'[g] # Null
  <2>1. PICK f : /\ f = task[c].req.flow
                 /\ flow' = flow \/ flow' = [flow EXCEPT ![f].state = "rejected"]
    BY <1>6 DEF RejectConsent
  <2>2. f \in Flows /\ flow[f] \in FlowState
    BY <1>1, <1>6, <2>1 DEF TasksOK, RejectConsent, At, Fits, FlowPcs, Flowing
  <2> DEFINE n == [flow[f] EXCEPT !.state = "rejected"]
  <2>3. n \in FlowState
    BY <2>2 DEF FlowState
  <2>4. flow' = flow \/ flow' = [flow EXCEPT ![f] = n]
    BY <2>1
  <2> HIDE DEF n
  <2>5. QED
    BY <1>1, <2>2, <2>3, <2>4
<1>7. ASSUME NEW c \in Tasks, Start(c) \/ Handle(c)
      PROVE  UNCHANGED flow \/ AcceptLogin(c) \/ GrantConsent(c) \/ RejectConsent(c)
  BY <1>7 DEF Start, Handle, Mailing, SignUp, LookGrant, ApplyGrant, ResendVerification, ClearTokens,
       CreateVerificationToken, SendVerificationEmail, VerifyEmail, MarkVerified, DropTokens,
       Administering, McpWaitlist, CreateListed, FindUser, SetEarlyAccess, RecordGrant, MarkInvited,
       DeleteCreator, Connecting, Login, OauthLogin, Consent, SubjectHasMcpAccess, Logout, Forget, HydraFails,
       Proving, Challenge, VerifyHuman, ReadAverage, UpdateReputation, hydra
<1>8. QED
  BY <1>2, <1>3, <1>4, <1>5, <1>6, <1>7 DEF AccountsNext, Crash, Tick, hydra, accountsVars

\* What a request may be at, after every step.
LEMMA TasksStep ==
  ASSUME AccountsInv, [AccountsNext]_accountsVars
  PROVE  TasksOK'
<1>1. RowsOK /\ TasksOK
  BY DEF AccountsInv
<1>2. \A f \in Flows : flow[f] # Null => flow'[f] # Null
  BY <1>1, FlowStays
<1>3. ASSUME NEW c \in Tasks, Handled(c)
      PROVE  TasksOK'
  BY <1>1, <1>2, <1>3 DEF Handled, TasksOK, Fits
<1>4. ASSUME NEW c \in Tasks, Start(c)
      PROVE  TasksOK'
  <2>1. PICK r : /\ r \in Request /\ Fits(r.op, r) /\ (r.op \in Flowing => flow[r.flow] # Null)
                 /\ StartsWith(c, r)
    BY <1>1, <1>4, StartMoves
  <2>2. QED
    BY <1>1, <1>2, <2>1 DEF StartsWith, TasksOK, Fits
<1>5. CASE Crash
  BY <1>5, CrashMoves DEF TasksOK
<1>6. CASE UNCHANGED task
  BY <1>1, <1>2, <1>6 DEF TasksOK, Fits
<1>7. QED
  BY <1>1, <1>3, <1>4, <1>5, <1>6, HandleMoves DEF AccountsNext, Tick, StartFlow, accountsVars

\* Of two requests that decide about an address, neither is alone.
LEMMA AloneStep ==
  ASSUME AccountsInv, [AccountsNext]_accountsVars
  PROVE  AloneIsAlone'
<1>1. RowsOK /\ TasksOK /\ AloneIsAlone
  BY DEF AccountsInv
<1>3. ASSUME NEW c \in Tasks, Handled(c)
      PROVE  AloneIsAlone'
  <2>1. \A d \in Tasks : task'[d].pc # "idle" /\ task'[d].req.op \in Deciding =>
          /\ task[d].pc # "idle" /\ task'[d].req = task[d].req /\ task'[d].alone = task[d].alone
    BY <1>3 DEF Handled, Deciding
  <2>2. QED
    BY <1>1, <2>1 DEF AloneIsAlone, Deciders
<1>4. ASSUME NEW c \in Tasks, Start(c)
      PROVE  AloneIsAlone'
  <2>1. PICK r : r \in Request /\ Fits(r.op, r) /\ StartsWith(c, r)
    BY <1>1, <1>4, StartMoves
  <2> SUFFICES ASSUME NEW e \in Emails, NEW x \in Deciders(e)', NEW y \in Deciders(e)', x # y
               PROVE  ~task'[x].alone
    BY DEF AloneIsAlone
  <2>2. ASSUME NEW d \in Tasks, d # c, d \in Deciders(e)'
        PROVE  d \in Deciders(e) /\ (task'[d].alone => task[d].alone)
    BY <2>1, <2>2 DEF StartsWith, Deciders
  <2>3. ASSUME NEW d \in Tasks, d # c, d \in Deciders(e)', c \in Deciders(e)'
        PROVE  Meets(task[d].req, r)
    <3>1. d \in Deciders(e) /\ r.op \in Deciding /\ r.email = e
      BY <2>1, <2>2, <2>3 DEF StartsWith, Deciders
    <3>2. task[d].req # Null
      BY <1>1, <3>1, AccountsNulls DEF TasksOK, Deciders, Fits
    <3>3. QED
      BY <3>1, <3>2 DEF Meets, Deciders
  <2>4. x \in Tasks /\ y \in Tasks
    BY DEF Deciders
  <2>5. CASE x # c /\ y # c
    BY <1>1, <2>2, <2>4, <2>5 DEF AloneIsAlone
  <2>6. CASE x = c
    BY <2>1, <2>3, <2>4, <2>6 DEF StartsWith
  <2>7. CASE y = c
    BY <2>1, <2>3, <2>4, <2>7 DEF StartsWith
  <2>8. QED
    BY <2>5, <2>6, <2>7
<1>5. CASE Crash
  BY <1>5, CrashMoves DEF AloneIsAlone, Deciders
<1>6. CASE UNCHANGED task
  BY <1>1, <1>6 DEF AloneIsAlone, Deciders
<1>7. QED
  BY <1>1, <1>3, <1>4, <1>5, <1>6, HandleMoves DEF AccountsNext, Tick, StartFlow, accountsVars

-----------------------------------------------------------------------------
(* The rows. *)

LEMMA SetAccessMakes ==
  ASSUME RowsOK, NEW c, NEW e \in Emails, user[e] # Null, NEW on \in BOOLEAN, SetAccess(c, e, on)
  PROVE  /\ user' \in [Emails -> UserRow \cup {Null}]
         /\ user'[e] # Null /\ user'[e].access = on
         /\ \A x \in Emails : x # e => user'[x] = user[x]
         /\ late' \in [Emails -> SUBSET Tasks]
         /\ on => late'[e] = {}
         /\ \A x \in Emails : late'[x] = late[x] \/ late'[x] = {}
<1>1. user[e] \in UserRow /\ Null \notin UserRow
  BY AccountsNulls DEF RowsOK
<1> DEFINE n == [user[e] EXCEPT !.access = on]
<1>2. n \in UserRow /\ n.access = on
  BY <1>1 DEF UserRow
<1>3. user' = [user EXCEPT ![e] = n] /\ late' = IF on THEN [late EXCEPT ![e] = {}] ELSE late
  BY DEF SetAccess
<1> HIDE DEF n
<1>4. QED
  BY <1>1, <1>2, <1>3 DEF RowsOK

LEMMA MarkVerifiedMakes ==
  ASSUME RowsOK, TasksOK, NEW c \in Tasks, MarkVerified(c)
  PROVE  /\ user' \in [Emails -> UserRow \cup {Null}]
         /\ \A x \in Emails : /\ user'[x] = Null <=> user[x] = Null
                              /\ user[x] # Null => user'[x].access = user[x].access /\ user'[x].id = user[x].id
<1>1. user' = user \/ /\ user[task[c].req.email] # Null
                      /\ user' = [user EXCEPT ![task[c].req.email].verified = TRUE]
  BY DEF MarkVerified, Is
<1>2. task[c].req.email \in Emails
  BY DEF MarkVerified, At, TasksOK, Fits, Nameless
<1> DEFINE e == task[c].req.email
           n == [user[e] EXCEPT !.verified = TRUE]
<1>3. CASE user[e] # Null /\ user' = [user EXCEPT ![e] = n]
  <2>1. user[e] \in UserRow /\ Null \notin UserRow
    BY <1>2, <1>3, AccountsNulls DEF RowsOK
  <2>2. n \in UserRow /\ n.access = user[e].access /\ n.id = user[e].id
    BY <2>1 DEF UserRow
  <2> HIDE DEF n
  <2>3. QED
    BY <1>2, <1>3, <2>1, <2>2 DEF RowsOK
<1>4. CASE user' = user
  BY <1>4 DEF RowsOK
<1>5. QED
  BY <1>1, <1>3, <1>4

\* The users, their ids, and who is late, after every step.
LEMMA UsersStep ==
  ASSUME RowsOK, TasksOK, [AccountsNext]_accountsVars
  PROVE  user' \in [Emails -> UserRow \cup {Null}] /\ ids' \in Nat /\ late' \in [Emails -> SUBSET Tasks]
<1>1. CASE UNCHANGED <<user, ids, late>>
  BY <1>1 DEF RowsOK
<1>2. ASSUME NEW c \in Tasks, SignUp(c)
      PROVE  user' \in [Emails -> UserRow \cup {Null}] /\ ids' \in Nat /\ late' \in [Emails -> SUBSET Tasks]
  <2>1. NewUser(ids + 1) \in UserRow /\ ids + 1 \in Nat
    BY DEF NewUser, UserRow, RowsOK
  <2>2. QED
    BY <1>2, <2>1 DEF SignUp, RowsOK
<1>3. ASSUME NEW c \in Tasks, ApplyGrant(c) \/ SetEarlyAccess(c)
      PROVE  user' \in [Emails -> UserRow \cup {Null}] /\ ids' \in Nat /\ late' \in [Emails -> SUBSET Tasks]
  <2>1. task[c].req.email \in Emails /\ task[c].req.on \in BOOLEAN
    BY <1>3 DEF ApplyGrant, SetEarlyAccess, At, TasksOK, Fits, Nameless, Request
  <2>2. ids' = ids
    BY <1>3 DEF ApplyGrant, SetEarlyAccess
  <2>3. UNCHANGED <<user, late>>
        \/ \E on \in BOOLEAN : user[task[c].req.email] # Null /\ SetAccess(c, task[c].req.email, on)
    BY <1>3, <2>1 DEF ApplyGrant, SetEarlyAccess, Is
  <2>4. CASE UNCHANGED <<user, late>>
    BY <2>2, <2>4 DEF RowsOK
  <2>5. CASE \E on \in BOOLEAN : user[task[c].req.email] # Null /\ SetAccess(c, task[c].req.email, on)
    <3>1. user' \in [Emails -> UserRow \cup {Null}] /\ late' \in [Emails -> SUBSET Tasks]
      BY <2>1, <2>5, SetAccessMakes
    <3>2. QED
      BY <2>2, <3>1 DEF RowsOK
  <2>6. QED
    BY <2>3, <2>4, <2>5
<1>4. ASSUME NEW c \in Tasks, MarkVerified(c)
      PROVE  user' \in [Emails -> UserRow \cup {Null}] /\ ids' \in Nat /\ late' \in [Emails -> SUBSET Tasks]
  BY <1>4, MarkVerifiedMakes DEF MarkVerified, RowsOK
<1>5. ASSUME NEW c \in Tasks, DeleteCreator(c)
      PROVE  user' \in [Emails -> UserRow \cup {Null}] /\ ids' \in Nat /\ late' \in [Emails -> SUBSET Tasks]
  BY <1>5 DEF DeleteCreator, RowsOK
<1>6. ASSUME NEW c \in Tasks, Start(c)
      PROVE  user' \in [Emails -> UserRow \cup {Null}] /\ ids' \in Nat /\ late' \in [Emails -> SUBSET Tasks]
  BY <1>6 DEF Start, RowsOK
<1>7. ASSUME NEW c \in Tasks, Handle(c)
      PROVE  \/ UNCHANGED <<user, ids, late>>
             \/ SignUp(c) \/ ApplyGrant(c) \/ SetEarlyAccess(c) \/ MarkVerified(c) \/ DeleteCreator(c)
  BY <1>7 DEF Handle, Mailing, LookGrant, ResendVerification, ClearTokens,
       CreateVerificationToken, SendVerificationEmail, VerifyEmail, DropTokens,
       Administering, McpWaitlist, CreateListed, FindUser, RecordGrant, MarkInvited,
       Connecting, Login, OauthLogin, AcceptLogin, Consent, SubjectHasMcpAccess, GrantConsent,
       RejectConsent, Logout, Forget, HydraFails, Proving, Challenge, VerifyHuman, ReadAverage, UpdateReputation
<1>8. QED
  BY <1>1, <1>2, <1>3, <1>4, <1>5, <1>6, <1>7 DEF AccountsNext, Crash, Tick, StartFlow, accountsVars

\* The tokens, their links, and the sessions.
LEMMA MailStep ==
  ASSUME RowsOK, TasksOK, FlowsOK, [AccountsNext]_accountsVars
  PROVE  /\ tokens' \subseteq TokenRow /\ inbox' \subseteq Marks
         /\ sessions' \subseteq Emails /\ sso' \subseteq Emails
<1>0. tokens \subseteq TokenRow /\ inbox \subseteq Marks /\ sessions \subseteq Emails /\ sso \subseteq Emails
  BY DEF RowsOK
<1>1. CASE UNCHANGED <<tokens, inbox, sessions, sso>>
  BY <1>0, <1>1
<1>2. ASSUME NEW c \in Tasks, CreateVerificationToken(c)
      PROVE  tokens' \subseteq TokenRow /\ UNCHANGED <<inbox, sessions, sso>>
  <2>1. task[c].req.email \in Emails
    BY <1>2 DEF CreateVerificationToken, At, TasksOK, Fits, Nameless
  <2>2. now + TokenTTL \in Nat
    BY AccountsNulls DEF RowsOK
  <2>3. CASE Is(task[c].req.email, task[c].uid)
    <3>1. task[c].uid \in Nat
      BY <2>1, <2>3 DEF Is, RowsOK, UserRow
    <3>2. PICK t \in Tokens : tokens' = tokens \cup {[token |-> t, email |-> task[c].req.email,
                                 uid |-> task[c].uid, expiresAt |-> now + TokenTTL]}
      BY <1>2, <2>3 DEF CreateVerificationToken
    <3>3. QED
      BY <1>0, <1>2, <2>1, <2>2, <3>1, <3>2 DEF TokenRow, CreateVerificationToken, hydra
  <2>4. CASE ~Is(task[c].req.email, task[c].uid)
    BY <1>0, <1>2, <2>4 DEF CreateVerificationToken, hydra
  <2>5. QED
    BY <2>3, <2>4
<1>3. ASSUME NEW c \in Tasks, ClearTokens(c) \/ DropTokens(c) \/ DeleteCreator(c)
      PROVE  tokens' \subseteq tokens /\ UNCHANGED <<inbox, sso>> /\ sessions' \subseteq Emails
  BY <1>0, <1>3 DEF ClearTokens, DropTokens, DeleteCreator, hydra, At, TasksOK, Fits, Nameless
<1>4. ASSUME NEW c \in Tasks, SendVerificationEmail(c) \/ VerifyEmail(c)
      PROVE  inbox' \subseteq Marks /\ UNCHANGED <<tokens, sessions, sso>>
  <2>1. task[c].token \in Marks
    BY DEF TasksOK, TaskRec
  <2>2. QED
    BY <1>0, <1>4, <2>1 DEF SendVerificationEmail, VerifyEmail, hydra
<1>5. ASSUME NEW c \in Tasks, Login(c) \/ AcceptLogin(c) \/ Logout(c)
      PROVE  sessions' \subseteq Emails /\ sso' \subseteq Emails /\ UNCHANGED <<tokens, inbox>>
  <2>1. CASE Login(c)
    BY <1>0, <2>1 DEF Login, mail, hydra, At, TasksOK, Fits, Nameless
  <2>2. CASE Logout(c)
    BY <1>0, <2>2 DEF Logout, mail
  <2>3. CASE AcceptLogin(c)
    <3> DEFINE f == task[c].req.flow
               e == IF At(c, "acceptLogin") THEN flow[f].subject ELSE task[c].req.email
    <3>1. UNCHANGED <<tokens, inbox, sessions>> /\ (sso' = sso \/ (flow[f].subject = Null /\ sso' = sso \cup {e}))
      BY <2>3 DEF AcceptLogin, LoggedIn, mail
    <3>2. e \in Emails
      BY <2>3 DEF AcceptLogin, At, TasksOK, Fits, Nameless, FlowsOK, Passed, FlowPcs
    <3>3. QED
      BY <1>0, <3>1, <3>2
  <2>4. QED
    BY <1>5, <2>1, <2>2, <2>3
<1>6. ASSUME NEW c \in Tasks, Handle(c) \/ Start(c)
      PROVE  \/ UNCHANGED <<tokens, inbox, sessions, sso>>
             \/ CreateVerificationToken(c) \/ ClearTokens(c) \/ DropTokens(c) \/ DeleteCreator(c)
             \/ SendVerificationEmail(c) \/ VerifyEmail(c) \/ Login(c) \/ AcceptLogin(c) \/ Logout(c)
  BY <1>6 DEF Start, Handle, Mailing, SignUp, LookGrant, ApplyGrant, ResendVerification, MarkVerified,
       Administering, McpWaitlist, CreateListed, FindUser, SetEarlyAccess, RecordGrant, MarkInvited,
       Connecting, OauthLogin, Consent, SubjectHasMcpAccess, GrantConsent, RejectConsent, Forget, HydraFails,
       Proving, Challenge, VerifyHuman, ReadAverage, UpdateReputation, mail, hydra
<1>7. QED
  BY <1>0, <1>1, <1>2, <1>3, <1>4, <1>5, <1>6 DEF AccountsNext, Crash, Tick, StartFlow, accountsVars, mail, hydra

\* The reputation, the challenges and what is recorded.
LEMMA HumanStep ==
  ASSUME RowsOK, TasksOK, TiersOK, [AccountsNext]_accountsVars
  PROVE  /\ rep' \in Reputation /\ rep'.humans >= rep.humans /\ rep'.bots >= rep.bots
         /\ challenge' \in [Tasks -> PricedRec \cup {Null}]
         /\ \A c \in Tasks : challenge'[c] = challenge[c] \/ challenge'[c] = Null
              \/ /\ challenge'[c].read = rep \/ challenge'[c].read = Null
                 /\ challenge'[c].known = task[c].known /\ task[c].pc # "idle"
<1>0. rep \in Reputation /\ challenge \in [Tasks -> PricedRec \cup {Null}] /\ now \in Nat
  BY DEF RowsOK
<1>1. CASE UNCHANGED human
  BY <1>0, <1>1 DEF human, Reputation
<1>2. ASSUME NEW c \in Tasks, UpdateReputation(c)
      PROVE  /\ rep' \in Reputation /\ rep'.humans >= rep.humans /\ rep'.bots >= rep.bots
             /\ challenge' = challenge
  <2>1. /\ task[c].token \in {"humans", "bots"} /\ task[c].known \in Reputation
    BY <1>2 DEF UpdateReputation, At, TiersOK, Knows
  <2>2. rep' = rep \/ rep' = [rep EXCEPT ![task[c].token] = @ + 1, !.average = task[c].known.average + 1]
    BY <1>2 DEF UpdateReputation, Counted
  <2>3. task[c].known.average + 1 \in Nat
    BY <2>1 DEF Reputation
  <2>4. \/ rep' = rep
        \/ rep' = [rep EXCEPT !.humans = @ + 1, !.average = task[c].known.average + 1]
        \/ rep' = [rep EXCEPT !.bots = @ + 1, !.average = task[c].known.average + 1]
    BY <2>1, <2>2
  <2> DEFINE n == task[c].known.average + 1
  <2> HIDE DEF n
  <2>0. challenge' = challenge
    BY <1>2 DEF UpdateReputation
  <2>a. n \in Nat /\ rep.humans \in Nat /\ rep.bots \in Nat
    BY <1>0, <2>3 DEF Reputation, n
  <2>5. CASE rep' = [rep EXCEPT !.humans = @ + 1, !.average = n]
    <3>0. PICK h, b, a \in Nat : rep = [humans |-> h, bots |-> b, average |-> a]
      BY <1>0 DEF Reputation
    <3>1. rep' = [humans |-> h + 1, bots |-> b, average |-> n]
      BY <2>5, <3>0
    <3>4. h + 1 \in Nat
      OBVIOUS
    <3>5. rep' \in Reputation
      BY <2>a, <3>1, <3>4 DEF Reputation
    <3>2. rep'.humans = rep.humans + 1 /\ rep'.bots = rep.bots
      BY <1>0, <2>5 DEF Reputation
    <3>3. QED
      BY <2>0, <2>a, <3>2, <3>5
  <2>6. CASE rep' = [rep EXCEPT !.bots = @ + 1, !.average = n]
    <3>0. PICK h, b, a \in Nat : rep = [humans |-> h, bots |-> b, average |-> a]
      BY <1>0 DEF Reputation
    <3>1. rep' = [humans |-> h, bots |-> b + 1, average |-> n]
      BY <2>6, <3>0
    <3>4. b + 1 \in Nat
      OBVIOUS
    <3>5. rep' \in Reputation
      BY <2>a, <3>1, <3>4 DEF Reputation
    <3>2. rep'.humans = rep.humans /\ rep'.bots = rep.bots + 1
      BY <1>0, <2>6 DEF Reputation
    <3>3. QED
      BY <2>0, <2>a, <3>2, <3>5
  <2>7. CASE rep' = rep
    BY <1>0, <2>0, <2>7 DEF Reputation
  <2>8. QED
    BY <2>4, <2>5, <2>6, <2>7 DEF n
<1>3. ASSUME NEW c \in Tasks, Challenge(c)
      PROVE  /\ rep' = rep /\ challenge' \in [Tasks -> PricedRec \cup {Null}]
             /\ \A d \in Tasks : d # c => challenge'[d] = challenge[d]
             /\ challenge'[c].read = rep \/ challenge'[c].read = Null
             /\ challenge'[c].known = task[c].known /\ task[c].pc # "idle"
  <2>1. PICK r \in {rep, Null} :
          challenge' = [challenge EXCEPT ![c] =
            [difficulty |-> AdaptDifficulty(IF r = Null THEN "standard" ELSE Tier(r)),
             expiresAt |-> now + ChallengeTTL, read |-> r, known |-> task[c].known]]
    BY <1>3 DEF Challenge
  <2>2. task[c].pc # "idle" /\ task[c].known \in Reputation
    BY <1>3 DEF Challenge, At, TiersOK, Knows
  <2>3. ASSUME NEW tier \in {"trusted", "risky", "standard"}
        PROVE  AdaptDifficulty(tier) \in Int
    <3>1. Delta[tier] \in Int
      BY DEF Delta
    <3>2. PowDifficulty \in Int /\ MinPow \in Int /\ MaxPow \in Int
      BY AccountsConstants
    <3>3. QED
      BY <3>1, <3>2 DEF AdaptDifficulty, Clamp
  <2>4. AdaptDifficulty(IF r = Null THEN "standard" ELSE Tier(r)) \in Int
    BY <2>3 DEF Tier
  <2> DEFINE k == [difficulty |-> AdaptDifficulty(IF r = Null THEN "standard" ELSE Tier(r)),
                   expiresAt |-> now + ChallengeTTL, read |-> r, known |-> task[c].known]
  <2>5. k \in PricedRec /\ k.read = r /\ k.known = task[c].known
    BY <1>0, <2>2, <2>4, AccountsNulls DEF PricedRec
  <2>6. challenge' = [challenge EXCEPT ![c] = k]
    BY <2>1
  <2> HIDE DEF k
  <2>7. QED
    BY <1>0, <1>3, <2>2, <2>5, <2>6 DEF Challenge
<1>4. ASSUME NEW c \in Tasks, Handle(c) \/ Start(c)
      PROVE  UNCHANGED human \/ UpdateReputation(c) \/ Challenge(c)
  BY <1>4 DEF Start, Handle, Mailing, SignUp, LookGrant, ApplyGrant, ResendVerification, ClearTokens,
       CreateVerificationToken, SendVerificationEmail, VerifyEmail, MarkVerified, DropTokens,
       Administering, McpWaitlist, CreateListed, FindUser, SetEarlyAccess, RecordGrant, MarkInvited,
       DeleteCreator, Connecting, Login, OauthLogin, AcceptLogin, Consent, SubjectHasMcpAccess, GrantConsent,
       RejectConsent, Logout, Forget, HydraFails, Proving, VerifyHuman, ReadAverage
<1>5. ASSUME NEW c \in Tasks, Challenge(c)
      PROVE  rep' \in Reputation /\ rep'.humans >= rep.humans /\ rep'.bots >= rep.bots
  BY <1>0, <1>3, <1>5 DEF Reputation
<1>6. QED
  BY <1>0, <1>1, <1>2, <1>3, <1>4, <1>5 DEF AccountsNext, Crash, Tick, StartFlow, accountsVars, human

\* The record of the decisions.
LEMMA DecidedStep ==
  ASSUME RowsOK, TasksOK, [AccountsNext]_accountsVars
  PROVE  decided' \in [Emails -> [on : BOOLEAN, about : {"grant", "access"}] \cup {Null}]
<1>1. CASE UNCHANGED decided
  BY <1>1 DEF RowsOK
<1>2. ASSUME NEW c \in Tasks, MarkInvited(c)
      PROVE  decided' \in [Emails -> [on : BOOLEAN, about : {"grant", "access"}] \cup {Null}]
  <2>1. task[c].req.on \in BOOLEAN /\ task[c].req.op \in {"grant", "access"}
    BY <1>2 DEF MarkInvited, At, TasksOK, Fits, Request
  <2>2. QED
    BY <1>2, <2>1 DEF MarkInvited, RowsOK
<1>3. ASSUME NEW c \in Tasks, Handle(c) \/ Start(c)
      PROVE  UNCHANGED decided \/ MarkInvited(c) \/ DeleteCreator(c)
  BY <1>3 DEF Start, Handle, Mailing, SignUp, LookGrant, ApplyGrant, ResendVerification, ClearTokens,
       CreateVerificationToken, SendVerificationEmail, VerifyEmail, MarkVerified, DropTokens,
       Administering, McpWaitlist, CreateListed, FindUser, SetEarlyAccess, RecordGrant,
       Connecting, Login, OauthLogin, AcceptLogin, Consent, SubjectHasMcpAccess, GrantConsent,
       RejectConsent, Logout, Forget, HydraFails, Proving, Challenge, VerifyHuman, ReadAverage,
       UpdateReputation, access
<1>4. QED
  BY <1>1, <1>2, <1>3 DEF AccountsNext, Crash, Tick, StartFlow, DeleteCreator, accountsVars, access, RowsOK

LEMMA AccountRowsStep ==
  ASSUME AccountsInv, [AccountsNext]_accountsVars
  PROVE  RowsOK'
<1>1. RowsOK /\ TasksOK /\ FlowsOK /\ TiersOK
  BY DEF AccountsInv
<1>2. ASSUME NEW c \in Tasks, Handle(c) \/ Start(c)
      PROVE  scene' = scene /\ now' = now
  <2>1. CASE Mailing(c) \/ Start(c)
    BY <2>1 DEF Start, Mailing, SignUp, LookGrant, ApplyGrant, ResendVerification, ClearTokens,
         CreateVerificationToken, SendVerificationEmail, VerifyEmail, MarkVerified, DropTokens
  <2>2. CASE Administering(c)
    BY <2>2 DEF Administering, McpWaitlist, CreateListed, FindUser, SetEarlyAccess, RecordGrant,
         MarkInvited, DeleteCreator
  <2>3. CASE Connecting(c)
    BY <2>3 DEF Connecting, Login, OauthLogin, AcceptLogin, Consent, SubjectHasMcpAccess, GrantConsent,
         RejectConsent, Logout, Forget, HydraFails
  <2>4. CASE Proving(c)
    BY <2>4 DEF Proving, Challenge, VerifyHuman, ReadAverage, UpdateReputation
  <2>5. QED
    BY <1>2, <2>1, <2>2, <2>3, <2>4 DEF Handle
<1>3. scene' = scene /\ (now' = now \/ now' = now + 1)
  BY <1>2 DEF AccountsNext, Crash, Tick, StartFlow, accountsVars
<1>4. now' \in Nat /\ scene' \in Scenes
  BY <1>1, <1>3 DEF RowsOK
<1>5. QED
  BY <1>1, <1>4, FlowStays, UsersStep, MailStep, HumanStep, DecidedStep DEF RowsOK

-----------------------------------------------------------------------------
(* The decisions. *)

Marked == {"lookGrant", "applyGrant", "recordGrant", "markInvited"}

\* Addresses at which nothing is decided, registered or deleted in this step.
Same(x) ==
  /\ user'[x] = Null <=> user[x] = Null
  /\ user[x] # Null => user'[x].access = user[x].access /\ user'[x].id = user[x].id
  /\ x \in grants' <=> x \in grants
  /\ decided'[x] = decided[x]

\* A step that is no decision's and no registration's.
LEMMA QuietKeeps ==
  ASSUME AccountsInv, NEW c \in Tasks, Handled(c), \A x \in Emails : Same(x),
         task[c].pc \notin Marked, task'[c].pc \notin Marked
  PROVE  AloneDecides' /\ DecidedHolds'
<1>1. TasksOK /\ AloneDecides /\ DecidedHolds
  BY DEF AccountsInv
<1>2. \A d \in Tasks : task'[d].pc \in Marked => d # c /\ task'[d] = task[d]
  BY DEF Handled
<1>3. \A d \in Tasks : task[d].pc \in Marked => d # c /\ task'[d] = task[d]
  BY DEF Handled
<1>4. \A d \in Tasks : task[d].pc \in {"recordGrant", "markInvited"} => task[d].req.email \in Emails
  BY <1>1 DEF TasksOK, Fits, Nameless
<1>5. AloneDecides'
  BY <1>1, <1>2, <1>4 DEF AloneDecides, AloneHolds, Marked, Same
<1>6. \A e \in Emails : \A d \in Tasks : Granting(e, d)' <=> Granting(e, d)
  BY <1>2, <1>3 DEF Granting, Deciders, Marked
<1>7. \A e \in Emails : Undoing(e)' <=> Undoing(e)
  BY <1>2, <1>3 DEF Undoing, Deciders, Marked
<1>8. \A d \in Tasks : task[d].pc = "applyGrant" => task'[d] = task[d]
  BY <1>3 DEF Marked
<1>9. \A d \in Tasks : \A e \in Emails : Granting(e, d) => task'[d] = task[d]
  BY <1>3 DEF Granting, Marked
<1>10. ASSUME NEW e \in Emails, decided'[e] # Null, ~Undoing(e)'
       PROVE  Holding(e)'
  <2>1. Holding(e) /\ Same(e)
    BY <1>1, <1>7, <1>10 DEF DecidedHolds, Same
  <2>2. QED
    BY <1>6, <1>9, <2>1 DEF Holding, Same
<1>11. QED
  BY <1>5, <1>10 DEF DecidedHolds

\* Somewhere else than where a decision, or a registration, takes its step.
LEMMA ApartKeeps ==
  ASSUME AccountsInv, NEW c \in Tasks, NEW e \in Emails, c \in Deciders(e), Handled(c),
         \A x \in Emails : x # e => Same(x)
  PROVE  /\ \A d \in Tasks : d # c => AloneHolds(d)'
         /\ \A x \in Emails : x # e /\ decided'[x] # Null /\ ~Undoing(x)' => Holding(x)'
<1>1. TasksOK /\ AloneIsAlone /\ AloneDecides /\ DecidedHolds
  BY DEF AccountsInv
<1>2. ASSUME NEW d \in Tasks, d # c, task'[d].pc \in {"recordGrant", "markInvited"}, task'[d].alone
      PROVE  AloneHolds(d)'
  <2>1. task'[d] = task[d]
    BY <1>2 DEF Handled
  <2>2. task[d].req.email \in Emails /\ task[d].req.op \in Deciding /\ task[d].pc # "idle"
    BY <1>1, <1>2, <2>1 DEF TasksOK, Fits, Nameless, Deciding
  <2>3. task[d].req.email # e
    BY <1>1, <1>2, <2>1, <2>2 DEF AloneIsAlone, Deciders
  <2>4. AloneHolds(d) /\ Same(task[d].req.email)
    BY <1>1, <2>2, <2>3 DEF AloneDecides
  <2>5. QED
    BY <2>1, <2>4 DEF AloneHolds, Same
<1>3. ASSUME NEW x \in Emails, x # e, decided'[x] # Null, ~Undoing(x)'
      PROVE  Holding(x)'
  <2>1. c \notin Deciders(x) /\ c \notin Deciders(x)'
    BY <1>3 DEF Deciders, Handled, Deciding
  <2>2. \A d \in Tasks : d \in Deciders(x)' => d # c /\ task'[d] = task[d] /\ d \in Deciders(x)
    BY <2>1 DEF Deciders, Handled
  <2>3. \A d \in Tasks : d \in Deciders(x) => d # c /\ task'[d] = task[d] /\ d \in Deciders(x)'
    BY <2>1 DEF Deciders, Handled
  <2>4. ~Undoing(x)
    BY <1>3, <2>3 DEF Undoing, Deciders
  <2>5. Holding(x) /\ Same(x)
    BY <1>1, <1>3, <2>4 DEF DecidedHolds, Same
  <2>6. \A d \in Tasks : Granting(x, d)' <=> Granting(x, d)
    BY <2>2, <2>3 DEF Granting
  <2>7. \A d \in Tasks : Granting(x, d) => task'[d] = task[d]
    BY <2>3 DEF Granting
  <2>8. QED
    BY <2>5, <2>6, <2>7 DEF Holding, Same
<1>4. QED
  BY <1>2, <1>3 DEF AloneHolds

\* Where it does, what is left is the request itself and its own address.
LEMMA LoudKeeps ==
  ASSUME AccountsInv, NEW c \in Tasks, NEW e \in Emails, c \in Deciders(e), Handled(c),
         \A x \in Emails : x # e => Same(x), AloneHolds(c)',
         decided'[e] # Null /\ ~Undoing(e)' => Holding(e)'
  PROVE  AloneDecides' /\ DecidedHolds'
BY ApartKeeps DEF AloneDecides, DecidedHolds

\* The others of an address, in a step of c.
LEMMA OthersStay ==
  ASSUME NEW c \in Tasks, NEW e \in Emails, Handled(c)
  PROVE  \A d \in Tasks : d # c => /\ task'[d] = task[d]
                                   /\ d \in Deciders(e)' <=> d \in Deciders(e)
                                   /\ Granting(e, d)' <=> Granting(e, d)
BY DEF Handled, Deciders, Granting

LEMMA StepStarts ==
  ASSUME AccountsInv, NEW c \in Tasks, task[c].pc # "idle", NEW e, e = task[c].req.email,
         task[c].pc \notin Nameless \cup {"average", "update"}
  PROVE  /\ RowsOK /\ TasksOK /\ AloneDecides /\ DecidedHolds
         /\ e \in Emails /\ Fits(task[c].pc, task[c].req)
         /\ task[c].req.op \in Deciding => c \in Deciders(e)
BY DEF AccountsInv, TasksOK, Fits, Deciders

LEMMA SignUpKeeps ==
  ASSUME AccountsInv, NEW c \in Tasks, SignUp(c), Handled(c)
  PROVE  AloneDecides' /\ DecidedHolds'
<1> PICK e : e = task[c].req.email
  OBVIOUS
<1>1. /\ RowsOK /\ TasksOK /\ AloneDecides /\ DecidedHolds /\ e \in Emails /\ c \in Deciders(e)
  BY StepStarts DEF SignUp, At, Nameless, Fits, Deciding
<1>2. task[c].pc = "register" /\ grants' = grants /\ decided' = decided
  BY DEF SignUp, At, access
<1>3. CASE user[e] # Null
  <2>1. task'[c].pc = "idle" /\ user' = user
    BY <1>1, <1>2, <1>3, DoneMoves DEF SignUp
  <2>2. QED
    BY <1>2, <2>1, QuietKeeps DEF Same, Marked
<1>4. CASE user[e] = Null
  <2>1. /\ task'[c].pc = "lookGrant" /\ task'[c].uid = ids + 1 /\ task'[c].req = task[c].req
        /\ user' = [user EXCEPT ![e] = NewUser(ids + 1)]
    BY <1>1, <1>4 DEF SignUp, TasksOK, TaskRec
  <2>2. user'[e].access = FALSE /\ user'[e].id = ids + 1 /\ \A x \in Emails : x # e => user'[x] = user[x]
    BY <1>1, <2>1 DEF NewUser, RowsOK
  <2>3. \A x \in Emails : x # e => Same(x)
    BY <1>2, <2>2 DEF Same
  <2>4. AloneHolds(c)'
    BY <2>1 DEF AloneHolds
  <2>5. c \in Deciders(e)' /\ Granting(e, c)'
    BY <1>1, <2>1 DEF Deciders, Granting
  <2>6. ASSUME decided'[e] # Null, ~Undoing(e)'
        PROVE  Holding(e)'
    <3>1. ~Undoing(e)
      BY <1>1, <1>2, <2>6, OthersStay DEF Undoing, Deciders
    <3>2. Holding(e)
      BY <1>1, <1>2, <2>6, <3>1 DEF DecidedHolds
    <3>3. decided[e].about = "grant"
      BY <1>1, <1>2, <1>4, <2>6, <3>2 DEF Holding, RowsOK
    <3>4. \A d \in Tasks : Granting(e, d)' /\ task'[d].pc = "applyGrant" => decided[e].on
      BY <1>1, <2>1, <3>2, OthersStay DEF Holding
    <3>5. decided[e].on \in BOOLEAN
      BY <1>1, <1>2, <2>6 DEF RowsOK
    <3>6. QED
      BY <1>2, <2>1, <2>2, <2>5, <3>2, <3>3, <3>4, <3>5 DEF Holding
  <2>7. QED
    BY <1>1, <2>3, <2>4, <2>6, LoudKeeps
<1>5. QED
  BY <1>3, <1>4

LEMMA LookGrantKeeps ==
  ASSUME AccountsInv, NEW c \in Tasks, LookGrant(c), Handled(c)
  PROVE  AloneDecides' /\ DecidedHolds'
<1> PICK e : e = task[c].req.email
  OBVIOUS
<1>1. /\ RowsOK /\ TasksOK /\ AloneDecides /\ DecidedHolds /\ e \in Emails /\ c \in Deciders(e)
  BY StepStarts DEF LookGrant, At, Nameless, Fits, Deciding
<1>2. task[c].pc = "lookGrant" /\ grants' = grants /\ decided' = decided /\ user' = user
  BY DEF LookGrant, At, access
<1>3. /\ task'[c].pc = IF e \in grants THEN "applyGrant" ELSE "clearTokens"
      /\ task'[c].uid = task[c].uid /\ task'[c].req = task[c].req
  BY <1>1 DEF LookGrant, GoOn, TasksOK, TaskRec
<1>4. \A x \in Emails : Same(x)
  BY <1>2 DEF Same
<1>5. AloneHolds(c)'
  BY <1>3 DEF AloneHolds
<1>6. ASSUME decided'[e] # Null, ~Undoing(e)'
      PROVE  Holding(e)'
  <2>1. ~Undoing(e)
    BY <1>1, <1>2, <1>6, OthersStay DEF Undoing, Deciders
  <2>2. Holding(e) /\ Granting(e, c)
    BY <1>1, <1>2, <1>6, <2>1 DEF DecidedHolds, Granting
  <2>3. decided[e].about = "grant" /\ (e \in grants <=> decided[e].on)
    BY <2>2 DEF Holding
  <2>4. Granting(e, c)' <=> e \in grants
    BY <1>1, <1>3 DEF Granting, Deciders
  <2>5. \A d \in Tasks : Granting(e, d)' => (task'[d].pc = "applyGrant" => decided[e].on)
    BY <1>1, <1>3, <2>2, <2>3, OthersStay DEF Holding
  <2>6. \A d \in Tasks : Granting(e, d) /\ task[d].uid = user[e].id /\ decided[e].on =>
          Granting(e, d)' /\ task'[d].uid = user[e].id
    BY <1>1, <1>3, <2>3, <2>4, OthersStay
  <2>7. QED
    BY <1>2, <2>2, <2>3, <2>5, <2>6 DEF Holding
<1>7. QED
  BY <1>1, <1>4, <1>5, <1>6, LoudKeeps

LEMMA ApplyGrantKeeps ==
  ASSUME AccountsInv, NEW c \in Tasks, ApplyGrant(c), Handled(c)
  PROVE  AloneDecides' /\ DecidedHolds'
<1> PICK e : e = task[c].req.email
  OBVIOUS
<1>1. /\ RowsOK /\ TasksOK /\ AloneDecides /\ DecidedHolds /\ e \in Emails /\ c \in Deciders(e)
  BY StepStarts DEF ApplyGrant, At, Nameless, Fits, Deciding
<1>2. task[c].pc = "applyGrant" /\ grants' = grants /\ decided' = decided
  BY DEF ApplyGrant, At, access
<1>3. task'[c].pc \in {"clearTokens", "idle"}
  <2>1. Done(c) => task'[c].pc = "idle"
    BY <1>1, <1>2, DoneMoves
  <2>2. GoOn(c, "clearTokens") => task'[c].pc = "clearTokens"
    BY <1>1 DEF GoOn, TasksOK, TaskRec
  <2>3. QED
    BY <2>1, <2>2 DEF ApplyGrant
<1>4. AloneHolds(c)'
  BY <1>3 DEF AloneHolds
<1>5. \/ Is(e, task[c].uid) /\ user'[e] # Null /\ user'[e].access = TRUE
         /\ \A x \in Emails : x # e => user'[x] = user[x]
      \/ ~Is(e, task[c].uid) /\ user' = user
  BY <1>1, SetAccessMakes DEF ApplyGrant, Is
<1>6. \A x \in Emails : x # e => Same(x)
  BY <1>2, <1>5 DEF Same
<1>7. ASSUME decided'[e] # Null, ~Undoing(e)'
      PROVE  Holding(e)'
  <2>1. ~Undoing(e)
    BY <1>1, <1>2, <1>7, OthersStay DEF Undoing, Deciders
  <2>2. Holding(e) /\ Granting(e, c)
    BY <1>1, <1>2, <1>7, <2>1 DEF DecidedHolds, Granting
  <2>3. decided[e].about = "grant" /\ (e \in grants <=> decided[e].on) /\ decided[e].on
    BY <1>2, <2>2 DEF Holding
  <2>4. ~Granting(e, c)'
    BY <1>3 DEF Granting
  <2>5. decided[e].on = TRUE
    BY <1>1, <1>2, <1>7, <2>3 DEF RowsOK
  <2>6. ~Is(e, task[c].uid) /\ user' = user =>
          \A d \in Tasks : Granting(e, d) /\ task[d].uid = user[e].id /\ user[e] # Null =>
            Granting(e, d)' /\ task'[d].uid = user[e].id
    BY <1>1, OthersStay DEF Is
  <2>7. CASE Is(e, task[c].uid)
    BY <1>1, <1>2, <1>5, <2>2, <2>3, <2>5, <2>7 DEF Holding
  <2>8. CASE ~Is(e, task[c].uid)
    BY <1>1, <1>2, <1>5, <2>2, <2>3, <2>6, <2>8 DEF Holding
  <2>9. QED
    BY <2>7, <2>8
<1>8. QED
  BY <1>1, <1>4, <1>6, <1>7, LoudKeeps

LEMMA FindUserKeeps ==
  ASSUME AccountsInv, NEW c \in Tasks, FindUser(c), Handled(c)
  PROVE  AloneDecides' /\ DecidedHolds'
<1> PICK e : e = task[c].req.email
  OBVIOUS
<1>1. /\ RowsOK /\ TasksOK /\ e \in Emails /\ c \in Deciders(e) /\ Fits(task[c].pc, task[c].req)
  BY StepStarts DEF FindUser, At, Nameless, Fits, Deciding
<1>2. task[c].pc \in {"grant", "access"} /\ grants' = grants /\ decided' = decided /\ user' = user
  BY DEF FindUser, At, access
<1>3. \A x \in Emails : Same(x)
  BY <1>2 DEF Same
<1>4. CASE user[e] = Null /\ At(c, "grant")
  <2>1. task'[c].pc = "recordGrant" /\ task'[c].req = task[c].req
    BY <1>1, <1>4 DEF FindUser, GoOn, TasksOK, TaskRec
  <2>2. AloneHolds(c)'
    BY <1>1, <1>2, <1>4, <2>1 DEF AloneHolds, At, Fits
  <2>3. Undoing(e)'
    BY <1>1, <2>1 DEF Undoing, Deciders
  <2>4. QED
    BY <1>1, <1>3, <2>2, <2>3, LoudKeeps
<1>5. CASE ~(user[e] = Null /\ At(c, "grant"))
  <2>1. task'[c].pc \in {"setAccess", "idle"}
    BY <1>1, <1>5, FreeIsTyped DEF FindUser, GoOn, Done, TasksOK, TaskRec
  <2>2. QED
    BY <1>2, <1>3, <2>1, QuietKeeps DEF Marked
<1>6. QED
  BY <1>4, <1>5

LEMMA SetEarlyAccessKeeps ==
  ASSUME AccountsInv, NEW c \in Tasks, SetEarlyAccess(c), Handled(c)
  PROVE  AloneDecides' /\ DecidedHolds'
<1> PICK e : e = task[c].req.email
  OBVIOUS
<1>1. /\ RowsOK /\ TasksOK /\ e \in Emails /\ c \in Deciders(e) /\ Fits(task[c].pc, task[c].req)
  BY StepStarts DEF SetEarlyAccess, At, Nameless, Fits, Deciding
<1>2. task[c].pc = "setAccess" /\ grants' = grants /\ decided' = decided
  BY DEF SetEarlyAccess, At, access
<1>3. CASE Is(e, task[c].uid)
  <2>1. /\ task'[c].pc = IF task[c].req.op = "grant" THEN "recordGrant" ELSE "markInvited"
        /\ task'[c].req = task[c].req
    BY <1>1, <1>3 DEF SetEarlyAccess, GoOn, TasksOK, TaskRec
  <2>2. task[c].req.on \in BOOLEAN
    BY <1>1 DEF Fits, Request
  <2>3. user'[e] # Null /\ user'[e].access = task[c].req.on /\ \A x \in Emails : x # e => user'[x] = user[x]
    <3>1. PICK on \in BOOLEAN : on = task[c].req.on
      BY <2>2
    <3>2. SetAccess(c, e, on) /\ user[e] # Null
      BY <1>3, <3>1 DEF SetEarlyAccess, Is
    <3>3. user'[e] # Null
      BY <1>1, <3>2, SetAccessMakes, Zenon
    <3>4. user'[e].access = on
      BY <1>1, <3>2, SetAccessMakes, Zenon
    <3>5. \A x \in Emails : x # e => user'[x] = user[x]
      BY <1>1, <3>2 DEF SetAccess, RowsOK
    <3>6. QED
      BY <3>1, <3>3, <3>4, <3>5
  <2>4. AloneHolds(c)'
    BY <2>1, <2>3 DEF AloneHolds
  <2>5. Undoing(e)'
    BY <1>1, <2>1 DEF Undoing, Deciders
  <2>6. \A x \in Emails : x # e => Same(x)
    BY <1>2, <2>3 DEF Same
  <2>7. QED
    BY <1>1, <2>4, <2>5, <2>6, LoudKeeps
<1>4. CASE ~Is(e, task[c].uid)
  <2>1. task'[c].pc = "idle" /\ user' = user
    BY <1>1, <1>2, <1>4, DoneMoves DEF SetEarlyAccess
  <2>2. QED
    BY <1>2, <2>1, QuietKeeps DEF Same, Marked
<1>5. QED
  BY <1>3, <1>4

LEMMA RecordGrantKeeps ==
  ASSUME AccountsInv, NEW c \in Tasks, RecordGrant(c), Handled(c)
  PROVE  AloneDecides' /\ DecidedHolds'
<1> PICK e : e = task[c].req.email
  OBVIOUS
<1>1. /\ RowsOK /\ TasksOK /\ AloneDecides /\ e \in Emails /\ c \in Deciders(e)
      /\ Fits(task[c].pc, task[c].req)
  BY StepStarts DEF RecordGrant, At, Nameless, Fits, Deciding
<1>2. task[c].pc = "recordGrant" /\ user' = user /\ decided' = decided
      /\ grants' = IF task[c].req.on THEN grants \cup {e} ELSE grants \ {e}
  BY DEF RecordGrant, At
<1>3. task'[c].pc = "markInvited" /\ task'[c].req = task[c].req /\ task'[c].alone = task[c].alone
  BY <1>1 DEF RecordGrant, GoOn, TasksOK, TaskRec
<1>4. AloneHolds(c)'
  <2>1. AloneHolds(c) /\ task[c].req.op = "grant"
    BY <1>1, <1>2 DEF AloneDecides, Fits
  <2>2. e \in grants' <=> task[c].req.on
    BY <1>2
  <2>3. QED
    BY <1>2, <1>3, <2>1, <2>2 DEF AloneHolds
<1>5. Undoing(e)'
  BY <1>1, <1>3 DEF Undoing, Deciders
<1>6. \A x \in Emails : x # e => Same(x)
  BY <1>2 DEF Same
<1>7. QED
  BY <1>1, <1>4, <1>5, <1>6, LoudKeeps

LEMMA MarkInvitedKeeps ==
  ASSUME AccountsInv, NEW c \in Tasks, MarkInvited(c), Handled(c)
  PROVE  AloneDecides' /\ DecidedHolds'
<1> PICK e : e = task[c].req.email
  OBVIOUS
<1>1. /\ RowsOK /\ TasksOK /\ AloneDecides /\ AloneIsAlone /\ e \in Emails /\ c \in Deciders(e)
      /\ Fits(task[c].pc, task[c].req)
  BY StepStarts DEF MarkInvited, At, Nameless, Fits, Deciding, AccountsInv
<1>2. task[c].pc = "markInvited" /\ user' = user /\ grants' = grants
      /\ decided' = [decided EXCEPT ![e] =
           IF task[c].alone THEN [on |-> task[c].req.on, about |-> task[c].req.op] ELSE Null]
  BY DEF MarkInvited, At
<1>3. task'[c].pc = "idle"
  BY <1>1, <1>2, DoneMoves DEF MarkInvited
<1>4. AloneHolds(c)'
  BY <1>3 DEF AloneHolds
<1>5. \A x \in Emails : x # e => Same(x)
  BY <1>1, <1>2 DEF Same, RowsOK
<1>6. ASSUME decided'[e] # Null
      PROVE  Holding(e)'
  <2>1. decided'[e] = IF task[c].alone THEN [on |-> task[c].req.on, about |-> task[c].req.op] ELSE Null
    BY <1>1, <1>2 DEF RowsOK
  <2>2. task[c].alone /\ decided'[e].on = task[c].req.on /\ decided'[e].about = task[c].req.op
    BY <1>6, <2>1
  <2>3. \A d \in Tasks : ~Granting(e, d)'
    <3>1. \A d \in Tasks : d \in Deciders(e) => d = c
      BY <1>1, <2>2 DEF AloneIsAlone
    <3>2. QED
      BY <1>1, <1>3, <3>1, OthersStay DEF Granting, Deciders
  <2>4. AloneHolds(c)
    BY <1>1 DEF AloneDecides
  <2>5. QED
    BY <1>2, <2>2, <2>3, <2>4 DEF Holding, AloneHolds
<1>7. QED
  BY <1>1, <1>4, <1>5, <1>6, LoudKeeps

LEMMA DeleteCreatorKeeps ==
  ASSUME AccountsInv, NEW c \in Tasks, DeleteCreator(c), Handled(c)
  PROVE  AloneDecides' /\ DecidedHolds'
<1> PICK e : e = task[c].req.email
  OBVIOUS
<1>1. /\ RowsOK /\ TasksOK /\ DecidedHolds /\ e \in Emails /\ c \in Deciders(e)
  BY StepStarts DEF DeleteCreator, At, Nameless, Fits, Deciding
<1>2. task[c].pc = "delete" /\ grants' = grants /\ user' = [user EXCEPT ![e] = Null]
      /\ decided' = [decided EXCEPT ![e] = IF @ # Null /\ @.about = "access" THEN Null ELSE @]
  BY DEF DeleteCreator, At
<1>3. task'[c].pc = "idle"
  BY <1>1, <1>2, DoneMoves DEF DeleteCreator
<1>4. AloneHolds(c)'
  BY <1>3 DEF AloneHolds
<1>5. \A x \in Emails : x # e => Same(x)
  BY <1>1, <1>2 DEF Same, RowsOK
<1>6. ASSUME decided'[e] # Null, ~Undoing(e)'
      PROVE  Holding(e)'
  <2>1. decided'[e] = decided[e] /\ decided[e] # Null /\ decided[e].about # "access" /\ user'[e] = Null
    BY <1>1, <1>2, <1>6 DEF RowsOK
  <2>2. ~Undoing(e)
    BY <1>1, <1>2, <1>6, OthersStay DEF Undoing, Deciders
  <2>3. Holding(e) /\ ~Granting(e, c)'
    BY <1>1, <1>3, <2>1, <2>2 DEF DecidedHolds, Granting
  <2>4. \A d \in Tasks : Granting(e, d)' => Granting(e, d) /\ task'[d] = task[d]
    BY <1>1, <2>3, OthersStay
  <2>5. QED
    BY <1>2, <2>1, <2>3, <2>4 DEF Holding
<1>7. QED
  BY <1>1, <1>4, <1>5, <1>6, LoudKeeps

LEMMA StartKeepsDecisions ==
  ASSUME AccountsInv, NEW c \in Tasks, Start(c)
  PROVE  AloneDecides' /\ DecidedHolds'
<1>1. RowsOK /\ TasksOK /\ AloneDecides /\ DecidedHolds
  BY DEF AccountsInv
<1>2. PICK r : r \in Request /\ StartsWith(c, r)
  BY <1>1, StartMoves
<1>3. user' = user /\ grants' = grants /\ decided' = decided /\ task[c].pc = "idle"
  BY DEF Start, access, At
<1>4. task'[c].pc \notin Marked
  BY <1>2 DEF StartsWith, Request, Ops, Nameless, Flowing, Marked
<1>5. ASSUME NEW d \in Tasks, task'[d].pc \in Marked \/ task[d].pc \in Marked
      PROVE  /\ task'[d].pc = task[d].pc /\ task'[d].req = task[d].req /\ task'[d].uid = task[d].uid
             /\ task'[d].alone => task[d].alone
  BY <1>2, <1>3, <1>4, <1>5 DEF StartsWith, Marked
<1>6. AloneDecides'
  BY <1>1, <1>3, <1>5 DEF AloneDecides, AloneHolds, Marked
<1>7. \A e \in Emails : (Undoing(e)' <=> Undoing(e)) /\ \A d \in Tasks : Granting(e, d)' <=> Granting(e, d)
  BY <1>5 DEF Undoing, Granting, Deciders, Marked
<1>8. \A e \in Emails : \A d \in Tasks : Granting(e, d) =>
        task'[d].pc = task[d].pc /\ task'[d].uid = task[d].uid
  BY <1>5 DEF Granting, Marked
<1>9. QED
  BY <1>1, <1>3, <1>6, <1>7, <1>8 DEF DecidedHolds, Holding

LEMMA CrashKeepsDecisions ==
  ASSUME AccountsInv, Crash
  PROVE  AloneDecides' /\ DecidedHolds'
<1>1. RowsOK /\ TasksOK /\ DecidedHolds
  BY DEF AccountsInv
<1>2. \A d \in Tasks : task'[d].pc = "idle"
  BY CrashMoves
<1>3. AloneDecides'
  BY <1>2 DEF AloneDecides, AloneHolds
<1>4. user' = user /\ grants' = grants
      /\ decided' = [e \in Emails |->
           IF \E c \in Tasks : task[c].req # Null /\ task[c].req.op \in Deciding /\ task[c].req.email = e
           THEN Null ELSE decided[e]]
  BY DEF Crash
<1>5. ASSUME NEW e \in Emails, decided'[e] # Null
      PROVE  Holding(e)'
  <2>1. decided'[e] = decided[e] /\ \A c \in Tasks : c \notin Deciders(e)
    BY <1>1, <1>4, <1>5, AccountsNulls DEF Deciders, TasksOK, Fits
  <2>2. Holding(e) /\ \A d \in Tasks : ~Granting(e, d) /\ ~Granting(e, d)'
    BY <1>1, <1>2, <1>5, <2>1 DEF DecidedHolds, Granting, Undoing, Deciders
  <2>3. QED
    BY <1>4, <2>1, <2>2 DEF Holding
<1>6. QED
  BY <1>3, <1>5 DEF DecidedHolds

\* Every step keeps what was decided.
LEMMA DecisionsStep ==
  ASSUME AccountsInv, [AccountsNext]_accountsVars
  PROVE  AloneDecides' /\ DecidedHolds'
<1>1. RowsOK /\ TasksOK /\ AloneDecides /\ DecidedHolds
  BY DEF AccountsInv
<1>2. CASE UNCHANGED <<user, grants, decided, task>>
  BY <1>1, <1>2 DEF AloneDecides, AloneHolds, DecidedHolds, Holding, Granting, Undoing, Deciders
<1>3. ASSUME NEW c \in Tasks, Handle(c)
      PROVE  AloneDecides' /\ DecidedHolds'
  <2>0. Handled(c)
    BY <1>1, <1>3, HandleMoves
  <2>1. CASE UNCHANGED <<user, grants, decided>> /\ task[c].pc \notin Marked /\ task'[c].pc \notin Marked
    BY <2>0, <2>1, QuietKeeps DEF Same
  <2>2. CASE MarkVerified(c)
    <3>1. \A x \in Emails : Same(x)
      BY <1>1, <2>2, MarkVerifiedMakes DEF Same, MarkVerified, access
    <3>2. task[c].pc \notin Marked /\ task'[c].pc \in {"dropTokens", "idle"}
      BY <1>1, <2>2, FreeIsTyped DEF MarkVerified, At, GoOn, Done, TasksOK, TaskRec, Marked
    <3>3. QED
      BY <2>0, <3>1, <3>2, QuietKeeps DEF Marked
  <2>3. CASE \/ ResendVerification(c) \/ ClearTokens(c) \/ CreateVerificationToken(c)
             \/ SendVerificationEmail(c) \/ VerifyEmail(c) \/ DropTokens(c)
    <3>1. UNCHANGED <<user, grants, decided>>
      BY <2>3 DEF ResendVerification, ClearTokens, CreateVerificationToken, SendVerificationEmail,
           VerifyEmail, DropTokens, access
    <3>2. task[c].pc \notin Marked
      BY <2>3 DEF ResendVerification, ClearTokens, CreateVerificationToken, SendVerificationEmail,
           VerifyEmail, DropTokens, At, Marked
    <3>3. task'[c].pc \in {"idle", "clearTokens", "createToken", "sendMail", "markVerified"}
      <4>1. Done(c) => task'[c].pc = "idle"
        BY <1>1, FreeIsTyped DEF Done, TasksOK
      <4>2. ClearTokens(c) => task'[c].pc = "createToken"
        BY <1>1 DEF ClearTokens, GoOn, TasksOK, TaskRec
      <4>3. ResendVerification(c) => Done(c) \/ task'[c].pc = "clearTokens"
        BY <1>1 DEF ResendVerification, TasksOK, TaskRec
      <4>4. CreateVerificationToken(c) => Done(c) \/ task'[c].pc = "sendMail"
        BY <1>1 DEF CreateVerificationToken, TasksOK, TaskRec
      <4>5. VerifyEmail(c) => Done(c) \/ task'[c].pc = "markVerified"
        BY <1>1 DEF VerifyEmail, TasksOK, TaskRec
      <4>6. QED
        BY <2>3, <4>1, <4>2, <4>3, <4>4, <4>5 DEF SendVerificationEmail, DropTokens
    <3>4. QED
      BY <2>1, <3>1, <3>2, <3>3 DEF Marked
  <2>4. CASE McpWaitlist(c) \/ CreateListed(c)
    <3>1. UNCHANGED <<user, grants, decided>> /\ task[c].pc \notin Marked
      BY <2>4 DEF McpWaitlist, CreateListed, access, At, Marked
    <3>2. task'[c].pc \in {"idle", "list"}
      BY <1>1, <2>4, FreeIsTyped DEF McpWaitlist, CreateListed, GoOn, Done, TasksOK, TaskRec
    <3>3. QED
      BY <2>1, <3>1, <3>2 DEF Marked
  <2>5. CASE Connecting(c)
    <3>1. UNCHANGED <<user, grants, decided>>
      BY <2>5 DEF Connecting, Login, OauthLogin, AcceptLogin, Consent, SubjectHasMcpAccess, GrantConsent,
           RejectConsent, Logout, Forget, HydraFails, access
    <3>2. task[c].pc \notin Marked
      BY <2>5 DEF Connecting, Login, OauthLogin, AcceptLogin, Consent, SubjectHasMcpAccess, GrantConsent,
           RejectConsent, Logout, Forget, HydraFails, At, Marked
    <3>3. task'[c].pc \in {"idle", "acceptLogin", "gate", "reject", "acceptConsent", "forget"}
      BY <1>1, <2>5, FreeIsTyped DEF Connecting, Login, OauthLogin, AcceptLogin, Consent,
           SubjectHasMcpAccess, GrantConsent, RejectConsent, Logout, Forget, HydraFails,
           GoOn, Done, TasksOK, TaskRec
    <3>4. QED
      BY <2>1, <3>1, <3>2, <3>3 DEF Marked
  <2>6. CASE Proving(c)
    <3>1. UNCHANGED <<user, grants, decided>> /\ task[c].pc \notin Marked
      BY <2>6 DEF Proving, Challenge, VerifyHuman, ReadAverage, UpdateReputation, access, At, Marked
    <3>2. task'[c].pc \in {"idle", "average", "update"}
      BY <1>1, <2>6, FreeIsTyped DEF Proving, Challenge, VerifyHuman, ReadAverage, UpdateReputation, Done,
           TasksOK, TaskRec
    <3>3. QED
      BY <2>1, <3>1, <3>2 DEF Marked
  <2>7. QED
    BY <1>3, <2>0, <2>2, <2>3, <2>4, <2>5, <2>6, SignUpKeeps, LookGrantKeeps, ApplyGrantKeeps,
       FindUserKeeps, SetEarlyAccessKeeps, RecordGrantKeeps, MarkInvitedKeeps, DeleteCreatorKeeps
       DEF Handle, Mailing, Administering
<1>4. QED
  BY <1>1, <1>2, <1>3, StartKeepsDecisions, CrashKeepsDecisions
     DEF AccountsNext, Tick, StartFlow, accountsVars, access

-----------------------------------------------------------------------------
(* Access and the flows of OAuth. *)

LEMMA LateStep ==
  ASSUME AccountsInv, [AccountsNext]_accountsVars
  PROVE  LateHasNoAccess'
<1>1. RowsOK /\ TasksOK /\ LateHasNoAccess
  BY DEF AccountsInv
<1>2. CASE UNCHANGED <<user, late>>
  BY <1>1, <1>2 DEF LateHasNoAccess, HasAccess
<1>3. ASSUME NEW c \in Tasks, Start(c)
      PROVE  LateHasNoAccess'
  <2>1. /\ user' = user
        /\ late' = [e \in Emails |-> IF HasAccess(e) THEN late[e] \ {c} ELSE late[e] \cup {c}]
    BY <1>3 DEF Start
  <2>2. QED
    BY <1>1, <2>1 DEF LateHasNoAccess, HasAccess
<1>4. ASSUME NEW c \in Tasks, SignUp(c)
      PROVE  LateHasNoAccess'
  <2>1. late' = late /\ (user' = user \/ user' = [user EXCEPT ![task[c].req.email] = NewUser(ids + 1)])
    BY <1>4 DEF SignUp
  <2>2. NewUser(ids + 1).access = FALSE
    BY DEF NewUser
  <2>3. QED
    BY <1>1, <2>1, <2>2 DEF LateHasNoAccess, HasAccess, RowsOK
<1>5. ASSUME NEW c \in Tasks, ApplyGrant(c) \/ SetEarlyAccess(c)
      PROVE  LateHasNoAccess'
  <2> PICK e : e = task[c].req.email
    OBVIOUS
  <2>1. e \in Emails /\ task[c].req.on \in BOOLEAN
    BY <1>1, <1>5 DEF ApplyGrant, SetEarlyAccess, At, TasksOK, Fits, Nameless, Request
  <2>2. \/ UNCHANGED <<user, late>>
        \/ user[e] # Null /\ SetAccess(c, e, TRUE)
        \/ user[e] # Null /\ SetAccess(c, e, task[c].req.on)
    BY <1>5, <2>1 DEF ApplyGrant, SetEarlyAccess, Is
  <2>3. ASSUME NEW on \in BOOLEAN, user[e] # Null, SetAccess(c, e, on)
        PROVE  LateHasNoAccess'
    BY <1>1, <2>1, <2>3, SetAccessMakes DEF LateHasNoAccess, HasAccess
  <2>4. QED
    BY <1>2, <2>1, <2>2, <2>3
<1>6. ASSUME NEW c \in Tasks, MarkVerified(c)
      PROVE  LateHasNoAccess'
  <2>1. late' = late
    BY <1>6 DEF MarkVerified
  <2>2. QED
    BY <1>1, <1>6, <2>1, MarkVerifiedMakes DEF LateHasNoAccess, HasAccess
<1>7. ASSUME NEW c \in Tasks, DeleteCreator(c)
      PROVE  LateHasNoAccess'
  <2>1. late' = late /\ user' = [user EXCEPT ![task[c].req.email] = Null]
    BY <1>7 DEF DeleteCreator
  <2>2. QED
    BY <1>1, <2>1 DEF LateHasNoAccess, HasAccess, RowsOK
<1>8. ASSUME NEW c \in Tasks, Handle(c)
      PROVE  \/ UNCHANGED <<user, late>>
             \/ SignUp(c) \/ ApplyGrant(c) \/ SetEarlyAccess(c) \/ MarkVerified(c) \/ DeleteCreator(c)
  BY <1>8 DEF Handle, Mailing, LookGrant, ResendVerification, ClearTokens,
       CreateVerificationToken, SendVerificationEmail, VerifyEmail, DropTokens,
       Administering, McpWaitlist, CreateListed, FindUser, RecordGrant, MarkInvited,
       Connecting, Login, OauthLogin, AcceptLogin, Consent, SubjectHasMcpAccess, GrantConsent,
       RejectConsent, Logout, Forget, HydraFails, Proving, Challenge, VerifyHuman, ReadAverage, UpdateReputation
<1>9. QED
  BY <1>2, <1>3, <1>4, <1>5, <1>6, <1>7, <1>8 DEF AccountsNext, Crash, Tick, StartFlow, accountsVars

\* Nobody becomes late but a request that starts.
LEMMA LateShrinks ==
  ASSUME RowsOK, TasksOK, NEW c \in Tasks, Handle(c)
  PROVE  \A e \in Emails : late'[e] \subseteq late[e]
<1>1. CASE UNCHANGED late
  BY <1>1
<1>2. CASE ApplyGrant(c) \/ SetEarlyAccess(c)
  <2> PICK e : e = task[c].req.email
    OBVIOUS
  <2>1. e \in Emails /\ task[c].req.on \in BOOLEAN
    BY <1>2 DEF ApplyGrant, SetEarlyAccess, At, TasksOK, Fits, Nameless, Request
  <2>2. \/ UNCHANGED <<user, late>>
        \/ user[e] # Null /\ SetAccess(c, e, TRUE)
        \/ user[e] # Null /\ SetAccess(c, e, task[c].req.on)
    BY <1>2, <2>1 DEF ApplyGrant, SetEarlyAccess, Is
  <2>3. ASSUME NEW on \in BOOLEAN, user[e] # Null, SetAccess(c, e, on)
        PROVE  \A x \in Emails : late'[x] \subseteq late[x]
    BY <2>1, <2>3, SetAccessMakes
  <2>4. QED
    BY <1>1, <2>1, <2>2, <2>3
<1>3. QED
  BY <1>1, <1>2 DEF Handle, Mailing, SignUp, LookGrant, ResendVerification, ClearTokens,
       CreateVerificationToken, SendVerificationEmail, VerifyEmail, MarkVerified, DropTokens,
       Administering, McpWaitlist, CreateListed, FindUser, RecordGrant, MarkInvited, DeleteCreator,
       Connecting, Login, OauthLogin, AcceptLogin, Consent, SubjectHasMcpAccess, GrantConsent,
       RejectConsent, Logout, Forget, HydraFails, Proving, Challenge, VerifyHuman, ReadAverage, UpdateReputation

\* A flow that Hydra has sent on keeps its subject.
FlowGoes(f) ==
  \/ flow'[f] = flow[f]
  \/ flow[f] = Null /\ flow'[f].state = "login"
  \/ flow[f] # Null /\ flow[f].state = "login" /\ flow'[f].state = "consent" /\ flow'[f].subject \in Emails
  \/ /\ flow[f] # Null /\ flow[f].state = "consent" /\ flow'[f].state \in {"connected", "rejected"}
     /\ flow'[f].subject = flow[f].subject /\ flow'[f].skip = flow[f].skip

LEMMA FlowsGo ==
  ASSUME AccountsInv, [AccountsNext]_accountsVars
  PROVE  /\ \A f \in Flows : FlowGoes(f)
         /\ \A f \in Flows : flow'[f] # flow[f] /\ flow'[f] # Null /\ flow'[f].state = "connected" =>
              \E c \in Tasks : /\ task[c].pc = "acceptConsent" /\ task[c].req.flow = f
                               /\ flow'[f].by = task[c].req.email
                               /\ flow'[f].entitled = (c \notin late[flow[f].subject])
<1>1. RowsOK /\ TasksOK /\ FlowsOK /\ flow \in [Flows -> FlowState \cup {Null}]
  BY DEF AccountsInv, RowsOK
<1> DEFINE Goal == /\ \A f \in Flows : FlowGoes(f)
                   /\ \A f \in Flows : flow'[f] # flow[f] /\ flow'[f] # Null /\ flow'[f].state = "connected" =>
                        \E c \in Tasks : /\ task[c].pc = "acceptConsent" /\ task[c].req.flow = f
                                         /\ flow'[f].by = task[c].req.email
                                         /\ flow'[f].entitled = (c \notin late[flow[f].subject])
<1>2. CASE UNCHANGED flow
  BY <1>2 DEF FlowGoes
<1>3. ASSUME NEW g \in Flows, NEW e \in scene.browsers, StartFlow(g, e)
      PROVE  Goal
  <2>1. /\ flow[g] = Null /\ flow'[g].state = "login"
        /\ \A f \in Flows : f # g => flow'[f] = flow[f]
    BY <1>1, <1>3 DEF StartFlow
  <2>2. QED
    BY <2>1 DEF FlowGoes
<1>4. ASSUME NEW c \in Tasks, AcceptLogin(c)
      PROVE  Goal
  <2> PICK g, e : g = task[c].req.flow /\ e = IF At(c, "acceptLogin") THEN flow[g].subject ELSE task[c].req.email
    OBVIOUS
  <2>1. e \in Emails /\ g \in Flows /\ flow[g] \in FlowState /\ flow[g] # Null
    BY <1>1, <1>4 DEF AcceptLogin, At, TasksOK, Fits, Nameless, FlowsOK, Passed, FlowPcs, Flowing
  <2>2. \/ flow' = flow
        \/ /\ flow[g].state = "login"
           /\ flow' = [flow EXCEPT ![g].state = "consent", ![g].subject = e, ![g].skip = e \in remembered]
    BY <1>4 DEF AcceptLogin, LoggedIn
  <2>3. CASE flow' = [flow EXCEPT ![g].state = "consent", ![g].subject = e, ![g].skip = e \in remembered]
             /\ flow[g].state = "login"
    <3>1. flow'[g].state = "consent" /\ flow'[g].subject = e /\ \A f \in Flows : f # g => flow'[f] = flow[f]
      BY <1>1, <2>1, <2>3 DEF FlowState
    <3>2. QED
      BY <2>1, <2>3, <3>1 DEF FlowGoes
  <2>4. QED
    BY <1>2, <2>2, <2>3
<1>5. ASSUME NEW c \in Tasks, GrantConsent(c)
      PROVE  Goal
  <2> PICK g : g = task[c].req.flow
    OBVIOUS
  <2>1. g \in Flows /\ flow[g] \in FlowState /\ flow[g] # Null /\ task[c].pc = "acceptConsent"
    BY <1>1, <1>5 DEF GrantConsent, At, TasksOK, Fits, FlowPcs
  <2> DEFINE entitled == c \notin late[flow[g].subject]
  <2>2. \/ flow' = flow
        \/ /\ flow[g].state = "consent"
           /\ flow' = [flow EXCEPT ![g].state = "connected", ![g].by = task[c].req.email,
                                   ![g].entitled = entitled]
    BY <1>5 DEF GrantConsent, AcceptConsent
  <2> HIDE DEF entitled
  <2>3. CASE flow' = [flow EXCEPT ![g].state = "connected", ![g].by = task[c].req.email,
                                  ![g].entitled = entitled]
             /\ flow[g].state = "consent"
    <3>1. /\ flow'[g].state = "connected" /\ flow'[g].subject = flow[g].subject /\ flow'[g].skip = flow[g].skip
          /\ flow'[g].by = task[c].req.email /\ flow'[g].entitled = entitled
          /\ \A f \in Flows : f # g => flow'[f] = flow[f]
      BY <1>1, <2>1, <2>3 DEF FlowState
    <3>2. \A f \in Flows : FlowGoes(f)
      BY <2>1, <2>3, <3>1 DEF FlowGoes
    <3>3. flow'[g].entitled = (c \notin late[flow[g].subject])
      BY <3>1 DEF entitled
    <3>4. ASSUME NEW f \in Flows, flow'[f] # flow[f]
          PROVE  /\ task[c].pc = "acceptConsent" /\ task[c].req.flow = f
                 /\ flow'[f].by = task[c].req.email
                 /\ flow'[f].entitled = (c \notin late[flow[f].subject])
      <4>1. f = g
        BY <3>1, <3>4
      <4>2. QED
        BY <2>1, <3>1, <3>3, <4>1
    <3>5. QED
      BY <3>2, <3>4
  <2>4. QED
    BY <1>2, <2>2, <2>3
<1>6. ASSUME NEW c \in Tasks, RejectConsent(c)
      PROVE  Goal
  <2> PICK g : g = task[c].req.flow
    OBVIOUS
  <2>1. g \in Flows /\ flow[g] \in FlowState /\ flow[g] # Null
    BY <1>1, <1>6 DEF RejectConsent, At, TasksOK, Fits, FlowPcs, Flowing
  <2>2. \/ flow' = flow
        \/ flow[g].state = "consent" /\ flow' = [flow EXCEPT ![g].state = "rejected"]
    BY <1>6 DEF RejectConsent
  <2>3. CASE flow[g].state = "consent" /\ flow' = [flow EXCEPT ![g].state = "rejected"]
    <3>1. /\ flow'[g].state = "rejected" /\ flow'[g].subject = flow[g].subject /\ flow'[g].skip = flow[g].skip
          /\ \A f \in Flows : f # g => flow'[f] = flow[f]
      BY <1>1, <2>1, <2>3 DEF FlowState
    <3>2. QED
      BY <2>1, <2>3, <3>1 DEF FlowGoes
  <2>4. QED
    BY <1>2, <2>2, <2>3
<1>7. ASSUME NEW c \in Tasks, Start(c) \/ Handle(c)
      PROVE  UNCHANGED flow \/ AcceptLogin(c) \/ GrantConsent(c) \/ RejectConsent(c)
  BY <1>7 DEF Start, Handle, Mailing, SignUp, LookGrant, ApplyGrant, ResendVerification, ClearTokens,
       CreateVerificationToken, SendVerificationEmail, VerifyEmail, MarkVerified, DropTokens,
       Administering, McpWaitlist, CreateListed, FindUser, SetEarlyAccess, RecordGrant, MarkInvited,
       DeleteCreator, Connecting, Login, OauthLogin, Consent, SubjectHasMcpAccess, Logout, Forget, HydraFails,
       Proving, Challenge, VerifyHuman, ReadAverage, UpdateReputation, hydra
<1>8. QED
  BY <1>2, <1>3, <1>4, <1>5, <1>6, <1>7 DEF AccountsNext, Crash, Tick, hydra, accountsVars

\* What has come to the consent has a subject; who is past it has approved.
LEMMA ConnectedStep ==
  ASSUME AccountsInv, [AccountsNext]_accountsVars
  PROVE  SubjectsKnown' /\ ConnectedIsEntitled'
<1>1. /\ RowsOK /\ TasksOK /\ FlowsOK /\ SubjectsKnown /\ ConnectedIsEntitled
      /\ \A f \in Flows : flow[f] # Null => flow[f] \in FlowState
  BY DEF AccountsInv, RowsOK
<1>2. SubjectsKnown'
  <2> SUFFICES ASSUME NEW f \in Flows, flow'[f] # Null, flow'[f].state # "login"
               PROVE  flow'[f].subject \in Emails
    BY DEF SubjectsKnown
  <2>1. FlowGoes(f)
    BY FlowsGo
  <2>2. QED
    BY <1>1, <2>1 DEF FlowGoes, SubjectsKnown
<1>3. ASSUME NEW f \in Flows, flow'[f] # Null, flow'[f].state = "connected"
      PROVE  flow'[f].entitled /\ (Screen => flow'[f].skip \/ flow'[f].by = flow'[f].subject)
  <2>1. CASE flow'[f] = flow[f]
    BY <1>1, <1>3, <2>1 DEF ConnectedIsEntitled
  <2>2. CASE flow'[f] # flow[f]
    <3>1. PICK c \in Tasks : /\ task[c].pc = "acceptConsent" /\ task[c].req.flow = f
                             /\ flow'[f].by = task[c].req.email
                             /\ flow'[f].entitled = (c \notin late[flow[f].subject])
      BY <1>3, <2>2, FlowsGo
    <3>2. Passed(c, flow[f])
      BY <1>1, <3>1 DEF FlowsOK, FlowPcs
    <3>3. flow'[f].subject = flow[f].subject /\ flow'[f].skip = flow[f].skip
      BY <1>3, <2>2, FlowsGo DEF FlowGoes
    <3>4. QED
      BY <3>1, <3>2, <3>3 DEF Passed
  <2>3. QED
    BY <2>1, <2>2
<1>4. QED
  BY <1>2, <1>3 DEF ConnectedIsEntitled

\* Who waits at a flow finds it as it was, or further on.
LEMMA StillPassed ==
  ASSUME AccountsInv, [AccountsNext]_accountsVars, NEW d \in Tasks, task[d].pc \in FlowPcs,
         task'[d].pc = task[d].pc, task'[d].req = task[d].req,
         task[d].pc = "acceptConsent" => \A e \in Emails : d \in late'[e] => d \in late[e]
  PROVE  Passed(d, flow[task[d].req.flow])'
<1> PICK f : f = task[d].req.flow
  OBVIOUS
<1>1. Passed(d, flow[f]) /\ f \in Flows /\ flow[f] # Null /\ flow[f] \in FlowState
  BY DEF AccountsInv, FlowsOK, TasksOK, RowsOK, Fits, FlowPcs, Flowing
<1>2. FlowGoes(f)
  BY <1>1, FlowsGo
<1>3. flow[f].state # "login" => flow[f].subject \in Emails
  BY <1>1 DEF AccountsInv, SubjectsKnown
<1>4. flow'[f] = flow[f] \/ flow'[f].subject \in Emails
  BY <1>1, <1>2, <1>3 DEF FlowGoes
<1>5. task[d].pc = "acceptLogin" => flow'[f].subject \in Emails
  BY <1>1, <1>4 DEF Passed
<1>6. task[d].pc \in {"gate", "acceptConsent", "reject"} =>
        flow'[f].state # "login" /\ flow'[f].subject = flow[f].subject /\ flow'[f].skip = flow[f].skip
  BY <1>1, <1>2 DEF Passed, FlowGoes
<1>7. Passed(d, flow[f])'
  BY <1>1, <1>3, <1>5, <1>6 DEF Passed
<1>8. QED
  BY <1>7

\* A request that goes on keeps all but what is named.
LEMMA GoOnKeeps ==
  ASSUME TasksOK, NEW c \in Tasks, NEW pc, GoOn(c, pc)
  PROVE  task'[c].pc = pc /\ task'[c].req = task[c].req
         /\ task'[c].known = task[c].known /\ task'[c].token = task[c].token
BY DEF GoOn, TasksOK, TaskRec

\* Where a request of registration goes, and one of the administrator's.
LEMMA MailingGoes ==
  ASSUME TasksOK, NEW c \in Tasks, Mailing(c), ~Done(c)
  PROVE  /\ task'[c].pc \in {"lookGrant", "applyGrant", "clearTokens", "createToken", "sendMail",
                             "markVerified", "dropTokens"}
         /\ task'[c].known = task[c].known
<1>1. CASE LookGrant(c)
  BY <1>1, GoOnKeeps DEF LookGrant
<1>2. CASE ApplyGrant(c)
  BY <1>2, GoOnKeeps DEF ApplyGrant
<1>3. CASE ClearTokens(c)
  BY <1>3, GoOnKeeps DEF ClearTokens
<1>4. CASE MarkVerified(c)
  BY <1>4, GoOnKeeps DEF MarkVerified
<1>5. CASE SignUp(c) \/ ResendVerification(c)
  BY <1>5 DEF SignUp, ResendVerification, TasksOK, TaskRec
<1>6. CASE CreateVerificationToken(c)
  BY <1>6 DEF CreateVerificationToken, TasksOK, TaskRec
<1>7. CASE VerifyEmail(c)
  <2>1. PICK x : task' = [task EXCEPT ![c].pc = "markVerified", ![c].uid = x.uid, ![c].req.email = x.email]
    BY <1>7 DEF VerifyEmail
  <2>2. task'[c].pc = "markVerified"
    BY <2>1 DEF TasksOK, TaskRec
  <2>3. task'[c].known = task[c].known
    BY <2>1 DEF TasksOK, TaskRec
  <2>4. QED
    BY <2>2, <2>3
<1>8. QED
  BY <1>1, <1>2, <1>3, <1>4, <1>5, <1>6, <1>7 DEF Mailing, SendVerificationEmail, DropTokens

\* Every step of a request at a flow.
LEMMA FlowsStep ==
  ASSUME AccountsInv, [AccountsNext]_accountsVars
  PROVE  FlowsOK'
<1>1. RowsOK /\ TasksOK /\ FlowsOK /\ SubjectsKnown /\ LateHasNoAccess
  BY DEF AccountsInv
<1>2. CASE UNCHANGED <<task, late>>
  BY <1>2, StillPassed DEF FlowsOK
<1>3. ASSUME NEW c \in Tasks, Start(c)
      PROVE  FlowsOK'
  <2>1. PICK r : r \in Request /\ StartsWith(c, r)
    BY <1>1, <1>3, StartMoves
  <2>2. late' = [e \in Emails |-> IF HasAccess(e) THEN late[e] \ {c} ELSE late[e] \cup {c}]
    BY <1>3 DEF Start
  <2>3. ASSUME NEW d \in Tasks, d # c, task'[d].pc \in FlowPcs
        PROVE  Passed(d, flow[task[d].req.flow])'
    <3>1. task'[d].pc = task[d].pc /\ task'[d].req = task[d].req
      BY <2>1, <2>3 DEF StartsWith
    <3>2. QED
      BY <2>2, <2>3, <3>1, StillPassed
  <2>4. task'[c].pc \in FlowPcs => Passed(c, flow[task[c].req.flow])'
    BY <2>1 DEF StartsWith, Request, Ops, Nameless, Flowing, Passed
  <2>5. QED
    BY <2>3, <2>4 DEF FlowsOK
<1>4. CASE Crash
  BY <1>4, CrashMoves DEF FlowsOK, FlowPcs, Flowing
<1>5. ASSUME NEW c \in Tasks, Handle(c)
      PROVE  FlowsOK'
  <2>1. Handled(c) /\ \A e \in Emails : late'[e] \subseteq late[e]
    BY <1>1, <1>5, HandleMoves, LateShrinks
  <2>2. ASSUME NEW d \in Tasks, d # c, task'[d].pc \in FlowPcs
        PROVE  Passed(d, flow[task[d].req.flow])'
    BY <2>1, <2>2, StillPassed DEF Handled
  <2> PICK f : f = task[c].req.flow
    OBVIOUS
  <2>3. ASSUME task'[c].pc \in FlowPcs
        PROVE  /\ task'[c].req = task[c].req /\ UNCHANGED <<flow, late>>
               /\ OauthLogin(c) \/ Consent(c) \/ SubjectHasMcpAccess(c)
    <3>1. ~Done(c)
      BY <1>1, <2>3, FreeIsTyped DEF Done, TasksOK, FlowPcs, Flowing
    <3>2. CASE OauthLogin(c) \/ Consent(c) \/ SubjectHasMcpAccess(c)
      BY <1>1, <3>1, <3>2 DEF OauthLogin, Consent, SubjectHasMcpAccess, GoOn, TasksOK, TaskRec, hydra
    <3>3. CASE Mailing(c)
      BY <1>1, <2>3, <3>1, <3>3, MailingGoes DEF FlowPcs, Flowing
    <3>4. CASE Administering(c)
      <4>1. task'[c].pc \in {"list", "setAccess", "recordGrant", "markInvited"}
        BY <1>1, <3>1, <3>4 DEF Administering, McpWaitlist, CreateListed, FindUser, SetEarlyAccess,
             RecordGrant, MarkInvited, DeleteCreator, GoOn, TasksOK, TaskRec
      <4>2. QED
        BY <2>3, <4>1 DEF FlowPcs, Flowing
    <3>5. CASE Proving(c)
      <4>1. task'[c].pc \in {"average", "update"}
        BY <1>1, <3>1, <3>5 DEF Proving, Challenge, VerifyHuman, ReadAverage, UpdateReputation,
             TasksOK, TaskRec
      <4>2. QED
        BY <2>3, <4>1 DEF FlowPcs, Flowing
    <3>6. CASE Login(c) \/ AcceptLogin(c) \/ GrantConsent(c) \/ RejectConsent(c) \/ Forget(c) \/ HydraFails(c)
      BY <3>1, <3>6 DEF Login, AcceptLogin, GrantConsent, RejectConsent, Forget, HydraFails
    <3>7. CASE Logout(c)
      <4>1. task'[c].pc = "forget"
        BY <1>1, <3>7 DEF Logout, GoOn, TasksOK, TaskRec
      <4>2. QED
        BY <2>3, <4>1 DEF FlowPcs, Flowing
    <3>8. QED
      BY <1>5, <3>2, <3>3, <3>4, <3>5, <3>6, <3>7 DEF Handle, Connecting
  <2>4. ASSUME task'[c].pc \in FlowPcs
        PROVE  Passed(c, flow[f])'
    <3>1. /\ task'[c].req = task[c].req /\ flow' = flow /\ late' = late
      BY <2>3, <2>4
    <3>2. /\ task[c].pc \in FlowPcs /\ task[c].pc # "idle"
      BY <2>3, <2>4 DEF OauthLogin, Consent, SubjectHasMcpAccess, At, FlowPcs, Flowing
    <3>3. /\ Passed(c, flow[f]) /\ f \in Flows /\ flow[f] \in FlowState /\ Fits(task[c].pc, task[c].req)
      BY <1>1, <3>2 DEF FlowsOK, TasksOK, RowsOK, Fits
    <3>n. ~Done(c)
      BY <1>1, <2>4, FreeIsTyped DEF Done, TasksOK, FlowPcs, Flowing
    <3>4. CASE OauthLogin(c)
      <4>1. task'[c].pc = "acceptLogin" /\ flow[f].subject # Null
        BY <1>1, <3>4, <3>n DEF OauthLogin, GoOn, TasksOK, TaskRec
      <4>2. QED
        BY <3>1, <3>3, <4>1 DEF Passed, FlowState
    <3>5. CASE Consent(c)
      <4>1. /\ task'[c].pc = "gate" /\ flow[f].state = "consent"
            /\ task[c].pc = "consentAccept" => flow[f].subject = task[c].req.email
            /\ task[c].pc \in {"consent", "consentAccept"}
        BY <1>1, <3>5, <3>n DEF Consent, At, GoOn, TasksOK, TaskRec
      <4>2. QED
        BY <3>1, <3>3, <4>1 DEF Passed, Fits
    <3>6. CASE SubjectHasMcpAccess(c)
      <4>1. /\ task[c].pc = "gate"
            /\ \/ task'[c].pc = "reject"
               \/ /\ task'[c].pc = "acceptConsent" /\ HasAccess(flow[f].subject)
                  /\ ~(task[c].req.op = "consent" /\ Screen /\ ~flow[f].skip)
        BY <1>1, <3>6, <3>n DEF SubjectHasMcpAccess, At, GoOn, TasksOK, TaskRec
      <4>2. flow[f].state # "login" /\ flow[f] # Null
        BY <3>3, <4>1, AccountsNulls DEF Passed
      <4>3. flow[f].subject \in Emails
        BY <1>1, <3>3, <4>2 DEF SubjectsKnown
      <4>4. HasAccess(flow[f].subject) => late[flow[f].subject] = {}
        BY <1>1, <4>3 DEF LateHasNoAccess
      <4>5. QED
        BY <3>1, <3>3, <4>1, <4>2, <4>4 DEF Passed, Fits
    <3>7. QED
      BY <2>3, <2>4, <3>4, <3>5, <3>6
  <2>5. task'[c].pc \in FlowPcs => Passed(c, flow[task[c].req.flow])'
    BY <2>3, <2>4
  <2>6. QED
    BY <2>2, <2>5 DEF FlowsOK
<1>6. QED
  BY <1>2, <1>3, <1>4, <1>5 DEF AccountsNext, Tick, StartFlow, accountsVars

-----------------------------------------------------------------------------
(* The reputation, and the theorems. *)

LEMMA TiersStep ==
  ASSUME AccountsInv, [AccountsNext]_accountsVars
  PROVE  TiersOK' /\ TierIsInformed'
<1>1. RowsOK /\ TasksOK /\ TiersOK /\ TierIsInformed
  BY DEF AccountsInv
<1>2. /\ rep \in Reputation /\ rep' \in Reputation /\ rep'.humans >= rep.humans /\ rep'.bots >= rep.bots
      /\ challenge' \in [Tasks -> PricedRec \cup {Null}]
      /\ \A c \in Tasks : challenge'[c] = challenge[c] \/ challenge'[c] = Null
           \/ /\ challenge'[c].read = rep \/ challenge'[c].read = Null
              /\ challenge'[c].known = task[c].known /\ task[c].pc # "idle"
  BY <1>1, HumanStep DEF RowsOK
<1>3. \A k : k = rep \/ Knows(k) =>
        k \in Reputation /\ k.humans <= rep'.humans /\ k.bots <= rep'.bots
  BY <1>2 DEF Knows, Reputation
<1>4. TierIsInformed'
  <2> SUFFICES ASSUME NEW c \in Tasks, challenge'[c] # Null, challenge'[c].read # Null
               PROVE  /\ challenge'[c].read.humans >= challenge'[c].known.humans
                      /\ challenge'[c].read.bots >= challenge'[c].known.bots
    BY DEF TierIsInformed
  <2>1. CASE challenge'[c] = challenge[c]
    BY <1>1, <2>1 DEF TierIsInformed
  <2>2. CASE challenge'[c] # challenge[c]
    <3>1. challenge'[c].read = rep /\ challenge'[c].known = task[c].known /\ Knows(task[c].known)
      BY <1>1, <1>2, <2>2 DEF TiersOK
    <3>2. QED
      BY <1>2, <3>1 DEF Knows, Reputation
  <2>3. QED
    BY <2>1, <2>2
<1>5. ASSUME UNCHANGED task
      PROVE  TiersOK'
  BY <1>1, <1>3, <1>5 DEF TiersOK, Knows
<1>6. ASSUME Crash
      PROVE  TiersOK'
  BY <1>6, CrashMoves DEF TiersOK
<1>7. ASSUME NEW c \in Tasks, Start(c)
      PROVE  TiersOK'
  <2>1. PICK r : r \in Request /\ StartsWith(c, r)
    BY <1>1, <1>7, StartMoves
  <2>2. task'[c].pc \notin {"average", "update"}
    BY <2>1 DEF StartsWith, Request, Ops, Nameless, Flowing
  <2>3. ASSUME NEW d \in Tasks, task'[d].pc # "idle"
        PROVE  /\ Knows(task[d].known)'
               /\ task'[d].pc \in {"average", "update"} => task'[d].token \in {"humans", "bots"}
    <3>1. CASE d = c
      BY <1>3, <2>1, <2>2, <3>1 DEF StartsWith, Knows
    <3>2. CASE d # c
      <4>1. task'[d].pc = task[d].pc /\ task'[d].token = task[d].token /\ task'[d].known = task[d].known
        BY <2>1, <3>2 DEF StartsWith
      <4>2. QED
        BY <1>1, <1>3, <2>3, <4>1 DEF TiersOK, Knows
    <3>3. QED
      BY <3>1, <3>2
  <2>4. QED
    BY <2>3 DEF TiersOK
<1>8. ASSUME NEW c \in Tasks, Handle(c)
      PROVE  TiersOK'
  <2>1. Handled(c)
    BY <1>1, <1>8, HandleMoves
  <2>2. ASSUME task'[c].pc # "idle"
        PROVE  /\ task'[c].known = task[c].known \/ task'[c].known = rep
               /\ task'[c].pc \in {"average", "update"} => task'[c].token \in {"humans", "bots"}
    <3>1. ~Done(c)
      BY <1>1, <2>2, FreeIsTyped DEF Done, TasksOK
    <3>2. CASE Proving(c)
      <4>1. CASE VerifyHuman(c)
        <5>1. PICK o \in {"humans", "bots"} : task' = [task EXCEPT ![c].pc = "average", ![c].token = o]
          BY <3>1, <4>1 DEF VerifyHuman
        <5>2. QED
          BY <1>1, <5>1 DEF TasksOK, TaskRec
      <4>2. CASE ReadAverage(c)
        <5>1. task[c].token \in {"humans", "bots"}
          BY <1>1, <4>2 DEF TiersOK, ReadAverage, At
        <5>2. QED
          BY <1>1, <4>2, <5>1 DEF ReadAverage, TasksOK, TaskRec
      <4>3. QED
        BY <3>1, <3>2, <4>1, <4>2 DEF Proving, Challenge, UpdateReputation
    <3>3. CASE Mailing(c)
      BY <1>1, <3>1, <3>3, MailingGoes
    <3>4. CASE Administering(c)
      BY <1>1, <3>1, <3>4 DEF Administering, McpWaitlist, CreateListed, FindUser, SetEarlyAccess,
           RecordGrant, MarkInvited, DeleteCreator, GoOn, TasksOK, TaskRec
    <3>5. CASE Connecting(c)
      BY <1>1, <3>1, <3>5 DEF Connecting, Login, OauthLogin, AcceptLogin, Consent, SubjectHasMcpAccess,
           GrantConsent, RejectConsent, Logout, Forget, HydraFails, GoOn, TasksOK, TaskRec
    <3>6. QED
      BY <1>8, <3>2, <3>3, <3>4, <3>5 DEF Handle
  <2>3. ASSUME NEW d \in Tasks, task'[d].pc # "idle"
        PROVE  /\ Knows(task[d].known)'
               /\ task'[d].pc \in {"average", "update"} => task'[d].token \in {"humans", "bots"}
    <3>1. CASE d = c
      <4>1. Knows(task[c].known)
        BY <1>1, <2>1 DEF TiersOK, Handled
      <4>2. QED
        BY <1>3, <2>2, <2>3, <3>1, <4>1 DEF Knows
    <3>2. CASE d # c
      <4>1. task'[d] = task[d]
        BY <2>1, <3>2 DEF Handled
      <4>2. QED
        BY <1>1, <1>3, <2>3, <4>1 DEF TiersOK, Knows
    <3>3. QED
      BY <3>1, <3>2
  <2>4. QED
    BY <2>3 DEF TiersOK
<1>9. QED
  BY <1>4, <1>5, <1>6, <1>7, <1>8 DEF AccountsNext, Tick, StartFlow, accountsVars

LEMMA AccountsStep == AccountsInv /\ [AccountsNext]_accountsVars => AccountsInv'
BY AccountRowsStep, TasksStep, AloneStep, DecisionsStep, LateStep, ConnectedStep, FlowsStep, TiersStep
   DEF AccountsInv

\* However the queries of requests interleave, and wherever the process restarts, the
\* accounts stay as their invariant says (index.ts of the auth service).
THEOREM AccountsInvariance == AccountsSpec => []AccountsInv
<1>1. AccountsInit => AccountsInv
  BY AccountsInitial
<1>2. AccountsInv /\ [AccountsNext]_accountsVars => AccountsInv'
  BY AccountsStep
<1>3. QED
  BY <1>1, <1>2, PTL DEF AccountsSpec

\* What an administrator decided, while nobody else decided, registered or deleted, is what
\* the account has, through deletion and a new registration too (index.ts:1842-1848).
THEOREM AccessDecided == AccountsSpec => []AccessIsDecided
<1>1. AccountsInv => AccessIsDecided
  <2> SUFFICES ASSUME AccountsInv, NEW e \in Emails, decided[e] # Null, user[e] # Null, Undisputed(e)
               PROVE  user[e].access = decided[e].on
    BY DEF AccessIsDecided
  <2>1. \A c \in Tasks : c \notin Deciders(e)
    BY AccountsNulls DEF AccountsInv, TasksOK, Fits, Deciders, Undisputed
  <2>2. Holding(e)
    BY <2>1 DEF AccountsInv, DecidedHolds, Undoing, Deciders
  <2>3. QED
    BY <2>1, <2>2 DEF Holding, Granting
<1>2. QED
  BY <1>1, AccountsInvariance, PTL

\* Nobody is connected to the MCP server but for a subject who had access since the request
\* came, and who approved it or had approved it before (index.ts:681).
THEOREM ConnectedEntitled == AccountsSpec => []ConnectedIsEntitled
<1>1. AccountsInv => ConnectedIsEntitled
  BY DEF AccountsInv
<1>2. QED
  BY <1>1, AccountsInvariance, PTL

\* No count is lost between two that overlap: a challenge is priced by all that was counted
\* before it was asked for.
THEOREM TiersInformed == AccountsSpec => []TierIsInformed
<1>1. AccountsInv => TierIsInformed
  BY DEF AccountsInv
<1>2. QED
  BY <1>1, AccountsInvariance, PTL
=============================================================================
