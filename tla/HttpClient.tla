----------------------------- MODULE HttpClient -----------------------------
(* The HTTP client of the commands: which server it trusts, and the tickets *)
(* it logs in with.                                                          *)
EXTENDS Integers, Sequences, FiniteSets
(* How the client comes to trust a server: the callback for each certificate *)
(* of the chain, the flag that the connections of a client share, and the    *)
(* file of confirmed fingerprints that all processes of a user rewrite.      *)

CONSTANTS
    TrustProc,   \* client processes
    TrustServer,
    ServerCerts, \* server -> the certificates it presents, one after the other
    Chains,      \* certificate -> what openssl says of each of its chain, root first
    Slots,       \* connections a client makes at the same time
    GivenFp,     \* the fingerprints given by option; TrNone: none
    TrNone

VARIABLES
    presented,  \* server -> which of its certificates it presents
    fpFile,   \* the file: server -> fingerprint
    trusting, \* process -> its client, or TrNone
    storing,  \* process -> store_fingerprint between read and write, or TrNone
    confirmed \* server -> the fingerprints its users have confirmed

trustVars == <<presented, fpFile, trusting, storing, confirmed>>

TrustInit ==
    /\ presented = [s \in TrustServer |-> 1]
    /\ fpFile = [s \in TrustServer |-> TrNone]
    /\ trusting = [p \in TrustProc |-> TrNone]
    /\ storing = [p \in TrustProc |-> TrNone]
    /\ confirmed = [s \in TrustServer |-> {}]

(* HttpClient::new: a fingerprint given by option is not cached, else the    *)
(* file is read                                                               *)
LoadFingerprint(server) == fpFile[server]
Idle == [cert |-> TrNone, at |-> 0, state |-> "idle", asked |-> FALSE]
NewTrust(p, server, given) ==
    /\ trusting[p] = TrNone
    /\ trusting' = [trusting EXCEPT ![p] =
           [server |-> server, expected |-> IF given # TrNone THEN given ELSE LoadFingerprint(server),
            caches |-> given = TrNone, trust |-> TRUE, verified |-> TrNone, conns |-> [c \in Slots[p] |-> Idle]]]
    /\ UNCHANGED <<presented, fpFile, storing, confirmed>>

Handshake(p, c) ==
    LET client == trusting[p]
    IN  /\ client # TrNone /\ client.conns[c].state = "idle"
        /\ trusting' = [trusting EXCEPT ![p].conns[c] =
               [cert |-> ServerCerts[client.server][presented[client.server]], at |-> 1, state |-> "checking", asked |-> FALSE]]
        /\ UNCHANGED <<presented, fpFile, storing, confirmed>>

(* verify_callback, from the root to the leaf.  What openssl accepts is      *)
(* accepted as long as nothing was forced before; a certificate of the chain *)
(* is forced, and from then on the leaf's fingerprint has to be known.       *)
Checking(p, c) == trusting[p] # TrNone /\ trusting[p].conns[c].state = "checking" /\ storing[p] = TrNone
Prevalidated(p, c) ==
    LET conn == trusting[p].conns[c] IN Chains[conn.cert][conn.at] /\ trusting[p].trust
AtLeaf(conn) == conn.at = Len(Chains[conn.cert])
NextCert(conn) == IF AtLeaf(conn) THEN [conn EXCEPT !.state = "open"] ELSE [conn EXCEPT !.at = @ + 1]

OpensslValid(p, c) ==
    /\ Checking(p, c) /\ Prevalidated(p, c)
    /\ trusting' = [trusting EXCEPT ![p].conns[c] = NextCert(@)]
    /\ UNCHANGED <<presented, fpFile, storing, confirmed>>
ForceChain(p, c) ==
    /\ Checking(p, c) /\ ~Prevalidated(p, c) /\ ~AtLeaf(trusting[p].conns[c])
    /\ trusting' = [trusting EXCEPT ![p].conns[c] = NextCert(@), ![p].trust = FALSE]
    /\ UNCHANGED <<presented, fpFile, storing, confirmed>>

(* A fingerprint that is accepted goes to the file and to the client *)
AcceptLeaf(p, c, asked) ==
    LET fp == trusting[p].conns[c].cert
    IN  /\ trusting' = [trusting EXCEPT ![p].conns[c] = [NextCert(@) EXCEPT !.asked = asked], ![p].verified = fp]
        /\ storing' = IF trusting[p].caches THEN [storing EXCEPT ![p] = [step |-> "read", fp |-> fp, data |-> TrNone]] ELSE storing
LeafUnknown(p, c) == Checking(p, c) /\ ~Prevalidated(p, c) /\ AtLeaf(trusting[p].conns[c])
LeafExpected(p, c) ==
    /\ LeafUnknown(p, c) /\ trusting[p].expected = trusting[p].conns[c].cert
    /\ AcceptLeaf(p, c, FALSE)
    /\ UNCHANGED <<presented, fpFile, confirmed>>
LeafConfirmed(p, c) ==
    /\ LeafUnknown(p, c) /\ trusting[p].expected # trusting[p].conns[c].cert
    /\ AcceptLeaf(p, c, TRUE)
    /\ confirmed' = [confirmed EXCEPT ![trusting[p].server] = @ \cup {trusting[p].conns[c].cert}]
    /\ UNCHANGED <<presented, fpFile>>
LeafRefused(p, c) ==
    /\ LeafUnknown(p, c) /\ trusting[p].expected # trusting[p].conns[c].cert
    /\ trusting' = [trusting EXCEPT ![p].conns[c].state = "refused"]
    /\ UNCHANGED <<presented, fpFile, storing, confirmed>>

(* store_fingerprint: the file is read and replaced, with no lock *)
StoreRead(p) ==
    /\ storing[p] # TrNone /\ storing[p].step = "read"
    /\ storing' = [storing EXCEPT ![p].step = "write", ![p].data = fpFile]
    /\ UNCHANGED <<presented, fpFile, trusting, confirmed>>
StoreWrite(p) ==
    /\ storing[p] # TrNone /\ storing[p].step = "write"
    /\ fpFile' = [storing[p].data EXCEPT ![trusting[p].server] = storing[p].fp]
    /\ storing' = [storing EXCEPT ![p] = TrNone]
    /\ UNCHANGED <<presented, trusting, confirmed>>

(* The process ends, in the middle of the file's replacement too *)
TrustEnd(p) ==
    /\ trusting[p] # TrNone
    /\ trusting' = [trusting EXCEPT ![p] = TrNone] /\ storing' = [storing EXCEPT ![p] = TrNone]
    /\ UNCHANGED <<presented, fpFile, confirmed>>

(* A server gets its next certificate *)
Recertify(s) ==
    /\ presented[s] < Len(ServerCerts[s])
    /\ presented' = [presented EXCEPT ![s] = @ + 1]
    /\ UNCHANGED <<fpFile, trusting, storing, confirmed>>

TrustNext ==
    \/ \E p \in TrustProc :
           \/ \E s \in TrustServer, given \in GivenFp : NewTrust(p, s, given)
           \/ \E c \in Slots[p] :
                  \/ Handshake(p, c) \/ OpensslValid(p, c) \/ ForceChain(p, c)
                  \/ LeafExpected(p, c) \/ LeafConfirmed(p, c) \/ LeafRefused(p, c)
           \/ StoreRead(p) \/ StoreWrite(p) \/ TrustEnd(p)
    \/ \E s \in TrustServer : Recertify(s)

-----------------------------------------------------------------------------
(* A connection is open only when openssl accepts the whole chain, or the    *)
(* leaf has the expected fingerprint, or it was confirmed in this handshake  *)
(* - also when another connection has turned the shared flag meanwhile.      *)
OpenIsTrusted ==
    \A p \in TrustProc : trusting[p] # TrNone =>
        \A c \in Slots[p] :
            LET conn == trusting[p].conns[c]
            IN  conn.state = "open" =>
                    \/ \A n \in DOMAIN Chains[conn.cert] : Chains[conn.cert][n]
                    \/ conn.cert = trusting[p].expected
                    \/ conn.asked

(* What the file has of a server was confirmed for that server, whichever    *)
(* process wrote the file last; and so is what a client expects, unless it   *)
(* was given.                                                                 *)
FileConfirmed ==
    /\ \A s \in TrustServer : fpFile[s] # TrNone => fpFile[s] \in confirmed[s]
    /\ \A p \in TrustProc : trusting[p] # TrNone /\ trusting[p].caches /\ trusting[p].expected # TrNone =>
           trusting[p].expected \in confirmed[trusting[p].server]

ServerTrustInv == OpenIsTrusted /\ FileConfirmed

-----------------------------------------------------------------------------

(* The client's tickets: the first login that all requests wait for, the     *)
(* task that renews the ticket, the file in which the processes of a user    *)
(* keep their tickets, and logout.  A ticket is its user and its age since   *)
(* the server issued it; the server's check of a ticket is external.         *)

CONSTANTS
    LoginProc,   \* client processes
    LoginUser,
    Lifetime,    \* TICKET_LIFETIME
    Margin,      \* the 60 seconds a cached ticket must last
    Interval,    \* time between renewals
    LoNone

ASSUME LoginAssumption == Lifetime > Interval + 2 * Margin /\ Margin > 0 /\ Interval > 0

VARIABLES
    tickets,   \* the file: user -> ticket and the age of its time stamp, or LoNone
    session,   \* process -> its client, or LoNone
    leaving    \* a logout between reading the file and replacing it, or LoNone

loginVars == <<tickets, session, leaving>>

LoginInit ==
    /\ tickets = [u \in LoginUser |-> LoNone]
    /\ session = [p \in LoginProc |-> LoNone] /\ leaving = LoNone

(* The server's check of a ticket *)
ServerValid(ticket) == ticket.age < Lifetime

Expired(entry) == entry.age >= Lifetime - Margin
(* load_ticket_info *)
LoadTicketInfo(user) ==
    IF tickets[user] = LoNone \/ Expired(tickets[user]) THEN LoNone ELSE tickets[user].ticket

(* HttpClient::new: a password that was given, else a cached ticket, else    *)
(* the password typed; what is used as password is LoNone for a password     *)
NewLogin(p, user, given) ==
    /\ session[p] = LoNone
    /\ session' = [session EXCEPT ![p] =
           [user |-> user, auth |-> IF given THEN LoNone ELSE LoadTicketInfo(user),
            login |-> "idle", renew |-> "off", wake |-> 0, asked |-> 0,
            answer |-> LoNone, store |-> LoNone, missed |-> FALSE, dropped |-> FALSE]]
    /\ UNCHANGED <<tickets, leaving>>

Active(p) == session[p] # LoNone /\ ~session[p].dropped
Asks(s) == (s.login = "asking" \/ s.renew = "asking") /\ s.store = LoNone

(* A request awaits the login; the first one sends it, the others listen *)
SendLogin(p) ==
    /\ Active(p) /\ session[p].login = "idle"
    /\ session' = [session EXCEPT ![p].login = "asking", ![p].asked = 0]
    /\ UNCHANGED <<tickets, leaving>>

(* credentials: the server takes the password, or a ticket that is not too   *)
(* old, and issues a ticket                                                   *)
Issued(p) ==
    LET s == session[p]
    IN  /\ Active(p) /\ Asks(s) /\ s.answer = LoNone
        /\ s.auth # LoNone => ServerValid(s.auth)
        /\ session' = [session EXCEPT ![p].answer = [user |-> s.user, age |-> 0]]
        /\ UNCHANGED <<tickets, leaving>>

(* The server refuses, or its answer is lost: the first login fails for good,*)
(* a renewal is tried again after the next sleep                              *)
LoginFails(p) ==
    LET s == session[p]
    IN  /\ Active(p) /\ s.login = "asking" /\ Asks(s)
        /\ session' = [session EXCEPT ![p].login = "failed", ![p].answer = LoNone]
        /\ UNCHANGED <<tickets, leaving>>
RenewFails(p) ==
    LET s == session[p]
    IN  /\ Active(p) /\ s.renew = "asking" /\ Asks(s)
        /\ session' = [session EXCEPT ![p].renew = "sleep", ![p].wake = Interval, ![p].answer = LoNone,
                                      ![p].missed = TRUE]
        /\ UNCHANGED <<tickets, leaving>>

(* The answer arrives. store_ticket_info: the file is read, then replaced    *)
(* without the entries that are too old, with no lock; the ticket gets the   *)
(* time of the reading                                                        *)
StoreTicketRead(p) ==
    LET s == session[p]
    IN  /\ Active(p) /\ s.answer # LoNone /\ s.store = LoNone
        /\ session' = [session EXCEPT ![p].store = [tickets EXCEPT ![s.user] = [ticket |-> s.answer, age |-> 0]]]
        /\ UNCHANGED <<tickets, leaving>>
StoreTicketWrite(p) ==
    LET s == session[p]
        kept == [u \in LoginUser |-> IF s.store[u] # LoNone /\ Expired(s.store[u]) THEN LoNone ELSE s.store[u]]
    IN  /\ Active(p) /\ s.store # LoNone
        /\ tickets' = kept
        /\ session' = [session EXCEPT ![p].store = LoNone, ![p].auth = s.answer, ![p].answer = LoNone,
                                      ![p].login = "done", ![p].renew = "sleep", ![p].wake = Interval]
        /\ UNCHANGED leaving

(* renewal_future: wakes up and asks with the ticket it has *)
RenewWake(p) ==
    LET s == session[p]
    IN  /\ Active(p) /\ s.renew = "sleep" /\ s.wake = 0
        /\ session' = [session EXCEPT ![p].renew = "asking", ![p].asked = 0]
        /\ UNCHANGED <<tickets, leaving>>

(* The client is dropped: the renewal is aborted where it waits for the      *)
(* server or sleeps; a login goes with its requests                           *)
DropClient(p) ==
    /\ Active(p) /\ session[p].store = LoNone
    /\ session' = [session EXCEPT ![p].dropped = TRUE, ![p].renew = "off", ![p].answer = LoNone]
    /\ UNCHANGED <<tickets, leaving>>
LoginEnds(p) ==
    /\ session[p] # LoNone
    /\ session' = [session EXCEPT ![p] = LoNone]
    /\ UNCHANGED <<tickets, leaving>>

(* delete_ticket_info, by a process without a client *)
Logout(u) ==
    /\ leaving = LoNone /\ tickets[u] # LoNone
    /\ leaving' = [tickets EXCEPT ![u] = LoNone]
    /\ UNCHANGED <<tickets, session>>
LogoutWrite ==
    /\ leaving # LoNone
    /\ tickets' = leaving /\ leaving' = LoNone
    /\ UNCHANGED session

(* Time passes, but not past a timer; an answer takes Margin at most and     *)
(* replacing the file no time; ages past Lifetime are alike                   *)
Older(x) == [x EXCEPT !.age = IF @ < Lifetime THEN @ + 1 ELSE @]
OlderOrNone(x) == IF x = LoNone THEN LoNone ELSE Older(x)
LoginTick ==
    /\ leaving = LoNone
    /\ \A p \in LoginProc : Active(p) =>
           /\ session[p].store = LoNone
           /\ session[p].renew = "sleep" => session[p].wake > 0
           /\ Asks(session[p]) => session[p].asked < Margin
    /\ tickets' = [u \in LoginUser |->
           IF tickets[u] = LoNone THEN LoNone ELSE [Older(tickets[u]) EXCEPT !.ticket = Older(@)]]
    /\ session' = [p \in LoginProc |->
           IF ~Active(p) THEN session[p]
           ELSE [session[p] EXCEPT !.auth = OlderOrNone(@), !.answer = OlderOrNone(@),
                                   !.wake = IF session[p].renew = "sleep" THEN @ - 1 ELSE 0,
                                   !.asked = IF Asks(session[p]) THEN @ + 1 ELSE 0]]
    /\ UNCHANGED leaving

LoginNext ==
    \/ \E p \in LoginProc :
           \/ \E u \in LoginUser, given \in BOOLEAN : NewLogin(p, u, given)
           \/ SendLogin(p) \/ Issued(p) \/ LoginFails(p) \/ RenewFails(p)
           \/ StoreTicketRead(p) \/ StoreTicketWrite(p) \/ RenewWake(p)
           \/ DropClient(p) \/ LoginEnds(p)
    \/ \E u \in LoginUser : Logout(u)
    \/ LogoutWrite \/ LoginTick

-----------------------------------------------------------------------------
(* The request that is sent next, once the login is done, carries a ticket   *)
(* of its user that the server still accepts, as long as no renewal failed.  *)
RequestsAuthorized ==
    \A p \in LoginProc : Active(p) /\ session[p].login = "done" =>
        /\ session[p].auth # LoNone
        /\ session[p].auth.user = session[p].user
        /\ ~session[p].missed => ServerValid(session[p].auth)

(* A ticket that is taken from the file is its user's, and the server still  *)
(* accepts it although the file has the time at which it was stored and the  *)
(* processes overwrite each other's tickets: Margin covers the answer.       *)
CachedUsable ==
    \A u \in LoginUser : LoadTicketInfo(u) # LoNone =>
        LoadTicketInfo(u).user = u /\ ServerValid(LoadTicketInfo(u))

(* Nothing renews the ticket of a client that was dropped or never logged in *)
RenewsWhileUsed ==
    \A p \in LoginProc : session[p] # LoNone /\ session[p].renew # "off" =>
        ~session[p].dropped /\ session[p].login = "done"

ClientLoginInv == RequestsAuthorized /\ CachedUsable /\ RenewsWhileUsed
=============================================================================
