---------------------------- MODULE ServiceProofs ----------------------------
(***************************************************************************)
(* Revocation and the audit log, for any number of tokens, requests and    *)
(* crashes: a revoked token stays revoked as long as administrators do not *)
(* overlap (SerialAdmin), and the log is one complete chain as long as one *)
(* API process appends to it (OneServer).                                  *)
(***************************************************************************)
EXTENDS Service, TLAPS

OneServer == \A s, u \in Servers : s = u

AllScopes == {"status:read", "evidence:read", "execute:run", "*"}
TokenRecords == [scopes : SUBSET AllScopes, revoked : BOOLEAN]

\* The documents that can be the auth store.
Stores == UNION {[D -> TokenRecords] : D \in SUBSET Tokens}

AdminLabels == {"idle", "revoke-load", "revoke-save", "issue-load", "issue-save"}
RequestLabels == {"new", "verify", "audit", "append", "decided", "answered", "dropped"}

AdminRecords ==
  [pc : AdminLabels, cmd : {"none", "issue", "revoke", "rotate"}, id : Tokens \cup {Nobody},
   doc : Stores, scopes : SUBSET AllScopes]

AuthTypes ==
  /\ auth \in Stores /\ revoked \subseteq Tokens /\ admin \in [Admins -> AdminRecords]
  /\ \A a \in Admins : ~Idle(a) => admin[a].id \in Tokens

Paths == Endpoints \cup {"none"}
StatusCodes == {0, 200, 400, 401, 403, 500}
ReqRecords ==
  [pc : RequestLabels, server : Servers \cup {Nobody}, token : Tokens \cup {Nobody},
   path : Paths, allowed : BOOLEAN, before : SUBSET Tokens, status : StatusCodes]

RequestTypes ==
  /\ req \in [Requests -> ReqRecords]
  /\ audit \in Seq(AuditRecords \cup {TornRecord})
  /\ holder \in [Servers -> Requests \cup {Nobody}]
  /\ prior \in [Requests -> Requests \cup {Nobody}]
  /\ \A r \in Requests : req[r].pc \in {"verify", "audit", "append", "decided"} =>
       req[r].server \in Servers

ServiceTypes == AuthTypes /\ RequestTypes

\* One administrator at a time works on the token store, and the copy it is about
\* to modify and save is what is on disk.
StoreCurrent ==
  /\ \A a, b \in Admins : ~Idle(a) /\ ~Idle(b) => a = b
  /\ \A a \in Admins :
       /\ admin[a].pc \in {"revoke-save", "issue-save"} => admin[a].doc = auth
       /\ admin[a].pc \in {"revoke-load", "revoke-save"} => admin[a].id \in DOMAIN auth

\* A request was told nothing before its token is looked up, and what it may not
\* be allowed is still revoked then.
Undecided ==
  \A r \in Requests : req[r].pc \in {"new", "verify"} =>
    ~req[r].allowed /\ req[r].before \subseteq revoked

RevocationInv == StoreCurrent /\ Undecided /\ RevocationHolds

\* The log shows r once, with the decision b.
Entered(r, b) ==
  \E i \in DOMAIN audit :
    /\ audit[i] # TornRecord /\ audit[i].by = r /\ audit[i].allowed = b
    /\ \A k \in DOMAIN audit : k # i /\ audit[k] # TornRecord => audit[k].by # r

\* A torn line is the last one; every other names the one before it.
Chain ==
  \A i \in DOMAIN audit :
    IF audit[i] = TornRecord THEN i = Len(audit)
    ELSE audit[i].prev = IF i = 1 THEN Nobody ELSE audit[i - 1].by

\* Whoever is about to append holds the lock, and the log still ends as it was read.
AppenderCurrent ==
  \A r \in Requests : req[r].pc = "append" =>
    /\ holder[req[r].server] = r /\ LastRecord # TornRecord
    /\ prior[r] = IF LastRecord = Nobody THEN Nobody ELSE LastRecord.by

\* A request enters the log with its decision, not before, and once.
EnteredOnce ==
  \A r \in Requests :
    /\ req[r].pc \in {"new", "verify", "audit", "append"} =>
         \A k \in DOMAIN audit : audit[k] # TornRecord => audit[k].by # r
    /\ req[r].pc = "decided" => Entered(r, req[r].allowed)
    /\ req[r].pc = "answered" => Entered(r, req[r].status \notin {401, 403})

AuditInv == Chain /\ AppenderCurrent /\ EnteredOnce

-----------------------------------------------------------------------------
\* Facts about the documents of load_store and save_store.
LEMMA StoreFacts ==
  /\ <<>> \in Stores
  /\ \A f \in Stores :
       /\ DOMAIN f \subseteq Tokens /\ \A t \in DOMAIN f : f[t] \in TokenRecords
       /\ \A t \in Tokens : [f EXCEPT ![t].revoked = TRUE] \in Stores
       /\ \A t \in Tokens, sc \in SUBSET AllScopes :
            [u \in DOMAIN f \cup {t} |->
               IF u = t THEN [scopes |-> sc, revoked |-> FALSE] ELSE f[u]] \in Stores
<1>1. <<>> \in [{} -> TokenRecords]
  OBVIOUS
<1>2. ASSUME NEW f \in Stores
      PROVE  /\ DOMAIN f \subseteq Tokens /\ \A t \in DOMAIN f : f[t] \in TokenRecords
             /\ \A t \in Tokens : [f EXCEPT ![t].revoked = TRUE] \in Stores
             /\ \A t \in Tokens, sc \in SUBSET AllScopes :
                  [u \in DOMAIN f \cup {t} |->
                     IF u = t THEN [scopes |-> sc, revoked |-> FALSE] ELSE f[u]] \in Stores
  <2>1. PICK D \in SUBSET Tokens : f \in [D -> TokenRecords]
    BY DEF Stores
  <2>2. ASSUME NEW t \in Tokens PROVE [f EXCEPT ![t].revoked = TRUE] \in [D -> TokenRecords]
    BY <2>1 DEF TokenRecords
  <2>3. ASSUME NEW t \in Tokens, NEW sc \in SUBSET AllScopes
        PROVE  [u \in DOMAIN f \cup {t} |->
                  IF u = t THEN [scopes |-> sc, revoked |-> FALSE] ELSE f[u]]
                 \in [D \cup {t} -> TokenRecords]
    BY <2>1 DEF TokenRecords
  <2> QED
    <3>1. DOMAIN f = D /\ \A t \in D : f[t] \in TokenRecords
      BY <2>1
    <3>2. ASSUME NEW E \in SUBSET Tokens, NEW g \in [E -> TokenRecords] PROVE g \in Stores
      BY DEF Stores
    <3>3. ASSUME NEW t \in Tokens PROVE [f EXCEPT ![t].revoked = TRUE] \in Stores
      BY <2>2, <3>2
    <3>4. ASSUME NEW t \in Tokens, NEW sc \in SUBSET AllScopes
          PROVE  [u \in DOMAIN f \cup {t} |->
                    IF u = t THEN [scopes |-> sc, revoked |-> FALSE] ELSE f[u]] \in Stores
      <4>1. D \cup {t} \in SUBSET Tokens
        OBVIOUS
      <4> QED
        BY <2>3, <3>2, <4>1
    <3> QED
      BY <3>1, <3>3, <3>4
<1> QED
  BY <1>1, <1>2 DEF Stores

\* What the commands do to the token store: it stays a store, and whoever is not
\* involved keeps its place.
LEMMA AuthTypesInductive == AuthTypes /\ [ServiceNext]_serviceVars => AuthTypes'
<1> SUFFICES ASSUME AuthTypes, [ServiceNext]_serviceVars PROVE AuthTypes'
  OBVIOUS
<1> USE StoreFacts DEF AuthTypes, AdminRecords, AdminLabels, Idle
<1>1. ASSUME NEW a \in Admins, NEW cmd \in {"issue", "revoke", "rotate"}, NEW t \in Tokens,
             Command(a, cmd, t)
      PROVE  AuthTypes'
  <2> DEFINE sc == IF cmd = "issue" THEN Roles["runner"] ELSE auth[t].scopes
             new == [pc |-> IF cmd = "issue" THEN "issue-load" ELSE "revoke-load",
                     cmd |-> cmd, id |-> t, doc |-> <<>>, scopes |-> sc]
  <2>1. sc \in SUBSET AllScopes
    <3>1. Roles["runner"] \in SUBSET AllScopes
      BY DEF Roles, AllScopes
    <3> QED
      BY <1>1, <3>1 DEF Command, TokenRecords
  <2>2. new \in AdminRecords /\ new.id = t
    BY <2>1
  <2>3. admin' = [admin EXCEPT ![a] = new] /\ auth' = auth /\ revoked' = revoked
    BY <1>1 DEF Command
  <2> QED
    BY <2>2, <2>3
<1>2. ASSUME NEW a \in Admins, LoadStore(a) PROVE AuthTypes'
  BY <1>2 DEF LoadStore
<1>3. ASSUME NEW a \in Admins, Revoke(a) PROVE AuthTypes'
  BY <1>3 DEF Revoke, NoAdmin
<1>4. ASSUME NEW a \in Admins, Issue(a) PROVE AuthTypes'
  <2>1. PICK t \in Tokens :
          auth' = [u \in DOMAIN admin[a].doc \cup {t} |->
                     IF u = t THEN [scopes |-> admin[a].scopes, revoked |-> FALSE]
                              ELSE admin[a].doc[u]]
    BY <1>4 DEF Issue
  <2>2. admin[a].doc \in Stores /\ admin[a].scopes \in SUBSET AllScopes
    OBVIOUS
  <2>3. auth' \in Stores
    BY <2>1, <2>2
  <2>4. revoked' = revoked /\ admin' = [admin EXCEPT ![a] = NoAdmin]
    BY <1>4 DEF Issue
  <2> QED
    BY <2>3, <2>4 DEF NoAdmin
<1>5. ASSUME NEW a \in Admins, AdminCrash(a) PROVE AuthTypes'
  BY <1>5 DEF AdminCrash, NoAdmin
<1>6. ASSUME UNCHANGED <<auth, admin, revoked>> PROVE AuthTypes'
  BY <1>6
<1> QED
  BY <1>1, <1>2, <1>3, <1>4, <1>5, <1>6
     DEF ServiceNext, serviceVars, Arrive, Principal, AuditRead, AuditAppend, Refuse, Handle,
         ServerCrash

\* The same for the handler threads and the audit log.
LEMMA RequestTypesInductive ==
  AuthTypes /\ RequestTypes /\ [ServiceNext]_serviceVars => RequestTypes'
<1> SUFFICES ASSUME AuthTypes, RequestTypes, [ServiceNext]_serviceVars PROVE RequestTypes'
  OBVIOUS
<1> DEFINE Placed(q) == q.pc \in {"verify", "audit", "append", "decided"} => q.server \in Servers
<1> USE DEF RequestTypes
<1>a. ASSUME NEW r \in Requests, NEW q \in ReqRecords, Placed(q),
             req' = [req EXCEPT ![r] = q]
      PROVE  /\ req' \in [Requests -> ReqRecords]
             /\ \A x \in Requests : Placed(req'[x])
  BY <1>a
<1> HIDE DEF Placed
<1>b. ASSUME NEW r \in Requests PROVE req[r] \in ReqRecords /\ Placed(req[r])
  BY <1>b DEF Placed
<1>c. Dropped \in ReqRecords /\ Placed(Dropped)
  BY DEF Dropped, NoRequest, ReqRecords, RequestLabels, StatusCodes, Paths, Placed
<1>1. ASSUME NEW r \in Requests, NEW s \in Servers, NEW t \in Tokens \cup {Nobody},
             NEW path \in Endpoints, Arrive(r, s, t, path)
      PROVE  RequestTypes'
  <2> DEFINE q == [pc |-> "verify", server |-> s, token |-> t, path |-> path,
                   allowed |-> FALSE, before |-> revoked, status |-> 0]
  <2>1. q \in ReqRecords /\ Placed(q)
    BY DEF ReqRecords, RequestLabels, StatusCodes, Paths, Placed, AuthTypes
  <2> QED
    BY <1>1, <1>a, <2>1 DEF Arrive, Placed
<1>2. ASSUME NEW r \in Requests, Principal(r) PROVE RequestTypes'
  <2> DEFINE q == [req[r] EXCEPT !.pc = "audit",
                     !.allowed = VerifyToken(req[r].token, RequiredScope(req[r].path))]
  <2>1. q \in ReqRecords /\ Placed(q)
    BY <1>2, <1>b DEF Principal, ReqRecords, RequestLabels, Placed, VerifyToken
  <2>2. req' = [req EXCEPT ![r] = q]
    BY <1>2 DEF Principal
  <2> QED
    BY <1>2, <1>a, <2>1, <2>2 DEF Principal, Placed
<1>3. ASSUME NEW r \in Requests, AuditRead(r) PROVE RequestTypes'
  <2>0. req[r].pc = "audit" /\ UNCHANGED audit
    BY <1>3 DEF AuditRead
  <2>1. CASE req' = [req EXCEPT ![r] = Dropped] /\ UNCHANGED <<holder, prior>>
    BY <1>a, <1>c, <2>0, <2>1 DEF Placed
  <2>2. CASE /\ LastRecord # TornRecord
             /\ holder' = [holder EXCEPT ![req[r].server] = r]
             /\ prior' = [prior EXCEPT ![r] = IF LastRecord = Nobody THEN Nobody ELSE LastRecord.by]
             /\ req' = [req EXCEPT ![r].pc = "append"]
    <3> DEFINE q == [req[r] EXCEPT !.pc = "append"]
    <3>1. q \in ReqRecords /\ Placed(q)
      BY <1>b, <2>0 DEF ReqRecords, RequestLabels, Placed
    <3>2. req' = [req EXCEPT ![r] = q]
      BY <2>2
    <3>3. LastRecord = Nobody \/ LastRecord \in AuditRecords
      <4>1. audit # <<>> => Len(audit) \in DOMAIN audit
        OBVIOUS
      <4> QED
        BY <2>2, <4>1 DEF LastRecord
    <3>4. prior' \in [Requests -> Requests \cup {Nobody}]
      BY <2>2, <3>3 DEF AuditRecords
    <3>5. req[r].server \in Servers /\ holder' \in [Servers -> Requests \cup {Nobody}]
      BY <2>0, <2>2
    <3> QED
      BY <1>a, <2>0, <3>1, <3>2, <3>4, <3>5 DEF Placed
  <2> QED
    BY <1>3, <2>1, <2>2 DEF AuditRead
<1>4. ASSUME NEW r \in Requests, AuditAppend(r) PROVE RequestTypes'
  <2> DEFINE q == [req[r] EXCEPT !.pc = "decided"]
             line == [by |-> r, prev |-> prior[r], allowed |-> req[r].allowed]
  <2>1. q \in ReqRecords /\ Placed(q) /\ line \in AuditRecords
    BY <1>4, <1>b DEF AuditAppend, ReqRecords, RequestLabels, Placed, AuditRecords
  <2>2. req' = [req EXCEPT ![r] = q] /\ audit' = Append(audit, line)
    BY <1>4 DEF AuditAppend
  <2> QED
    BY <1>4, <1>a, <2>1, <2>2 DEF AuditAppend, Placed
<1>5. ASSUME NEW r \in Requests, NEW status \in StatusCodes, Answer(r, status),
             UNCHANGED <<audit, holder, prior>>
      PROVE  RequestTypes'
  <2> DEFINE q == [req[r] EXCEPT !.pc = "answered", !.status = status,
                                 !.server = Nobody, !.path = "none"]
  <2>1. q \in ReqRecords /\ Placed(q)
    BY <1>b DEF ReqRecords, RequestLabels, Placed, Paths
  <2> QED
    BY <1>5, <1>a, <2>1 DEF Answer, Placed
<1>6. ASSUME NEW r \in Requests, Refuse(r) \/ Handle(r) PROVE RequestTypes'
  BY <1>5, <1>6 DEF Refuse, Handle, Statuses, StatusCodes
<1>7. ASSUME NEW s \in Servers, ServerCrash(s) PROVE RequestTypes'
  <2>1. \A x \in Requests : req'[x] \in {Dropped, req[x]}
    BY <1>7 DEF ServerCrash
  <2>2. req' \in [Requests -> ReqRecords] /\ \A x \in Requests : Placed(req'[x])
    BY <1>7, <1>b, <1>c, <2>1 DEF ServerCrash
  <2> QED
    BY <1>7, <2>2 DEF ServerCrash, Placed
<1>8. ASSUME UNCHANGED <<req, audit, holder, prior>> PROVE RequestTypes'
  BY <1>8
<1> QED
  BY <1>1, <1>2, <1>3, <1>4, <1>6, <1>7, <1>8
     DEF ServiceNext, serviceVars, Command, LoadStore, Revoke, Issue, AdminCrash

\* Every step of the API and of ppc-lab-security keeps the token store, the handler
\* threads and the audit log well formed.
THEOREM ServiceTypesHold == ServiceSpec => []ServiceTypes
<1>1. ServiceInit => ServiceTypes
  <2> SUFFICES ASSUME ServiceInit PROVE AuthTypes /\ RequestTypes
    BY DEF ServiceTypes
  <2>1. ASSUME NEW t \in DOMAIN FirstTokens PROVE Roles[FirstTokens[t]] \in SUBSET AllScopes
    BY ServiceAssumption DEF Roles, AllScopes
  <2>2. auth \in [DOMAIN FirstTokens -> TokenRecords]
    BY <2>1 DEF ServiceInit, TokenRecords
  <2>3. auth \in Stores
    BY <2>2, ServiceAssumption DEF Stores
  <2>4. AuthTypes
    BY <2>3, StoreFacts DEF ServiceInit, AuthTypes, NoAdmin, AdminRecords, AdminLabels, Idle
  <2>5. RequestTypes
    BY DEF ServiceInit, RequestTypes, NoRequest, ReqRecords, RequestLabels, Paths, StatusCodes
  <2> QED
    BY <2>4, <2>5
<1>2. ServiceTypes /\ [ServiceNext]_serviceVars => ServiceTypes'
  BY AuthTypesInductive, RequestTypesInductive DEF ServiceTypes
<1> QED
  BY <1>1, <1>2, PTL DEF ServiceSpec

-----------------------------------------------------------------------------
\* RevocationInv is inductive when no two administrators run a command at once.
LEMMA RevocationInductive ==
  ASSUME SerialAdmin
  PROVE  ServiceTypes /\ RevocationInv /\ [ServiceNext]_serviceVars => RevocationInv'
<1> SUFFICES ASSUME ServiceTypes, RevocationInv, [ServiceNext]_serviceVars
             PROVE  RevocationInv'
  OBVIOUS
<1> USE DEF RevocationInv, StoreCurrent, Undecided, RevocationHolds, Idle
<1>1. admin \in [Admins -> AdminRecords] /\ req \in [Requests -> ReqRecords]
  BY DEF ServiceTypes, AuthTypes, RequestTypes
<1>2. ASSUME NEW a \in Admins, NEW cmd \in {"issue", "revoke", "rotate"}, NEW t \in Tokens,
             Command(a, cmd, t)
      PROVE  RevocationInv'
  BY <1>1, <1>2, SerialAdmin DEF Command
<1>3. ASSUME NEW a \in Admins, LoadStore(a) PROVE RevocationInv'
  BY <1>1, <1>3 DEF LoadStore, AdminRecords
<1>4. ASSUME NEW a \in Admins, Revoke(a) PROVE RevocationInv'
  <2>1. /\ admin[a].doc = auth /\ admin[a].id \in DOMAIN auth
        /\ \A b \in Admins \ {a} : Idle(b)
    BY <1>4 DEF Revoke
  <2>2. /\ DOMAIN auth' = DOMAIN auth /\ auth'[admin[a].id].revoked
        /\ \A t \in DOMAIN auth : auth[t].revoked => auth'[t].revoked
    BY <1>4, <2>1, StoreFacts DEF Revoke, ServiceTypes, AuthTypes, TokenRecords
  <2>3. /\ admin'[a].pc \in {"idle", "issue-load"} /\ req' = req
        /\ \A b \in Admins \ {a} : admin'[b] = admin[b]
        /\ revoked' = revoked \cup {admin[a].id}
    BY <1>1, <1>4 DEF Revoke, NoAdmin, AdminRecords
  <2> QED
    BY <2>1, <2>2, <2>3
<1>5. ASSUME NEW a \in Admins, Issue(a) PROVE RevocationInv'
  <2>1. admin[a].doc = auth /\ \A b \in Admins \ {a} : Idle(b)
    BY <1>5 DEF Issue
  <2>2. \A t \in DOMAIN auth : t \in DOMAIN auth' /\ auth'[t] = auth[t]
    BY <1>5, <2>1 DEF Issue
  <2>3. /\ admin'[a].pc = "idle" /\ req' = req /\ revoked' = revoked
        /\ \A b \in Admins \ {a} : admin'[b] = admin[b]
    BY <1>1, <1>5 DEF Issue, NoAdmin
  <2> QED
    BY <2>1, <2>2, <2>3
<1>6. ASSUME NEW a \in Admins, AdminCrash(a) PROVE RevocationInv'
  BY <1>1, <1>6 DEF AdminCrash, NoAdmin
<1>7. ASSUME NEW r \in Requests, NEW s \in Servers, NEW t \in Tokens \cup {Nobody},
             NEW path \in Endpoints, Arrive(r, s, t, path)
      PROVE  RevocationInv'
  BY <1>1, <1>7 DEF Arrive
<1>8. ASSUME NEW r \in Requests, Principal(r) PROVE RevocationInv'
  BY <1>1, <1>8 DEF Principal, VerifyToken, ReqRecords
<1>9. ASSUME NEW r \in Requests, AuditRead(r) PROVE RevocationInv'
  BY <1>1, <1>9 DEF AuditRead, Dropped, NoRequest, ReqRecords
<1>10. ASSUME NEW r \in Requests, AuditAppend(r) PROVE RevocationInv'
  BY <1>1, <1>10 DEF AuditAppend, ReqRecords
<1>11. ASSUME NEW r \in Requests, Refuse(r) \/ Handle(r) PROVE RevocationInv'
  <2>1. PICK status : Answer(r, status)
    BY <1>11 DEF Refuse, Handle
  <2>2. /\ \A x \in Requests \ {r} : req'[x] = req[x]
        /\ req'[r].pc = "answered" /\ req'[r].allowed = req[r].allowed
        /\ req'[r].token = req[r].token /\ req'[r].before = req[r].before
    BY <1>1, <2>1 DEF Answer, ReqRecords
  <2> QED
    BY <1>11, <2>2 DEF Refuse, Handle
<1>12. ASSUME NEW s \in Servers, ServerCrash(s) PROVE RevocationInv'
  BY <1>1, <1>12 DEF ServerCrash, Dropped, NoRequest
<1>13. CASE UNCHANGED serviceVars
  BY <1>13 DEF serviceVars
<1> QED
  BY <1>2, <1>3, <1>4, <1>5, <1>6, <1>7, <1>8, <1>9, <1>10, <1>11, <1>12, <1>13
     DEF ServiceNext

\* Once a revocation was reported, no request that arrives later is allowed under
\* that token, and nothing brings the token back, for every set of tokens, requests
\* and administrators, if administrators take turns.
THEOREM RevocationImmediate ==
  ASSUME SerialAdmin PROVE ServiceSpec => []RevocationHolds
<1>1. ServiceInit => RevocationInv
  BY DEF ServiceInit, RevocationInv, StoreCurrent, Undecided, RevocationHolds, Idle, NoAdmin,
         NoRequest
<1>2. ServiceTypes /\ RevocationInv /\ [ServiceNext]_serviceVars => RevocationInv'
  BY RevocationInductive, SerialAdmin
<1>3. RevocationInv => RevocationHolds
  BY DEF RevocationInv
<1> QED
  BY <1>1, <1>2, <1>3, ServiceTypesHold, PTL DEF ServiceSpec

-----------------------------------------------------------------------------
\* What a line at the end does to the log.
LEMMA AppendFacts ==
  ASSUME NEW S, NEW log \in Seq(S), NEW e \in S
  PROVE  /\ Append(log, e) \in Seq(S) /\ Len(Append(log, e)) = Len(log) + 1
         /\ DOMAIN Append(log, e) = DOMAIN log \cup {Len(log) + 1}
         /\ Len(log) \in Nat /\ DOMAIN log = 1..Len(log)
         /\ \A i \in DOMAIN log : Append(log, e)[i] = log[i]
         /\ Append(log, e)[Len(log) + 1] = e
OBVIOUS

\* Steps that leave the log and the lock alone and move one thread on.
LEMMA AuditUntouched ==
  ASSUME ServiceTypes, AuditInv, UNCHANGED <<audit, holder, prior>>,
         \A x \in Requests :
           /\ req'[x].pc = "append" => req'[x] = req[x]
           /\ req'[x].pc \in {"new", "verify", "audit"} =>
                req[x].pc \in {"new", "verify", "audit"}
           /\ req'[x].pc = "decided" => req'[x] = req[x]
           /\ req'[x].pc = "answered" => \/ req'[x] = req[x]
                                         \/ /\ req[x].pc = "decided"
                                            /\ req[x].allowed = (req'[x].status \notin {401, 403})
  PROVE  AuditInv'
<1>1. Chain'
  BY DEF AuditInv, Chain
<1>2. AppenderCurrent'
  BY DEF AuditInv, AppenderCurrent, LastRecord
<1>3. \A r, b : Entered(r, b)' = Entered(r, b)
  BY DEF Entered
<1>4. EnteredOnce'
  <2> SUFFICES ASSUME NEW r \in Requests
               PROVE  /\ req'[r].pc \in {"new", "verify", "audit", "append"} =>
                           \A k \in DOMAIN audit : audit[k] # TornRecord => audit[k].by # r
                      /\ req'[r].pc = "decided" => Entered(r, req'[r].allowed)
                      /\ req'[r].pc = "answered" => Entered(r, req'[r].status \notin {401, 403})
    BY <1>3 DEF EnteredOnce
  <2> QED
    BY DEF AuditInv, EnteredOnce
<1> QED
  BY <1>1, <1>2, <1>4 DEF AuditInv

\* AuditInv is inductive when one API process appends to the log.
LEMMA AuditInductive ==
  ASSUME OneServer
  PROVE  ServiceTypes /\ AuditInv /\ [ServiceNext]_serviceVars => AuditInv'
<1> SUFFICES ASSUME ServiceTypes, AuditInv, [ServiceNext]_serviceVars PROVE AuditInv'
  OBVIOUS
<1>1. /\ req \in [Requests -> ReqRecords] /\ audit \in Seq(AuditRecords \cup {TornRecord})
      /\ holder \in [Servers -> Requests \cup {Nobody}]
      /\ prior \in [Requests -> Requests \cup {Nobody}]
      /\ \A r \in Requests : req[r].pc \in {"verify", "audit", "append", "decided"} =>
           req[r].server \in Servers
  BY DEF ServiceTypes, RequestTypes
<1>2. /\ Nobody \notin Requests \cup AuditRecords /\ TornRecord \notin AuditRecords
      /\ Nobody # TornRecord
  BY ServiceAssumption, AuditAssumption
\* Two threads that are about to append would hold the same lock.
<1>3. \A x, y \in Requests : req[x].pc = "append" /\ req[y].pc = "append" => x = y
  BY <1>1, OneServer DEF OneServer, AuditInv, AppenderCurrent
<1>4. ASSUME NEW r \in Requests, AuditRead(r) PROVE AuditInv'
  <2>1. CASE LastRecord = TornRecord /\ req' = [req EXCEPT ![r] = Dropped] /\ UNCHANGED <<holder, prior>>
    BY <1>1, <1>4, <2>1, AuditUntouched DEF AuditRead, Dropped, NoRequest
  <2>2. CASE /\ LastRecord # TornRecord
             /\ holder' = [holder EXCEPT ![req[r].server] = r]
             /\ prior' = [prior EXCEPT ![r] = IF LastRecord = Nobody THEN Nobody ELSE LastRecord.by]
             /\ req' = [req EXCEPT ![r].pc = "append"]
    <3>1. req[r].pc = "audit" /\ holder[req[r].server] = Nobody /\ audit' = audit
      BY <1>4 DEF AuditRead
    <3>2. \A x \in Requests : req[x].pc # "append"
      BY <1>1, <1>2, <3>1, OneServer DEF OneServer, AuditInv, AppenderCurrent
    <3>3. /\ req'[r].pc = "append" /\ req'[r].server = req[r].server
          /\ \A x \in Requests \ {r} : req'[x] = req[x]
      BY <1>1, <2>2 DEF ReqRecords
    <3>4. Chain' /\ \A x, b : Entered(x, b)' = Entered(x, b)
      BY <3>1 DEF AuditInv, Chain, Entered
    <3>5. AppenderCurrent'
      BY <1>1, <2>2, <3>1, <3>2, <3>3 DEF AppenderCurrent, LastRecord
    <3>6. EnteredOnce'
      BY <3>1, <3>3, <3>4 DEF AuditInv, EnteredOnce
    <3> QED
      BY <3>4, <3>5, <3>6 DEF AuditInv
  <2> QED
    BY <1>4, <2>1, <2>2 DEF AuditRead
<1>5. ASSUME NEW r \in Requests, AuditAppend(r) PROVE AuditInv'
  <2> DEFINE line == [by |-> r, prev |-> prior[r], allowed |-> req[r].allowed]
             n == Len(audit)
  <2>1. /\ req[r].pc = "append" /\ audit' = Append(audit, line)
        /\ req' = [req EXCEPT ![r].pc = "decided"]
    BY <1>5 DEF AuditAppend
  <2>2. line \in AuditRecords
    BY <1>1 DEF AuditRecords, ReqRecords
  <2>3. /\ n \in Nat /\ DOMAIN audit = 1..n
        /\ DOMAIN audit' = DOMAIN audit \cup {n + 1} /\ Len(audit') = n + 1
        /\ \A i \in DOMAIN audit : audit'[i] = audit[i]
        /\ audit'[n + 1] = line /\ line # TornRecord
    BY <1>1, <1>2, <2>1, <2>2, AppendFacts
  <2>4. /\ LastRecord # TornRecord
        /\ prior[r] = IF LastRecord = Nobody THEN Nobody ELSE LastRecord.by
    BY <2>1 DEF AuditInv, AppenderCurrent
  <2>5. \A i \in DOMAIN audit : audit[i] # TornRecord
    BY <2>3, <2>4 DEF AuditInv, Chain, LastRecord
  <2>6. prior[r] = IF n + 1 = 1 THEN Nobody ELSE audit[n].by
    <3>1. CASE audit = <<>>
      BY <2>4, <3>1 DEF LastRecord
    <3>2. CASE audit # <<>>
      <4>1. n \in DOMAIN audit /\ n + 1 # 1
        BY <1>1, <3>2, <2>3
      <4>2. audit[n] # Nobody
        BY <1>1, <1>2, <2>5, <4>1
      <4> QED
        BY <2>4, <3>2, <4>1, <4>2 DEF LastRecord
    <3> QED
      BY <3>1, <3>2
  <2>7. Chain'
    <3> SUFFICES ASSUME NEW i \in DOMAIN audit'
                 PROVE  /\ audit'[i] # TornRecord
                        /\ audit'[i].prev = IF i = 1 THEN Nobody ELSE audit'[i - 1].by
      BY DEF Chain
    <3>1. CASE i = n + 1
      <4>1. i # 1 => i - 1 = n /\ n \in DOMAIN audit
        BY <2>3, <3>1
      <4>2. i # 1 => audit'[i - 1] = audit[n]
        BY <2>3, <4>1
      <4>3. audit'[i].prev = prior[r]
        BY <2>3, <3>1
      <4> QED
        BY <2>3, <2>6, <3>1, <4>2, <4>3
    <3>2. CASE i \in DOMAIN audit
      <4>1. audit[i].prev = IF i = 1 THEN Nobody ELSE audit[i - 1].by
        BY <2>5, <3>2 DEF AuditInv, Chain
      <4> QED
        BY <2>3, <2>5, <3>2, <4>1
    <3> QED
      BY <2>3, <3>1, <3>2
  <2>8. /\ req'[r].pc = "decided" /\ req'[r].allowed = req[r].allowed
        /\ \A x \in Requests \ {r} : req'[x] = req[x] /\ req[x].pc # "append"
    BY <1>1, <1>3, <2>1 DEF ReqRecords
  <2>9. AppenderCurrent'
    BY <2>8 DEF AppenderCurrent
  <2>10. EnteredOnce'
    <3>1. Entered(r, req[r].allowed)'
      <4>1. \A k \in DOMAIN audit : audit[k].by # r
        BY <2>1, <2>5 DEF AuditInv, EnteredOnce
      <4>2. /\ n + 1 \in DOMAIN audit' /\ audit'[n + 1] # TornRecord
            /\ audit'[n + 1].by = r /\ audit'[n + 1].allowed = req'[r].allowed
        BY <2>3, <2>8
      <4>3. \A k \in DOMAIN audit' : k # n + 1 => audit'[k].by # r
        BY <2>3, <4>1
      <4> QED
        BY <4>2, <4>3 DEF Entered
    <3>2. ASSUME NEW x \in Requests \ {r}, NEW b \in BOOLEAN, Entered(x, b)
          PROVE  Entered(x, b)'
      <4>1. PICK i \in DOMAIN audit :
              /\ audit[i] # TornRecord /\ audit[i].by = x /\ audit[i].allowed = b
              /\ \A k \in DOMAIN audit : k # i /\ audit[k] # TornRecord => audit[k].by # x
        BY <3>2 DEF Entered
      <4>2. i \in DOMAIN audit' /\ audit'[i] = audit[i]
        BY <2>3
      <4>3. \A k \in DOMAIN audit' : k # i /\ audit'[k] # TornRecord => audit'[k].by # x
        BY <2>3, <4>1
      <4> QED
        BY <4>1, <4>2, <4>3 DEF Entered
    <3>3. ASSUME NEW x \in Requests \ {r}, \A k \in DOMAIN audit : audit[k] # TornRecord => audit[k].by # x
          PROVE  \A k \in DOMAIN audit' : audit'[k] # TornRecord => audit'[k].by # x
      BY <2>3, <3>3
    <3> SUFFICES ASSUME NEW x \in Requests
                 PROVE  /\ req'[x].pc \in {"new", "verify", "audit", "append"} =>
                             \A k \in DOMAIN audit' : audit'[k] # TornRecord => audit'[k].by # x
                        /\ req'[x].pc = "decided" => Entered(x, req[x].allowed)'
                        /\ req'[x].pc = "answered" => Entered(x, req[x].status \notin {401, 403})'
      BY DEF EnteredOnce
    <3>4. CASE x = r
      BY <2>8, <3>1, <3>4
    <3>5. CASE x # r
      <4>1. req'[x] = req[x] /\ req[x].allowed \in BOOLEAN
        BY <1>1, <2>8, <3>5 DEF ReqRecords
      <4>2. Entered(x, req[x].allowed) => Entered(x, req[x].allowed)'
        BY <3>2, <3>5, <4>1 DEF Entered
      <4>3. Entered(x, req[x].status \notin {401, 403}) => Entered(x, req[x].status \notin {401, 403})'
        <5>1. PICK b \in BOOLEAN : b = (req[x].status \notin {401, 403})
          OBVIOUS
        <5>2. Entered(x, b) => Entered(x, b)'
          BY <3>2, <3>5
        <5> QED
          BY <4>1, <5>1, <5>2 DEF Entered
      <4> QED
        BY <3>3, <3>5, <4>1, <4>2, <4>3 DEF AuditInv, EnteredOnce
    <3> QED
      BY <3>4, <3>5
  <2> QED
    BY <2>7, <2>9, <2>10 DEF AuditInv
<1>6. ASSUME NEW s \in Servers, ServerCrash(s) PROVE AuditInv'
  <2>1. \A x \in Requests :
          IF req[x].pc \in {"verify", "audit", "append", "decided"}
            THEN req'[x].pc = "dropped" ELSE req'[x] = req[x]
    BY <1>1, <1>6, OneServer DEF OneServer, ServerCrash, Dropped, NoRequest
  <2>2. AppenderCurrent'
    BY <2>1 DEF AppenderCurrent
  <2>3. CASE audit' = audit
    BY <2>1, <2>2, <2>3 DEF AuditInv, Chain, EnteredOnce, Entered
  <2>4. CASE audit' = Append(audit, TornRecord) /\ \E r \in Requests : req[r].pc = "append"
    <3> DEFINE n == Len(audit)
    <3>1. /\ n \in Nat /\ DOMAIN audit = 1..n
          /\ DOMAIN audit' = DOMAIN audit \cup {n + 1} /\ Len(audit') = n + 1
          /\ \A i \in DOMAIN audit : audit'[i] = audit[i]
          /\ audit'[n + 1] = TornRecord
      BY <1>1, <2>4, AppendFacts
    <3>2. \A i \in DOMAIN audit : audit[i] # TornRecord
      BY <2>4, <3>1 DEF AuditInv, Chain, AppenderCurrent, LastRecord
    <3>3. Chain'
      <4> SUFFICES ASSUME NEW i \in DOMAIN audit, i # n + 1
                   PROVE  audit'[i].prev = IF i = 1 THEN Nobody ELSE audit'[i - 1].by
        BY <3>1, <3>2 DEF Chain
      <4>1. audit[i].prev = IF i = 1 THEN Nobody ELSE audit[i - 1].by
        BY <3>2 DEF AuditInv, Chain
      <4> QED
        BY <3>1, <4>1
    <3>4. \A x, b : Entered(x, b) => Entered(x, b)'
      BY <3>1 DEF Entered
    <3>5. EnteredOnce'
      BY <2>1, <3>1, <3>4 DEF AuditInv, EnteredOnce
    <3> QED
      BY <2>2, <3>3, <3>5 DEF AuditInv
  <2> QED
    BY <1>6, <2>3, <2>4 DEF ServerCrash
<1>7. ASSUME NEW r \in Requests, NEW s \in Servers, NEW t \in Tokens \cup {Nobody},
             NEW path \in Endpoints, Arrive(r, s, t, path)
      PROVE  AuditInv'
  BY <1>1, <1>7, AuditUntouched DEF Arrive
<1>8. ASSUME NEW r \in Requests, Principal(r) PROVE AuditInv'
  BY <1>1, <1>8, AuditUntouched DEF Principal, ReqRecords
<1>9. ASSUME NEW r \in Requests, Refuse(r) \/ Handle(r) PROVE AuditInv'
  <2>1. PICK status : Answer(r, status) /\ req[r].allowed = (status \notin {401, 403})
    BY <1>1, <1>9 DEF Refuse, Handle, Statuses, ReqRecords
  <2>2. /\ \A x \in Requests \ {r} : req'[x] = req[x]
        /\ req'[r].pc = "answered" /\ req'[r].status = status
    BY <1>1, <2>1 DEF Answer, ReqRecords
  <2>3. req[r].pc = "decided" /\ UNCHANGED <<audit, holder, prior>>
    BY <1>9 DEF Refuse, Handle
  <2> QED
    BY <2>1, <2>2, <2>3, AuditUntouched
<1>10. ASSUME UNCHANGED <<req, audit, holder, prior>> PROVE AuditInv'
  BY <1>10, AuditUntouched
<1> QED
  BY <1>4, <1>5, <1>6, <1>7, <1>8, <1>9, <1>10
     DEF ServiceNext, serviceVars, Command, LoadStore, Revoke, Issue, AdminCrash

\* The audit log is one chain in which every answered request stands exactly once,
\* with the decision that was acted on, for every number of requests, crashes and
\* torn lines, if one API process appends to it.
THEOREM AuditLogComplete ==
  ASSUME OneServer PROVE ServiceSpec => []AuditComplete
<1>1. ServiceInit => AuditInv
  BY DEF ServiceInit, AuditInv, Chain, AppenderCurrent, EnteredOnce, NoRequest
<1>2. ServiceTypes /\ AuditInv /\ [ServiceNext]_serviceVars => AuditInv'
  BY AuditInductive, OneServer
<1>3. AuditInv => AuditComplete
  BY DEF AuditInv, Chain, EnteredOnce, Entered, AuditComplete
<1> QED
  BY <1>1, <1>2, <1>3, ServiceTypesHold, PTL DEF ServiceSpec
=============================================================================
