------------------------------ MODULE Service ------------------------------
(***************************************************************************)
(* ppc-lab-api with ppc-lab-security: the token store that administrators  *)
(* change by reading, modifying and replacing one file; the handler        *)
(* threads that verify a bearer token against that file on every request;  *)
(* and the audit log in which each record names its predecessor.  A server *)
(* has one audit lock for its threads; it may be killed while a record is  *)
(* being appended, and is started again.                                   *)
(*                                                                         *)
(* The hash of an audit record is represented by the request it is about.  *)
(***************************************************************************)
EXTENDS Naturals, Sequences, FiniteSets

CONSTANTS
  Tokens,       \* token ids, each issued at most once
  FirstTokens,  \* [SUBSET Tokens -> role]: what the store holds at first
  Requests,     \* the requests, each made once
  Endpoints,    \* the paths that are asked for
  Servers,      \* the API processes that share the store and the audit log
  Admins,       \* the administrators
  Nobody,       \* no token, no request, no record
  TornRecord,   \* a line of which only a part was written
  SerialAdmin,  \* TRUE: no two administrators run a command at the same time
  MaxCommands, MaxCrashes   \* bounds

ASSUME ServiceAssumption ==
  /\ DOMAIN FirstTokens \subseteq Tokens
  /\ \A t \in DOMAIN FirstTokens : FirstTokens[t] \in {"viewer", "runner", "researcher", "admin"}
  /\ Nobody \notin Tokens \cup Requests
  /\ SerialAdmin \in BOOLEAN /\ Nobody # TornRecord

\* What a line of the audit log says; a torn line and "no line" are neither.
AuditRecords == [by : Requests, prev : Requests \cup {Nobody}, allowed : BOOLEAN]
ASSUME AuditAssumption == {Nobody, TornRecord} \cap AuditRecords = {}

VARIABLES
  auth,      \* the auth store: [issued ids -> [scopes, revoked]]
  admin,     \* [Admins -> [pc, cmd, id, doc, scopes]]
  revoked,   \* ids whose revocation was reported as done
  req,       \* [Requests -> the handler thread of the request]
  audit,     \* the audit log
  holder,    \* [Servers -> the request that holds the audit lock]
  prior,     \* [Requests -> what audit_append read as the last record]
  svcUsed    \* [command, crash]

serviceVars == <<auth, admin, revoked, req, audit, holder, prior, svcUsed>>

Roles ==
  [viewer |-> {"status:read", "evidence:read"},
   runner |-> {"status:read", "execute:run"},
   researcher |-> {"status:read", "evidence:read", "execute:run"},
   admin |-> {"*"}]

NoAdmin == [pc |-> "idle", cmd |-> "none", id |-> Nobody, doc |-> <<>>, scopes |-> {}]
NoRequest == [pc |-> "new", server |-> Nobody, token |-> Nobody, path |-> "none",
              allowed |-> FALSE, before |-> {}, status |-> 0]
Dropped == [NoRequest EXCEPT !.pc = "dropped"]

ServiceInit ==
  /\ auth = [t \in DOMAIN FirstTokens |-> [scopes |-> Roles[FirstTokens[t]], revoked |-> FALSE]]
  /\ admin = [a \in Admins |-> NoAdmin] /\ revoked = {}
  /\ req = [r \in Requests |-> NoRequest] /\ audit = <<>>
  /\ holder = [s \in Servers |-> Nobody] /\ prior = [r \in Requests |-> Nobody]
  /\ svcUsed = [command |-> 0, crash |-> 0]

-----------------------------------------------------------------------------
(* ppc-lab-security.                                                       *)
Idle(a) == admin[a].pc = "idle"

\* revoke, issue and rotate start; rotate revokes, then issues with the scopes
\* it found.
Command(a, cmd, t) ==
  /\ Idle(a) /\ svcUsed.command < MaxCommands
  /\ SerialAdmin => \A b \in Admins : Idle(b)
  /\ cmd # "issue" => t \in DOMAIN auth
  /\ admin' = [admin EXCEPT ![a] =
       [pc |-> IF cmd = "issue" THEN "issue-load" ELSE "revoke-load", cmd |-> cmd,
        id |-> t, doc |-> <<>>,
        scopes |-> IF cmd = "issue" THEN Roles["runner"] ELSE auth[t].scopes]]
  /\ svcUsed' = [svcUsed EXCEPT !.command = @ + 1]
  /\ UNCHANGED <<auth, revoked, req, audit, holder, prior>>

\* load_store
LoadStore(a) ==
  /\ admin[a].pc \in {"revoke-load", "issue-load"}
  /\ admin' = [admin EXCEPT ![a].doc = auth,
                            ![a].pc = IF @ = "revoke-load" THEN "revoke-save" ELSE "issue-save"]
  /\ UNCHANGED <<auth, revoked, req, audit, holder, prior, svcUsed>>

\* (mutant) The changed document is never written back to the store.
Revoke_unsaved(a) ==
  LET t == admin[a].id IN
  /\ admin[a].pc = "revoke-save"
  /\ UNCHANGED auth
  /\ revoked' = revoked \cup {t}
  /\ admin' = [admin EXCEPT ![a] =
       IF @.cmd = "rotate" THEN [@ EXCEPT !.pc = "issue-load"] ELSE NoAdmin]
  /\ UNCHANGED <<req, audit, holder, prior, svcUsed>>

\* revoke: the loaded document, with the token marked, replaces the store.
Revoke(a) ==
  LET t == admin[a].id IN
  /\ admin[a].pc = "revoke-save"
  /\ auth' = IF admin[a].doc[t].revoked THEN auth
             ELSE [admin[a].doc EXCEPT ![t].revoked = TRUE]
  /\ revoked' = revoked \cup {t}
  /\ admin' = [admin EXCEPT ![a] =
       IF @.cmd = "rotate" THEN [@ EXCEPT !.pc = "issue-load"] ELSE NoAdmin]
  /\ UNCHANGED <<req, audit, holder, prior, svcUsed>>

\* issue: a fresh id enters the loaded document.
Issue(a) ==
  LET doc == admin[a].doc IN
  /\ admin[a].pc = "issue-save"
  /\ \E t \in Tokens \ (DOMAIN doc \cup DOMAIN auth) :
       auth' = [u \in DOMAIN doc \cup {t} |->
                  IF u = t THEN [scopes |-> admin[a].scopes, revoked |-> FALSE] ELSE doc[u]]
  /\ admin' = [admin EXCEPT ![a] = NoAdmin]
  /\ UNCHANGED <<revoked, req, audit, holder, prior, svcUsed>>

-----------------------------------------------------------------------------
(* ppc-lab-api.                                                            *)
\* do_GET, do_POST
RequiredScope(path) ==
  CASE path = "/v1/run" -> "execute:run"
    [] path = "/v1/evidence/query" -> "evidence:read"
    [] OTHER -> "status:read"

\* verify_token: the store as it is now.
VerifyToken(t, scope) ==
  /\ t \in DOMAIN auth /\ ~auth[t].revoked
  /\ auth[t].scopes \cap {"*", scope} # {}

\* A request reaches a server; before: what was revoked by then.
Arrive(r, s, t, path) ==
  /\ req[r].pc = "new"
  /\ req' = [req EXCEPT ![r] = [pc |-> "verify", server |-> s, token |-> t, path |-> path,
                                allowed |-> FALSE, before |-> revoked, status |-> 0]]
  /\ UNCHANGED <<auth, admin, revoked, audit, holder, prior, svcUsed>>

\* _principal, as far as the decision ...
Principal(r) ==
  /\ req[r].pc = "verify"
  /\ req' = [req EXCEPT ![r].pc = "audit",
               ![r].allowed = VerifyToken(req[r].token, RequiredScope(req[r].path))]
  /\ UNCHANGED <<auth, admin, revoked, audit, holder, prior, svcUsed>>

LastRecord == IF audit = <<>> THEN Nobody ELSE audit[Len(audit)]

\* (mutant) The audit lock is not taken.
AuditRead_unlocked(r) ==
  /\ req[r].pc = "audit" /\ LastRecord # TornRecord
  /\ prior' = [prior EXCEPT ![r] = IF LastRecord = Nobody THEN Nobody ELSE LastRecord.by]
  /\ req' = [req EXCEPT ![r].pc = "append"]
  /\ UNCHANGED <<auth, admin, revoked, audit, holder, svcUsed>>

\* ... audit_append under the server's lock: the last record is read; if it cannot
\* be parsed the handler dies and the request is never answered ...
AuditRead(r) ==
  LET s == req[r].server IN
  /\ req[r].pc = "audit" /\ holder[s] = Nobody
  /\ \/ /\ LastRecord = TornRecord
        /\ req' = [req EXCEPT ![r] = Dropped] /\ UNCHANGED <<holder, prior>>
     \/ /\ LastRecord # TornRecord
        /\ holder' = [holder EXCEPT ![s] = r]
        /\ prior' = [prior EXCEPT ![r] = IF LastRecord = Nobody THEN Nobody ELSE LastRecord.by]
        /\ req' = [req EXCEPT ![r].pc = "append"]
  /\ UNCHANGED <<auth, admin, revoked, audit, svcUsed>>

\* ... and the decision appended.
AuditAppend(r) ==
  /\ req[r].pc = "append"
  /\ audit' = Append(audit, [by |-> r, prev |-> prior[r], allowed |-> req[r].allowed])
  /\ holder' = [holder EXCEPT ![req[r].server] = Nobody]
  /\ prior' = [prior EXCEPT ![r] = Nobody]
  /\ req' = [req EXCEPT ![r].pc = "decided"]
  /\ UNCHANGED <<auth, admin, revoked, svcUsed>>

\* The response is sent and the thread ends.
Answer(r, status) ==
  req' = [req EXCEPT ![r] = [@ EXCEPT !.pc = "answered", !.status = status,
                                      !.server = Nobody, !.path = "none"]]

\* _require_scope: 403 with an Authorization header, 401 without.
Refuse(r) ==
  /\ req[r].pc = "decided" /\ ~req[r].allowed
  /\ Answer(r, IF req[r].token = Nobody THEN 401 ELSE 403)
  /\ UNCHANGED <<auth, admin, revoked, audit, holder, prior, svcUsed>>

\* _body and the endpoint: 400 stands for what is wrong with the request (400, 404,
\* 413), 500 for a command that fails, times out or answers something else (500,
\* 502, 504).
Statuses(path) == IF path \in {"/", "/v1", "/v1/health", "/v1/capabilities"} THEN {200}
                  ELSE {200, 400, 500}

Handle(r) ==
  /\ req[r].pc = "decided" /\ req[r].allowed
  /\ \E status \in Statuses(req[r].path) : Answer(r, status)
  /\ UNCHANGED <<auth, admin, revoked, audit, holder, prior, svcUsed>>

\* A server is killed: its requests are lost, a record it was appending may be
\* torn.  It is started again at once.
ServerCrash(s) ==
  LET mine == {r \in Requests : req[r].server = s
                                  /\ req[r].pc \in {"verify", "audit", "append", "decided"}}
  IN /\ svcUsed.crash < MaxCrashes /\ mine # {}
     /\ svcUsed' = [svcUsed EXCEPT !.crash = @ + 1]
     /\ req' = [r \in Requests |-> IF r \in mine THEN Dropped ELSE req[r]]
     /\ holder' = [holder EXCEPT ![s] = Nobody]
     /\ \/ UNCHANGED audit
        \/ (\E r \in mine : req[r].pc = "append") /\ audit' = Append(audit, TornRecord)
     /\ UNCHANGED <<auth, admin, revoked, prior>>

\* An administrator's command is killed.
AdminCrash(a) ==
  /\ ~Idle(a) /\ svcUsed.crash < MaxCrashes
  /\ svcUsed' = [svcUsed EXCEPT !.crash = @ + 1]
  /\ admin' = [admin EXCEPT ![a] = NoAdmin]
  /\ UNCHANGED <<auth, revoked, req, audit, holder, prior>>

ServiceNext ==
  \/ \E a \in Admins :
       \/ \E cmd \in {"issue", "revoke", "rotate"}, t \in Tokens : Command(a, cmd, t)
       \/ LoadStore(a) \/ Revoke(a) \/ Issue(a) \/ AdminCrash(a)
  \/ \E r \in Requests :
       \/ \E s \in Servers, t \in Tokens \cup {Nobody}, path \in Endpoints : Arrive(r, s, t, path)
       \/ Principal(r) \/ AuditRead(r) \/ AuditAppend(r) \/ Refuse(r) \/ Handle(r)
  \/ \E s \in Servers : ServerCrash(s)

ServiceSpec == ServiceInit /\ [][ServiceNext]_serviceVars
-----------------------------------------------------------------------------
\* "Revocation is immediate for subsequent HTTP requests" (SECURITY.md): a request
\* that arrives after a revocation was reported is not allowed under that token,
\* and no later command, finished or killed, brings the token back.
RevocationHolds ==
  /\ \A t \in revoked : t \in DOMAIN auth /\ auth[t].revoked
  /\ \A r \in Requests : req[r].allowed => req[r].token \notin req[r].before

\* The audit log is one chain, broken at most by a torn last line; and every
\* answered request stands in it exactly once, with the decision that was acted
\* on: nothing is served that the log does not show as allowed.
AuditComplete ==
  /\ \A i \in DOMAIN audit :
       IF audit[i] = TornRecord THEN i = Len(audit)
       ELSE audit[i].prev = IF i = 1 THEN Nobody ELSE audit[i - 1].by
  /\ \A r \in Requests : req[r].pc = "answered" =>
       \E i \in DOMAIN audit :
         /\ audit[i] # TornRecord /\ audit[i].by = r
         /\ audit[i].allowed = (req[r].status \notin {401, 403})
         /\ \A k \in DOMAIN audit : k # i /\ audit[k] # TornRecord => audit[k].by # r
=============================================================================
