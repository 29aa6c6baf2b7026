---------------------------------- MODULE Auth ----------------------------------
(* GstRTSPAuth (rtsp-auth.c): the tables of users the application fills, the *)
(* nonces of the challenges, and the checks of a request (rtsp-client.c).    *)
(* The lock of the tables is taken for each lookup, not for a request; a     *)
(* nonce belongs to the first client that answers with it, and is kept as    *)
(* long as that client lives.  The clock of a challenge is read before the   *)
(* lock is taken, and a request has no reference to the token it found.      *)
EXTENDS Permissions, Sequences

CONSTANTS
    Clients, Users, Passes, Tokens,
    TokenRole,      \* the role of each token, or None
    ClientSettings, \* tokens that let clients choose the transport settings
    NonceTimeout,   \* 30 seconds
    MaxTime,        \* bound: the last tick of the clock
    Wrap,           \* where a difference of two times goes around (2^64)
    MaxNonces,      \* bound: challenges that are sent
    Plans           \* bound: the requests and what the application does

\* An entry of the table of digest users, and a line of a file of them.
Entry == [pass : Passes, token : Tokens]
FileLine == [user : Users, pass : Passes, valid : BOOLEAN]
Roled == [Roles -> SUBSET Permission]

\* What the application does.
Operation ==
    [op : {"add_basic"}, user : Users, pass : Passes, token : Tokens]
    \cup [op : {"remove_basic"}, user : Users, pass : Passes]
    \cup [op : {"add_digest"}, user : Users, pass : Passes, token : Tokens]
    \cup [op : {"remove_digest"}, user : Users]
    \cup [op : {"default"}, token : Tokens \cup {None}]
    \cup [op : {"unref"}, token : Tokens]
    \cup [op : {"methods"}, methods : SUBSET {"basic", "digest"}]
    \cup [op : {"htdigest"}, lines : Seq(FileLine), token : Tokens]
    \cup [op : {"permissions"}, roles : Roled]
    \cup [op : {"add_role"}, role : Roles, allowed : SUBSET Permission, structure : BOOLEAN]

\* A request, with what its handler checks: find_media of a path that is not
\* cached, and the transport settings of a SETUP.
Kind == [scheme : {"none"}] \cup [scheme : {"basic", "digest"}, user : Users, pass : Passes]
Request ==
    [checks : {<<"access", "construct">>}, method : {"describe"}, creds : Kind]
    \cup [checks : {<<"settings">>, <<"access", "construct", "settings">>}, method : {"setup"}, creds : Kind]

Plan == [app : Seq(Operation), requests : [Clients -> Seq(Request)],
         agent : [Clients -> Nat], ip : [Clients -> Nat]]

\* A nonce that was sent, and a call of parse_htdigest under way.
Nonce == [to : Clients, client : Clients \cup {None}, stamp : Nat, alive : BOOLEAN]
Parsing == [left : Seq(FileLine), new : [Users -> Entry \cup {None}], token : Tokens,
            before : [Users -> Entry \cup {None}]]

ASSUME AuthAssumption ==
    /\ Checkers = Clients /\ IsFiniteSet(Clients) /\ IsFiniteSet(Users) /\ IsFiniteSet(Passes)
    /\ NonceTimeout \in Nat \ {0} /\ MaxTime \in Nat \ {0} /\ MaxNonces \in Nat
    /\ Wrap \in Nat /\ Wrap >= MaxTime + NonceTimeout
    /\ TokenRole \in [Tokens -> Roles \cup {None}] /\ Plans \subseteq Plan
    /\ None \notin Tokens \cup Perms \cup Clients \cup Roles
    /\ None \notin Entry /\ None \notin Nonce /\ None \notin Parsing

VARIABLES
    basic, digest, default_token, auth_methods,
    owned,          \* the tokens the application has a reference to
    token_refs,     \* the references of each token, the application's included
    nonces,         \* the challenges that can still be answered
    sent,           \* how many challenges were sent
    last_nonce_check,
    weak,           \* remove_nonce calls to make when a client goes
    parse,          \* a call of parse_htdigest
    req,            \* the request of each client
    now, plan,
    overtaken,      \* nonces a challenge with an earlier clock removed (history)
    quirks          \* departures that have happened (history)

tableVars == <<basic, digest, default_token, auth_methods, owned, token_refs, parse>>
nonceVars == <<nonces, sent, last_nonce_check, weak, overtaken>>
vars == <<permVars, tableVars, nonceVars, req, now, plan, quirks>>

NoRequest == [at |-> "idle", checks |-> <<>>, method |-> "none", creds |-> <<>>, left |-> <<>>,
              token |-> None, stamp |-> 0, answers |-> 0, settings |-> FALSE, disturbed |-> FALSE]
Ids == 1 .. MaxNonces

Init ==
    /\ PermInit
    /\ basic = [k \in Users \X Passes |-> None] /\ digest = [u \in Users |-> None]
    /\ default_token = None /\ auth_methods = {"basic"}
    /\ owned = Tokens /\ token_refs = [t \in Tokens |-> 1] /\ parse = None
    /\ nonces = [i \in Ids |-> None] /\ sent = 0 /\ last_nonce_check = 0 /\ weak = {}
    /\ overtaken = {}
    /\ req = [c \in Clients |-> NoRequest]
    /\ now = 1 /\ plan \in Plans /\ quirks = {}

Tick == now < MaxTime /\ now' = now + 1 /\ UNCHANGED <<permVars, tableVars, nonceVars, req, plan, quirks>>

-----------------------------------------------------------------------------
(* The application. *)

TokenRef(f, t) == IF t = None THEN f ELSE [f EXCEPT ![t] = @ + 1]
TokenUnref(f, t) == IF t = None THEN f ELSE [f EXCEPT ![t] = @ - 1]
\* g_hash_table_replace, set_default_token: the new one is taken, the old given back.
Replaced(f, old, new) == TokenUnref(TokenRef(f, new), old)

TokenOf(entry) == IF entry = None THEN None ELSE entry.token

add_basic(k, t) ==
    /\ basic' = [basic EXCEPT ![k] = t] /\ token_refs' = Replaced(token_refs, basic[k], t)
    /\ UNCHANGED <<digest, default_token, auth_methods, owned, parse>>

remove_basic(k) == add_basic(k, None)

add_digest(u, entry) ==
    /\ digest' = [digest EXCEPT ![u] = entry]
    /\ token_refs' = Replaced(token_refs, TokenOf(digest[u]), TokenOf(entry))
    /\ UNCHANGED <<basic, default_token, auth_methods, owned, parse>>

remove_digest(u) == add_digest(u, None)

set_default_token(t) ==
    /\ default_token' = t /\ token_refs' = Replaced(token_refs, default_token, t)
    /\ UNCHANGED <<basic, digest, auth_methods, owned, parse>>

set_supported_methods(ms) ==
    auth_methods' = ms /\ UNCHANGED <<basic, digest, default_token, owned, token_refs, parse>>

\* gst_rtsp_token_unref of the application's own reference: the tables have theirs.
gst_rtsp_token_unref(t) ==
    /\ owned' = owned \ {t} /\ token_refs' = TokenUnref(token_refs, t)
    /\ UNCHANGED <<basic, digest, default_token, auth_methods, parse>>

\* gst_rtsp_auth_parse_htdigest: entries are collected line by line; a line
\* that is not right ends it and what was collected is freed.
ParseBegin(lines, t) ==
    /\ parse' = [left |-> lines, new |-> [u \in Users |-> None], token |-> t, before |-> digest]
    /\ UNCHANGED <<basic, digest, default_token, auth_methods, owned, token_refs>>

LineCollected(line) == digest

ParseLine ==
    LET line == Head(parse.left)
    IN  /\ parse # None /\ parse.left # <<>> /\ line.valid
        /\ parse' = [parse EXCEPT !.left = Tail(@), !.new[line.user] = [pass |-> line.pass, token |-> parse.token]]
        /\ token_refs' = Replaced(token_refs, TokenOf(parse.new[line.user]), parse.token)
        /\ digest' = LineCollected(line)
        /\ UNCHANGED <<basic, default_token, auth_methods, owned>>

Collected == {u \in Users : parse.new[u] # None}
FailFrees == [token_refs EXCEPT ![parse.token] = @ - Cardinality(Collected)]

ParseFails ==
    /\ parse # None /\ parse.left # <<>> /\ ~Head(parse.left).valid
    /\ parse' = None /\ token_refs' = FailFrees
    /\ UNCHANGED <<basic, digest, default_token, auth_methods, owned>>

\* update_digest_cb for each: the table of the users takes the entries over.
ParseDone ==
    /\ parse # None /\ parse.left = <<>> /\ parse' = None
    /\ digest' = [u \in Users |-> IF u \in Collected THEN parse.new[u] ELSE digest[u]]
    /\ token_refs' = [t \in Tokens |->
                        token_refs[t] - Cardinality({u \in Collected : TokenOf(digest[u]) = t})]
    /\ UNCHANGED <<basic, default_token, auth_methods, owned>>

Op(o) ==
    CASE o.op = "add_basic" -> add_basic(<<o.user, o.pass>>, o.token)
      [] o.op = "remove_basic" -> remove_basic(<<o.user, o.pass>>)
      [] o.op = "add_digest" -> add_digest(o.user, [pass |-> o.pass, token |-> o.token])
      [] o.op = "remove_digest" -> remove_digest(o.user)
      [] o.op = "default" -> set_default_token(o.token)
      [] o.op = "unref" -> gst_rtsp_token_unref(o.token)
      [] o.op = "methods" -> set_supported_methods(o.methods)
      [] o.op = "htdigest" -> ParseBegin(o.lines, o.token)

\* The application names tokens it has a reference to.
Owns(o) ==
    o.op \in {"add_basic", "add_digest", "default", "unref", "htdigest"} => o.token \in owned \cup {None}

PermOp(o) ==
    CASE o.op = "permissions" -> gst_rtsp_media_factory_set_permissions(o.roles)
      [] o.op = "add_role" -> gst_rtsp_media_factory_add_role(o.role, o.allowed, o.structure)

\* Requests under way may see the tables from before and after a change.
Disturbed ==
    req' = IF <<basic, digest, default_token, perms, factory_perms>>' =
              <<basic, digest, default_token, perms, factory_perms>> THEN req
           ELSE [c \in Clients |-> IF req[c].at \in {"idle", "gone"} THEN req[c]
                                   ELSE [req[c] EXCEPT !.disturbed = TRUE]]

Application ==
    /\ UNCHANGED <<nonceVars, now, quirks>>
    /\ \/ /\ plan.app # <<>> /\ parse = None /\ Owns(Head(plan.app)) /\ plan' = [plan EXCEPT !.app = Tail(@)]
          /\ \/ Head(plan.app).op \notin {"permissions", "add_role"} /\ Op(Head(plan.app)) /\ UNCHANGED permVars
             \/ Head(plan.app).op \in {"permissions", "add_role"} /\ PermOp(Head(plan.app)) /\ UNCHANGED tableVars
       \/ (ParseLine \/ ParseFails \/ ParseDone) /\ UNCHANGED <<permVars, plan>>
    /\ Disturbed

-----------------------------------------------------------------------------
(* Requests. *)

Goto(c, at) == req' = [req EXCEPT ![c].at = at]

\* A user agent answers challenges it got, over any of its connections.
Credentials(c, kind) ==
    CASE kind.scheme = "none" -> {<<>>}
      [] kind.scheme = "basic" -> {<<kind>>}
      [] kind.scheme = "digest" ->
            {<<[scheme |-> "digest", user |-> kind.user, pass |-> kind.pass, nonce |-> i]>> :
               i \in {j \in 1 .. sent : plan.agent[nonces[j].to] = plan.agent[c]}}

Begin(c) ==
    /\ req[c].at = "idle" /\ plan.requests[c] # <<>>
    /\ LET r == Head(plan.requests[c])
       IN  \E creds \in Credentials(c, r.creds) :
             req' = [req EXCEPT ![c] = [NoRequest EXCEPT !.at = "check", !.checks = r.checks,
                                                          !.method = r.method, !.creds = creds]]
    /\ plan' = [plan EXCEPT !.requests[c] = Tail(@)]
    /\ UNCHANGED <<permVars, tableVars, nonceVars, now, quirks>>

RequestStep == UNCHANGED <<tableVars, now, plan>>

\* default_authenticate is only called while the request has no token.
EnsureAuthenticated(c) ==
    /\ req[c].at = "check" /\ req[c].checks # <<>>
    /\ req' = IF req[c].token # None THEN [req EXCEPT ![c].at = "apply"]
              ELSE [req EXCEPT ![c].at = "credentials", ![c].token = default_token, ![c].left = req[c].creds]
    /\ RequestStep /\ UNCHANGED <<permVars, nonceVars, quirks>>

\* The nonce is known, of this address and not of another client.
Answers(c, i) ==
    nonces[i].alive /\ plan.ip[nonces[i].to] = plan.ip[c] /\ nonces[i].client \in {None, c}

\* Mutant: the answer to a nonce is taken without comparing it.
MatchesAny(entry, cred) == TRUE
Matches(entry, cred) == entry.pass = cred.pass

Registered(claims, accepted) == claims

\* default_digest_auth: the user is looked up before the nonce, and a nonce
\* that is found is claimed even when the answer is refused.
Digest(c, cred) ==
    LET entry == digest[cred.user]
        claims == entry # None /\ nonces[cred.nonce].alive /\ nonces[cred.nonce].client = None
        accepted == entry # None /\ Answers(c, cred.nonce) /\ Matches(entry, cred)
    IN  /\ nonces' = IF claims THEN [nonces EXCEPT ![cred.nonce].client = c] ELSE nonces
        /\ weak' = IF Registered(claims, accepted) THEN weak \cup {<<c, cred.nonce>>} ELSE weak
        /\ UNCHANGED <<sent, last_nonce_check, overtaken>>
        /\ req' = IF accepted
                  THEN [req EXCEPT ![c].token = entry.token, ![c].at = "check"]
                  ELSE [req EXCEPT ![c].left = Tail(@)]

Credential(c) ==
    /\ req[c].at = "credentials" /\ req[c].left # <<>>
    /\ LET cred == Head(req[c].left)
       IN  IF cred.scheme = "digest" THEN Digest(c, cred)
           ELSE /\ LET t == basic[<<cred.user, cred.pass>>]
                   IN  req' = IF t # None THEN [req EXCEPT ![c].token = t, ![c].at = "check"]
                              ELSE [req EXCEPT ![c].left = Tail(@)]
                /\ UNCHANGED nonceVars
    /\ RequestStep /\ UNCHANGED <<permVars, quirks>>

NoMoreCredentials(c) ==
    /\ req[c].at = "credentials" /\ req[c].left = <<>>
    /\ Goto(c, IF req[c].token = None THEN "unauthorized" ELSE "check")
    /\ RequestStep /\ UNCHANGED <<permVars, nonceVars, quirks>>

\* The difference of two guint64: it goes around below zero.
Elapsed(a, b) == IF a >= b THEN a - b ELSE a + Wrap - b

\* Mutant: nonces that are in use expire as well.
ExpiresUsed(n, stamp) == Elapsed(stamp, n.stamp) >= NonceTimeout
Expires(n, stamp) == n.client = None /\ Elapsed(stamp, n.stamp) >= NonceTimeout

CheckDue(stamp) == last_nonce_check # 0 /\ Elapsed(stamp, last_nonce_check) >= NonceTimeout
Looked(stamp) == IF last_nonce_check = 0 \/ CheckDue(stamp) THEN stamp ELSE last_nonce_check

\* The nonces the check of a challenge with this clock removes.
Expired(stamp) ==
    {i \in 1 .. sent : nonces[i].alive /\ CheckDue(stamp) /\ Expires(nonces[i], stamp)}

\* A check of the client settings that is not authorized has answered, and
\* the request goes on.
Refused(c) == IF Head(req[c].checks) = "settings" THEN "check" ELSE "idle"

Answered(c) ==
    /\ req' = [req EXCEPT ![c].at = Refused(c), ![c].answers = @ + 1, ![c].checks = Tail(@)]
    /\ quirks' = quirks \cup IF Head(req[c].checks) = "settings" THEN {"goes_on"} ELSE {}

\* send_response: the clock is read for the nonce, before the lock is taken.
Unauthorized(c) ==
    /\ req[c].at = "unauthorized"
    /\ IF "digest" \in auth_methods
       THEN req' = [req EXCEPT ![c].at = "challenge", ![c].stamp = now] /\ UNCHANGED quirks
       ELSE Answered(c)
    /\ RequestStep /\ UNCHANGED <<permVars, nonceVars>>

\* default_generate_authenticate_header, from the lock on.  Another challenge
\* may have read the clock later and locked first: the check is then due at
\* once, and nonces younger than this one are removed.
Challenge(c) ==
    LET stamp == req[c].stamp
    IN  /\ req[c].at = "challenge"
        /\ sent < MaxNonces /\ sent' = sent + 1
        /\ nonces' = [i \in Ids |->
             CASE i = sent + 1 -> [to |-> c, client |-> None, stamp |-> stamp, alive |-> TRUE]
               [] i \in Expired(stamp) -> [nonces[i] EXCEPT !.alive = FALSE]
               [] OTHER -> nonces[i]]
        /\ last_nonce_check' = Looked(stamp)
        /\ overtaken' = overtaken \cup {i \in Expired(stamp) : nonces[i].stamp > stamp}
        /\ Answered(c)
        /\ RequestStep /\ UNCHANGED <<permVars, weak>>

\* What a request reads of its token: anything, of one that was freed.
Read(t, value, any) == IF token_refs[t] = 0 THEN any ELSE {value}

\* check_factory: a token without a role, or a factory without permissions.
CheckFactory(c) ==
    /\ req[c].at = "apply" /\ Head(req[c].checks) \in Permission
    /\ \E role \in Read(req[c].token, TokenRole[req[c].token], Roles \cup {None}) :
         IF role = None
         THEN Goto(c, "unauthorized") /\ UNCHANGED permVars
         ELSE /\ Goto(c, IF factory_perms = None THEN "unauthorized" ELSE "allowed")
              /\ gst_rtsp_media_factory_get_permissions(c)
    /\ RequestStep /\ UNCHANGED <<nonceVars, quirks>>

\* The role is a string of the token.  One without access is answered "not
\* found", one that may not construct is challenged.
Allowed(c) ==
    /\ req[c].at = "allowed"
    /\ \E role \in Read(req[c].token, TokenRole[req[c].token], Roles) :
         LET allowed == is_allowed(c, role, Head(req[c].checks))
         IN  /\ Checked(c, allowed)
             /\ req' = CASE allowed -> [req EXCEPT ![c].at = "check", ![c].checks = Tail(@)]
                         [] ~allowed /\ Head(req[c].checks) = "access" ->
                              [req EXCEPT ![c].at = "idle", ![c].answers = @ + 1]
                         [] OTHER -> [req EXCEPT ![c].at = "unauthorized"]
    /\ RequestStep /\ UNCHANGED <<nonceVars, quirks>>

check_client_settings(c) ==
    /\ req[c].at = "apply" /\ Head(req[c].checks) = "settings"
    /\ \E settings \in Read(req[c].token, req[c].token \in ClientSettings, BOOLEAN) :
         req' = [req EXCEPT ![c].at = "check", ![c].checks = Tail(@), ![c].settings = settings]
    /\ RequestStep /\ UNCHANGED <<permVars, nonceVars, quirks>>

\* The handler answers, and a DESCRIBE constructed a media.
Respond(c) ==
    /\ req[c].at = "check" /\ req[c].checks = <<>>
    /\ req' = [req EXCEPT ![c].at = "idle", ![c].answers = @ + 1]
    /\ IF req[c].method = "describe" THEN Configured ELSE UNCHANGED permVars
    /\ RequestStep /\ UNCHANGED <<nonceVars, quirks>>

Serve(c) ==
    \/ EnsureAuthenticated(c) \/ Credential(c) \/ NoMoreCredentials(c) \/ Unauthorized(c) \/ Challenge(c)
    \/ CheckFactory(c) \/ Allowed(c) \/ check_client_settings(c) \/ Respond(c)

Close(c) ==
    /\ req[c].at = "idle" /\ Goto(c, "closing")
    /\ RequestStep /\ UNCHANGED <<permVars, nonceVars, quirks>>

\* remove_nonce, for each nonce the client claimed, when it is finalized.
RemoveNonce(c) ==
    /\ req[c].at = "closing"
    /\ IF \E w \in weak : w[1] = c
       THEN /\ \E w \in weak : /\ w[1] = c /\ weak' = weak \ {w}
                               /\ nonces' = [nonces EXCEPT ![w[2]].alive = FALSE]
            /\ UNCHANGED req
       ELSE Goto(c, "gone") /\ UNCHANGED <<nonces, weak>>
    /\ RequestStep /\ UNCHANGED <<permVars, sent, last_nonce_check, overtaken, quirks>>

MediaGone == MediaFreed /\ UNCHANGED <<tableVars, nonceVars, req, now, plan, quirks>>

Next ==
    \/ Tick \/ Application \/ MediaGone
    \/ \E c \in Clients : Begin(c) \/ Serve(c) \/ Close(c) \/ RemoveNonce(c)

Spec == Init /\ [][Next]_vars

-----------------------------------------------------------------------------
(* Type and safety. *)

TypeOK ==
    /\ basic \in [Users \X Passes -> Tokens \cup {None}]
    /\ \A u \in Users : digest[u] = None \/ digest[u] \in [pass : Passes, token : Tokens]
    /\ default_token \in Tokens \cup {None} /\ owned \subseteq Tokens /\ token_refs \in [Tokens -> Nat]
    /\ \A i \in Ids : (nonces[i] = None) = (i > sent)
    /\ weak \subseteq Clients \X (1 .. sent) /\ overtaken \subseteq 1 .. sent
    /\ \A c \in Clients : /\ req[c].token \in Tokens \cup {None} /\ req[c].stamp \in 0 .. now
                          /\ req[c].at \in {"idle", "check", "credentials", "apply", "unauthorized",
                                            "challenge", "allowed", "closing", "gone"}
    /\ now \in 1 .. MaxTime

Alive == {i \in 1 .. sent : nonces[i].alive}

(* Challenges nobody answers do not pile up: when one is sent, none that is *)
(* unclaimed is twice the timeout old, whichever thread takes the lock first.*)
NoncesExpire ==
    \A i \in Alive : nonces[i].client = None => nonces[sent].stamp - nonces[i].stamp < 2 * NonceTimeout

(* A client that goes removes the nonces it claimed by the text in their    *)
(* entries: each entry is still there.                                      *)
RemoveDataLive == \A w \in weak : nonces[w[2]].alive /\ nonces[w[2]].client = w[1]

(* A nonce that is claimed is claimed by a client that will remove it: one  *)
(* that is gone would keep everybody else from answering.                   *)
ClaimedByLive ==
    \A i \in Alive : nonces[i].client # None => <<nonces[i].client, i>> \in weak /\ req[nonces[i].client].at # "gone"

RightPass(cred) ==
    IF cred.scheme = "basic" THEN basic[<<cred.user, cred.pass>>] # None
    ELSE digest[cred.user] # None /\ digest[cred.user].pass = cred.pass

(* A client that answers its own challenge with the right password within   *)
(* the timeout is not challenged again, whatever other clients answer or    *)
(* leave, unless another client claimed the nonce, a challenge that read the*)
(* clock before this one was sent removed it, or the tables changed.        *)
ChallengeWorks ==
    \A c \in Clients :
      /\ req[c].at = "unauthorized" /\ req[c].token = None /\ ~req[c].disturbed
      /\ req[c].creds # <<>> /\ RightPass(req[c].creds[1])
      => LET cred == req[c].creds[1]
             nonce == nonces[cred.nonce]
         IN  /\ cred.scheme = "digest"
             /\ \/ nonce.to # c \/ nonce.client \notin {None, c} \/ cred.nonce \in overtaken
                \/ now - nonce.stamp >= NonceTimeout

TokenOfCred(cred) == IF cred.scheme = "basic" THEN basic[<<cred.user, cred.pass>>] ELSE digest[cred.user].token
RightTokens(c) == {default_token} \cup {TokenOfCred(req[c].creds[i]) :
                                          i \in {j \in DOMAIN req[c].creds : RightPass(req[c].creds[j])}}

(* A request that constructs a media has shown a right password, or there   *)
(* is a default token, the role of its token may see and construct the      *)
(* media, and the client's transport settings are only taken for a token    *)
(* that says so (while nobody changes the tables).                          *)
ServedIsEntitled ==
    \A c \in Clients :
      req[c].at = "check" /\ req[c].checks = <<>> /\ ~req[c].disturbed =>
        /\ req[c].method = "describe" =>
             /\ req[c].token \in RightTokens(c) \ {None}
             /\ factory_perms # None /\ Permission \subseteq perms[factory_perms].roles[TokenRole[req[c].token]]
        /\ req[c].settings => req[c].token \in RightTokens(c) \cap ClientSettings

(* The references of a token are those of the application, while it has     *)
(* one, of the tables and of the entries of a file being read: replacing or *)
(* removing an entry, and a file that is not right, give them back.         *)
TokenRefs ==
    \A t \in Tokens :
      token_refs[t] = (IF t \in owned THEN 1 ELSE 0) + (IF default_token = t THEN 1 ELSE 0)
                        + Cardinality({k \in DOMAIN basic : basic[k] = t})
                        + Cardinality({u \in Users : TokenOf(digest[u]) = t})
                        + (IF parse = None THEN 0 ELSE Cardinality({u \in Users : TokenOf(parse.new[u]) = t}))

(* The token of a request under way, which has no reference to it, is alive *)
(* as long as nobody changes the tables.  (After a change it may be freed.) *)
RequestTokenAlive ==
    \A c \in Clients :
      /\ req[c].at \notin {"idle", "closing", "gone"} /\ req[c].token # None
      /\ ~req[c].disturbed
      => token_refs[req[c].token] > 0

(* A file of users takes effect as a whole: until it is read to the end the *)
(* users are those from before, and a file that is not right changes none.  *)
HtdigestWhole == parse # None => digest = parse.before

(* A request is answered once, unless an unauthorized choice of the         *)
(* transport was answered by the check and the request then went on.        *)
AnsweredOnce == \A c \in Clients : req[c].answers <= 1 \/ "goes_on" \in quirks

(* A role has the structure that was last given to it, permissions and      *)
(* tokens have the references of those that hold them, and a request loses  *)
(* the token it uses only to a change of the tables.                        *)
RolesHold ==
    /\ PermissionRefs
    /\ RolesAreAdded
    /\ TokenRefs
    /\ RequestTokenAlive
    /\ TypeOK

(* A nonce lives from its challenge until it expires: the answer to the last*)
(* challenge works, and no entry outlives the client that claimed it.       *)
NoncesLive ==
    /\ NoncesExpire
    /\ RemoveDataLive
    /\ ClaimedByLive
    /\ ChallengeWorks

(* A request is served only with the credentials and the role it takes, is  *)
(* answered once, and a file of users is taken whole or refused.            *)
OnlyEntitled ==
    /\ ServedIsEntitled
    /\ AnsweredOnce
    /\ HtdigestWhole
===============================================================================
