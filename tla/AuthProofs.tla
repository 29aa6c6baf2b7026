------------------------------ MODULE AuthProofs ------------------------------
(* Theorems about Auth: users, nonces and what a request may do.             *)
EXTENDS Auth, FiniteSetTheorems, TLAPS

-----------------------------------------------------------------------------
\* The inductive invariant.

\* Where a request can be.
Places == {"idle", "check", "credentials", "apply", "unauthorized", "challenge", "allowed", "closing", "gone"}
Suffixes == {<<"access", "construct">>, <<"construct">>, <<"access", "construct", "settings">>,
             <<"construct", "settings">>, <<"settings">>, <<>>}
Cred == [scheme : {"basic"}, user : Users, pass : Passes]
        \cup [scheme : {"digest"}, user : Users, pass : Passes, nonce : Ids]
Creds == {<<>>} \cup {<<k>> : k \in Cred}
Req == [at : Places, checks : Suffixes, method : {"none", "describe", "setup"}, creds : Creds,
        left : Creds, token : Tokens \cup {None}, stamp : Nat, answers : Nat, settings : BOOLEAN,
        disturbed : BOOLEAN]

(* The types of the variables. *)
PermTypes ==
    /\ perms \in [Perms -> [roles : Roled, refs : Int]]
    /\ factory_perms \in Perms \cup {None} /\ media_perms \in [Perms -> Nat]
    /\ checking \in [Clients -> Perms \cup {None}] /\ asked \in Roled
TableTypes ==
    /\ basic \in [Users \X Passes -> Tokens \cup {None}]
    /\ digest \in [Users -> Entry \cup {None}]
    /\ default_token \in Tokens \cup {None}
    /\ owned \subseteq Tokens /\ token_refs \in [Tokens -> Int]
    /\ parse \in Parsing \cup {None}
NonceTypes ==
    /\ nonces \in [Ids -> Nonce \cup {None}] /\ sent \in 0 .. MaxNonces
    /\ \A i \in Ids : (nonces[i] = None) <=> i > sent
    /\ weak \subseteq Clients \X (1 .. sent) /\ overtaken \subseteq 1 .. sent
    /\ last_nonce_check \in 0 .. now /\ now \in 1 .. MaxTime
ReqTypes == req \in [Clients -> Req] /\ plan \in Plan
TypeInv == PermTypes /\ TableTypes /\ NonceTypes /\ ReqTypes

(* The permissions: who has references, and where a check is. *)
CheckingInv ==
    \A c \in Clients :
        /\ req[c].at = "allowed" => checking[c] \in Perms
        /\ req[c].at # "allowed" => checking[c] = None
\* Nothing was asked for while the factory has no permissions.
AskedInv == factory_perms = None => asked = Nothing
PermInv == PermissionRefs /\ RolesAreAdded /\ AskedInv /\ CheckingInv

(* A file is read while the application waits. *)
FileEntries == parse # None => \A u \in Users : parse.new[u] # None => parse.new[u].token = parse.token
FileInv == TokenRefs /\ HtdigestWhole /\ FileEntries

(* The nonces: a nonce is as old as its challenge, was claimed by a client *)
(* that will remove it, and is gone only when it expired, that client      *)
(* closed or a challenge with an earlier clock overtook it.                *)
StampInv ==
    /\ sent > 0 => /\ last_nonce_check # 0
                   /\ nonces[sent].stamp - last_nonce_check < NonceTimeout
    /\ \A i \in 1 .. sent :
        /\ nonces[i].stamp <= now
        /\ nonces[i].alive /\ nonces[i].client = None
             => last_nonce_check - nonces[i].stamp < NonceTimeout
ClaimInv ==
    \A i \in 1 .. sent :
        \/ nonces[i].alive \/ i \in overtaken
        \/ now - nonces[i].stamp >= NonceTimeout
        \/ nonces[i].client # None /\ req[nonces[i].client].at \in {"closing", "gone"}
NonceInv == StampInv /\ RemoveDataLive /\ ClaimedByLive /\ ClaimInv

(* The requests: what is left of the checks, the token that was found, and *)
(* that right credentials that were refused answered a nonce that is not   *)
(* theirs, claimed, removed or expired.                                    *)
Busy == {"check", "credentials", "apply", "unauthorized", "challenge", "allowed"}
StaleAnswer(c) ==
    LET cred == req[c].creds[1]
    IN  /\ cred.scheme = "digest"
        /\ \/ nonces[cred.nonce].to # c \/ nonces[cred.nonce].client \notin {None, c}
           \/ cred.nonce \in overtaken \/ now - nonces[cred.nonce].stamp >= NonceTimeout
Granted(c, p) ==
    /\ req[c].token \in Tokens /\ TokenRole[req[c].token] \in Roles
    /\ factory_perms \in Perms /\ p \in perms[factory_perms].roles[TokenRole[req[c].token]]
RequestOk(c) ==
    LET r == req[c]
    IN  /\ r.left \in {<<>>, r.creds}
        /\ r.creds # <<>> /\ r.creds[1].scheme = "digest" => r.creds[1].nonce <= sent
        /\ r.at \in {"apply", "allowed"} => r.token # None
        /\ r.at \in Busy /\ r.checks = <<>> => r.at = "check"
        /\ r.method = "describe" => r.checks \in {<<"access", "construct">>, <<"construct">>, <<>>}
        /\ r.at = "allowed" => Head(r.checks) \in Permission
        /\ r.settings /\ r.at \in Busy => r.token # None /\ r.checks = <<>>
        /\ r.stamp <= now /\ (r.at = "challenge" => r.stamp > 0)
EntitledOk(c) ==
    LET r == req[c]
    IN  r.at \in Busy /\ ~r.disturbed =>
          /\ r.token # None => r.token \in RightTokens(c)
          /\ r.settings => r.token \in ClientSettings
          /\ r.at = "allowed" => /\ checking[c] = factory_perms
                                 /\ TokenRole[r.token] \in Roles
          /\ r.method = "describe" =>
               /\ r.checks # <<"access", "construct">>
                    => Granted(c, "access") /\ r.at # "credentials"
               /\ r.checks = <<>> => Granted(c, "construct")
AnswerOk(c) ==
    /\ req[c].answers <= 1 \/ "goes_on" \in quirks
    /\ req[c].at \in Busy => req[c].answers = 0 \/ "goes_on" \in quirks
WorksOk(c) ==
    LET r == req[c]
    IN  r.at \in {"credentials", "unauthorized"} /\ r.token = None /\ ~r.disturbed
        /\ r.creds # <<>> /\ RightPass(r.creds[1])
        /\ (r.at = "credentials" => r.left = <<>>)
          => StaleAnswer(c)
RequestInv == \A c \in Clients : RequestOk(c)
EntitledInv == \A c \in Clients : EntitledOk(c)
AnswerInv == \A c \in Clients : AnswerOk(c)
WorksInv == \A c \in Clients : WorksOk(c)

IInv == TypeInv /\ PermInv /\ FileInv /\ NonceInv /\ RequestInv /\ EntitledInv /\ AnswerInv /\ WorksInv

-----------------------------------------------------------------------------
\* What the steps do.

\* A value that is the truth of a membership, and one that is read of a
\* token that may have been freed.
LEMMA MembershipIs ==
    ASSUME NEW S, NEW x, NEW b, b = (x \in S)
    PROVE  b \in BOOLEAN /\ (b <=> x \in S)
<1> DEFINE v == x \in S
<1>1. v \in BOOLEAN
  BY SMT
<1>2. b = v
  OBVIOUS
<1>3. b \in BOOLEAN
  <2> HIDE DEF v
  <2> QED BY <1>1, <1>2
<1>4. b <=> x \in S
  BY Zenon
<1> QED BY <1>3, <1>4, Zenon

LEMMA ReadIs ==
    ASSUME NEW n, NEW S, NEW x, NEW b, b \in IF n = 0 THEN BOOLEAN ELSE {(x \in S)}
    PROVE  b \in BOOLEAN /\ (n # 0 => (b <=> x \in S))
<1> DEFINE v == x \in S
<1>1. b \in IF n = 0 THEN BOOLEAN ELSE {v}
  OBVIOUS
<1>2. n # 0 => b = v
  <2> HIDE DEF v
  <2> QED BY <1>1
<1>3. n = 0 => b \in BOOLEAN
  <2> HIDE DEF v
  <2> QED BY <1>1
<1>4. n # 0 => b = (x \in S)
  BY <1>2
<1> HIDE DEF v
<1>5. CASE n # 0
  <2>1. b = (x \in S)
    BY <1>4, <1>5
  <2> QED BY <2>1, <1>5, MembershipIs, Zenon
<1> QED BY <1>3, <1>5

LEMMA ReadOfToken ==
    ASSUME NEW t, NEW refs, NEW S, NEW b, b \in IF refs[t] = 0 THEN BOOLEAN ELSE {(t \in S)}
    PROVE  b \in BOOLEAN /\ (refs[t] # 0 => (b <=> t \in S))
BY ReadIs, Zenon

USE AuthAssumption

LEMMA SuffixFacts ==
    /\ \A s \in Suffixes : s # <<>> => Tail(s) \in Suffixes /\ Head(s) \in Permission \cup {"settings"}
    /\ Head(<<"access", "construct">>) = "access" /\ Tail(<<"access", "construct">>) = <<"construct">>
    /\ Head(<<"construct">>) = "construct" /\ Tail(<<"construct">>) = <<>>
    /\ <<"access", "construct">> # <<"construct">> /\ <<"construct">> # <<>>
    /\ <<"access", "construct">> # <<>> /\ <<>> \in Suffixes
    /\ \A s \in Suffixes : s # <<>> /\ Head(s) = "settings" => Tail(s) = <<>>
<1>1. /\ Head(<<"access", "construct">>) = "access" /\ Tail(<<"access", "construct">>) = <<"construct">>
      /\ Head(<<"construct">>) = "construct" /\ Tail(<<"construct">>) = <<>>
  OBVIOUS
<1>2. /\ Head(<<"settings">>) = "settings" /\ Tail(<<"settings">>) = <<>>
      /\ Head(<<"construct", "settings">>) = "construct"
      /\ Tail(<<"construct", "settings">>) = <<"settings">>
  OBVIOUS
<1>3. /\ Head(<<"access", "construct", "settings">>) = "access"
      /\ Tail(<<"access", "construct", "settings">>) = <<"construct", "settings">>
  OBVIOUS
<1>4. /\ <<"access", "construct">> # <<"construct">> /\ <<"construct">> # <<>>
      /\ <<"access", "construct">> # <<>>
  OBVIOUS
<1> QED BY <1>1, <1>2, <1>3, <1>4 DEF Suffixes, Permission

LEMMA CredFacts ==
    /\ \A s \in Creds : s # <<>> => Tail(s) = <<>> /\ Head(s) = s[1] /\ s[1] \in Cred
    /\ <<>> \in Creds
    /\ \A k \in Cred : <<k>> \in Creds /\ <<k>> # <<>> /\ <<k>>[1] = k
<1>1. \A k : Tail(<<k>>) = <<>> /\ Head(<<k>>) = k /\ <<k>> # <<>> /\ <<k>>[1] = k
  OBVIOUS
<1>2. ASSUME NEW s \in Creds, s # <<>> PROVE Tail(s) = <<>> /\ Head(s) = s[1] /\ s[1] \in Cred
  <2>1. PICK k \in Cred : s = <<k>>
    BY <1>2 DEF Creds
  <2> QED BY <1>1, <2>1
<1> QED BY <1>1, <1>2 DEF Creds

\* One request moves; what it asks for stays.
Writes(c) ==
    /\ req' \in [Clients -> Req]
    /\ \A d \in Clients : d # c => req'[d] = req[d]
    /\ req'[c].method = req[c].method /\ req'[c].creds = req[c].creds
    /\ req'[c].disturbed = req[c].disturbed
Edits(c) == Writes(c) /\ req'[c].stamp = req[c].stamp

\* A new record for one request.
LEMMA EditIs ==
    ASSUME ReqTypes, NEW c \in Clients, NEW r \in Req, req' = [req EXCEPT ![c] = r]
    PROVE  /\ req' \in [Clients -> Req] /\ req'[c] = r
           /\ \A d \in Clients : d # c => req'[d] = req[d]
BY DEF ReqTypes

LEMMA ReqFields ==
    ASSUME NEW r \in Req
    PROVE  /\ r.at \in Places /\ r.checks \in Suffixes /\ r.method \in {"none", "describe", "setup"}
           /\ r.creds \in Creds /\ r.left \in Creds /\ r.token \in Tokens \cup {None}
           /\ r.answers \in Nat /\ r.settings \in BOOLEAN /\ r.disturbed \in BOOLEAN /\ r.stamp \in Nat
BY DEF Req

LEMMA GotoIs ==
    ASSUME ReqTypes, NEW c \in Clients, NEW at \in Places, Goto(c, at)
    PROVE  /\ Edits(c) /\ req'[c].at = at /\ req'[c].checks = req[c].checks
           /\ req'[c].left = req[c].left /\ req'[c].token = req[c].token
           /\ req'[c].answers = req[c].answers /\ req'[c].settings = req[c].settings
<1> DEFINE r == [req[c] EXCEPT !.at = at]
<1>1. req[c] \in Req
  BY DEF ReqTypes
<1>2. r \in Req
  BY <1>1 DEF Req
<1>3. req' = [req EXCEPT ![c] = r]
  BY DEF Goto
<1>4. /\ req' \in [Clients -> Req] /\ req'[c] = r
      /\ \A d \in Clients : d # c => req'[d] = req[d]
  BY <1>2, <1>3, EditIs
<1> QED BY <1>1, <1>4 DEF Edits, Writes, Req

LEMMA EnsureIs ==
    ASSUME ReqTypes, TableTypes, NEW c \in Clients, EnsureAuthenticated(c)
    PROVE  /\ Edits(c) /\ req[c].at = "check" /\ req[c].checks # <<>>
           /\ req'[c].checks = req[c].checks /\ req'[c].answers = req[c].answers
           /\ req'[c].settings = req[c].settings
           /\ \/ /\ req[c].token # None /\ req'[c].token = req[c].token
                 /\ req'[c].at = "apply" /\ req'[c].left = req[c].left
              \/ /\ req[c].token = None /\ req'[c].token = default_token
                 /\ req'[c].at = "credentials" /\ req'[c].left = req[c].creds
           /\ UNCHANGED <<permVars, tableVars, nonceVars, now, plan, quirks>>
<1>1. req[c] \in Req /\ default_token \in Tokens \cup {None}
  BY DEF ReqTypes, TableTypes
<1>2. CASE req[c].token # None
  <2> DEFINE r == [req[c] EXCEPT !.at = "apply"]
  <2>1. r \in Req
    BY <1>1 DEF Req, Places
  <2>2. req' = [req EXCEPT ![c] = r]
    BY <1>2 DEF EnsureAuthenticated
  <2>3. /\ req' \in [Clients -> Req] /\ req'[c] = r
        /\ \A d \in Clients : d # c => req'[d] = req[d]
    BY <2>1, <2>2, EditIs
  <2> QED BY <1>1, <1>2, <2>3 DEF Edits, Writes, Req, EnsureAuthenticated, RequestStep
<1>3. CASE req[c].token = None
  <2> DEFINE r == [req[c] EXCEPT !.at = "credentials", !.token = default_token, !.left = req[c].creds]
  <2>1. r \in Req
    BY <1>1 DEF Req, Places
  <2>2. req' = [req EXCEPT ![c] = r]
    BY <1>1, <1>3 DEF EnsureAuthenticated, ReqTypes
  <2>3. /\ req' \in [Clients -> Req] /\ req'[c] = r
        /\ \A d \in Clients : d # c => req'[d] = req[d]
    BY <2>1, <2>2, EditIs
  <2> QED BY <1>1, <1>3, <2>3 DEF Edits, Writes, Req, EnsureAuthenticated, RequestStep
<1> QED BY <1>2, <1>3

LEMMA PlanFacts ==
    ASSUME ReqTypes
    PROVE  /\ plan.app \in Seq(Operation) /\ plan.requests \in [Clients -> Seq(Request)]
           /\ \A c \in Clients : [plan EXCEPT !.requests[c] = Tail(@)] \in Plan \/ plan.requests[c] = <<>>
           /\ [plan EXCEPT !.app = Tail(@)] \in Plan \/ plan.app = <<>>
           /\ DOMAIN plan = {"app", "requests", "agent", "ip"}
<1>1. plan \in Plan
  BY DEF ReqTypes
<1>2. /\ plan.app \in Seq(Operation) /\ plan.requests \in [Clients -> Seq(Request)]
      /\ DOMAIN plan = {"app", "requests", "agent", "ip"}
  BY <1>1 DEF Plan
<1>3. ASSUME NEW c \in Clients, plan.requests[c] # <<>>
      PROVE  [plan EXCEPT !.requests[c] = Tail(@)] \in Plan
  <2>1. plan.requests[c] \in Seq(Request)
    BY <1>2
  <2>2. Tail(plan.requests[c]) \in Seq(Request)
    BY <1>3, <2>1
  <2>3. [plan.requests EXCEPT ![c] = Tail(@)] \in [Clients -> Seq(Request)]
    BY <1>2, <2>2
  <2> QED BY <1>1, <2>3 DEF Plan
<1>4. ASSUME plan.app # <<>> PROVE [plan EXCEPT !.app = Tail(@)] \in Plan
  <2>1. Tail(plan.app) \in Seq(Operation)
    BY <1>2, <1>4
  <2> QED BY <1>1, <2>1 DEF Plan
<1> QED BY <1>2, <1>3, <1>4

LEMMA CredentialsIs ==
    ASSUME NonceTypes, NEW c \in Clients, NEW k \in Kind, NEW s \in Credentials(c, k)
    PROVE  /\ s \in Creds
           /\ s # <<>> /\ s[1].scheme = "digest" => s[1].nonce \in 1 .. sent
<1>1. CASE k.scheme = "none"
  BY <1>1, CredFacts DEF Credentials, Kind
<1>2. CASE k.scheme = "basic"
  <2>1. s = <<k>> /\ k \in Cred
    BY <1>2 DEF Credentials, Kind, Cred
  <2> QED BY <1>2, <2>1, CredFacts
<1>3. CASE k.scheme = "digest"
  <2>1. PICK i \in 1 .. sent :
          s = <<[scheme |-> "digest", user |-> k.user, pass |-> k.pass, nonce |-> i]>>
    BY <1>3 DEF Credentials, Kind
  <2> DEFINE x == [scheme |-> "digest", user |-> k.user, pass |-> k.pass, nonce |-> i]
  <2>2. k.user \in Users /\ k.pass \in Passes /\ i \in Ids
    BY <1>3, <2>1 DEF Kind, Ids, NonceTypes
  <2>3. x \in Cred /\ x.scheme = "digest" /\ x.nonce = i
    BY <2>2 DEF Cred
  <2> HIDE DEF x
  <2> QED BY <2>1, <2>3, CredFacts DEF x
<1> QED BY <1>1, <1>2, <1>3 DEF Kind

LEMMA BeginIs ==
    ASSUME ReqTypes, NonceTypes, NEW c \in Clients, Begin(c)
    PROVE  /\ req' \in [Clients -> Req] /\ \A d \in Clients : d # c => req'[d] = req[d]
           /\ req[c].at = "idle" /\ req'[c].at = "check" /\ ~req'[c].disturbed
           /\ req'[c].token = None /\ req'[c].answers = 0 /\ ~req'[c].settings
           /\ req'[c].left = <<>> /\ req'[c].stamp = 0
           /\ req'[c].creds # <<>> /\ req'[c].creds[1].scheme = "digest"
                => req'[c].creds[1].nonce \in 1 .. sent
           /\ req'[c].method = "describe" => req'[c].checks = <<"access", "construct">>
           /\ req'[c].checks \in {<<"access", "construct">>, <<"settings">>, <<"access", "construct", "settings">>}
           /\ req'[c].checks # <<>>
           /\ plan' \in Plan
           /\ UNCHANGED <<permVars, tableVars, nonceVars, now, quirks>>
<1> DEFINE q == Head(plan.requests[c])
<1>1. plan.requests[c] # <<>> /\ plan.requests[c] \in Seq(Request)
  BY PlanFacts DEF Begin
<1>2. q \in Request
  BY <1>1
<1>3. /\ q.creds \in Kind /\ q.method \in {"describe", "setup"}
      /\ q.checks \in {<<"access", "construct">>, <<"settings">>, <<"access", "construct", "settings">>}
      /\ q.method = "describe" => q.checks = <<"access", "construct">>
  BY <1>2 DEF Request
<1> HIDE DEF q
<1>4. PICK s \in Credentials(c, q.creds) :
        req' = [req EXCEPT ![c] = [NoRequest EXCEPT !.at = "check", !.checks = q.checks,
                                                    !.method = q.method, !.creds = s]]
  BY ZenonT(40) DEF Begin, q
<1> DEFINE r == [NoRequest EXCEPT !.at = "check", !.checks = q.checks, !.method = q.method, !.creds = s]
<1>5. s \in Creds /\ (s # <<>> /\ s[1].scheme = "digest" => s[1].nonce \in 1 .. sent)
  BY <1>3, <1>4, CredentialsIs
<1>6. /\ r \in Req /\ r.at = "check" /\ ~r.disturbed /\ r.token = None /\ r.answers = 0 /\ ~r.settings
      /\ r.left = <<>> /\ r.stamp = 0 /\ r.creds = s /\ r.method = q.method /\ r.checks = q.checks
  BY <1>3, <1>5, CredFacts DEF NoRequest, Req, Places, Suffixes
<1> HIDE DEF r
<1>7. /\ req' \in [Clients -> Req] /\ req'[c] = r
      /\ \A d \in Clients : d # c => req'[d] = req[d]
  BY <1>4, <1>6, EditIs DEF r
<1>8. plan' \in Plan
  BY <1>1, PlanFacts DEF Begin
<1>9. q.checks # <<>>
  BY <1>3
<1> QED BY <1>3, <1>5, <1>6, <1>7, <1>8, <1>9 DEF Begin

(* What a check of the credentials does to the request.                    *)
Found(c, t) ==
    /\ Edits(c) /\ req'[c].at = "check" /\ req'[c].token = t /\ req'[c].left = req[c].left
    /\ req'[c].checks = req[c].checks /\ req'[c].answers = req[c].answers
    /\ req'[c].settings = req[c].settings
Tried(c) ==
    /\ Edits(c) /\ req'[c].at = "credentials" /\ req'[c].token = req[c].token /\ req'[c].left = <<>>
    /\ req'[c].checks = req[c].checks /\ req'[c].answers = req[c].answers
    /\ req'[c].settings = req[c].settings

LEMMA FoundIs ==
    ASSUME ReqTypes, NEW c \in Clients, NEW t \in Tokens,
           req' = [req EXCEPT ![c].token = t, ![c].at = "check"]
    PROVE  Found(c, t)
<1> DEFINE r == [req[c] EXCEPT !.token = t, !.at = "check"]
<1>1. req[c] \in Req
  BY DEF ReqTypes
<1>2. r \in Req
  BY <1>1 DEF Req, Places
<1>3. req' = [req EXCEPT ![c] = r]
  BY <1>1 DEF ReqTypes
<1>4. /\ req' \in [Clients -> Req] /\ req'[c] = r
      /\ \A d \in Clients : d # c => req'[d] = req[d]
  BY <1>2, <1>3, EditIs
<1> QED BY <1>1, <1>4 DEF Edits, Writes, Req, Found

LEMMA TriedIs ==
    ASSUME ReqTypes, NEW c \in Clients, req[c].at = "credentials", req[c].left # <<>>,
           req' = [req EXCEPT ![c].left = Tail(@)]
    PROVE  Tried(c)
<1> DEFINE r == [req[c] EXCEPT !.left = Tail(@)]
<1>1. req[c] \in Req
  BY DEF ReqTypes
<1>2. Tail(req[c].left) = <<>> /\ <<>> \in Creds
  BY <1>1, CredFacts DEF Req
<1>3. r \in Req /\ r.left = <<>>
  BY <1>1, <1>2 DEF Req
<1>4. req' = [req EXCEPT ![c] = r]
  BY <1>1 DEF ReqTypes
<1>5. /\ req' \in [Clients -> Req] /\ req'[c] = r
      /\ \A d \in Clients : d # c => req'[d] = req[d]
  BY <1>3, <1>4, EditIs
<1> QED BY <1>1, <1>2, <1>5 DEF Edits, Writes, Req, Tried

LEMMA DigestIs ==
    ASSUME ReqTypes, NonceTypes, TableTypes, RequestInv, NEW c \in Clients, Credential(c),
           Head(req[c].left).scheme = "digest"
    PROVE  LET cred == req[c].creds[1]
               entry == digest[cred.user]
               i == cred.nonce
               claims == entry # None /\ nonces[i].alive /\ nonces[i].client = None
           IN  /\ req[c].at = "credentials" /\ req[c].left # <<>> /\ cred \in Cred /\ req[c].creds # <<>>
               /\ cred.scheme = "digest" /\ i \in 1 .. sent /\ cred.user \in Users
               /\ nonces' = IF claims THEN [nonces EXCEPT ![i].client = c] ELSE nonces
               /\ weak' = IF claims THEN weak \cup {<<c, i>>} ELSE weak
               /\ \/ entry \in Entry /\ entry.pass = cred.pass /\ Found(c, entry.token)
                  \/ Tried(c) /\ ~(entry # None /\ Answers(c, i) /\ entry.pass = cred.pass)
               /\ UNCHANGED <<permVars, tableVars, sent, last_nonce_check, overtaken, now, plan, quirks>>
<1> DEFINE cred == req[c].creds[1]
           entry == digest[cred.user]
           i == cred.nonce
           claims == entry # None /\ nonces[i].alive /\ nonces[i].client = None
           accepted == entry # None /\ Answers(c, i) /\ Matches(entry, cred)
<1>1. req[c].at = "credentials" /\ req[c].left # <<>> /\ req[c] \in Req
  BY DEF Credential, ReqTypes
<1>2. req[c].left = req[c].creds
  BY <1>1 DEF RequestInv, RequestOk
<1>3. Head(req[c].left) = cred /\ cred \in Cred /\ req[c].creds # <<>>
  BY <1>1, <1>2, CredFacts DEF Req
<1>4. cred.scheme = "digest" /\ cred.user \in Users /\ i \in Ids
  BY <1>3 DEF Cred
<1>5. i \in 1 .. sent
  BY <1>3, <1>4 DEF RequestInv, RequestOk, Ids, NonceTypes
<1>6. Digest(c, cred) /\ UNCHANGED <<permVars, tableVars, now, plan, quirks>>
  BY <1>3 DEF Credential, RequestStep
<1>7. /\ nonces' = IF claims THEN [nonces EXCEPT ![i].client = c] ELSE nonces
      /\ weak' = IF claims THEN weak \cup {<<c, i>>} ELSE weak
      /\ UNCHANGED <<sent, last_nonce_check, overtaken>>
  BY <1>6 DEF Digest, Registered
<1>8. req' = IF accepted THEN [req EXCEPT ![c].token = entry.token, ![c].at = "check"]
             ELSE [req EXCEPT ![c].left = Tail(@)]
  BY <1>6 DEF Digest
<1>9. entry \in Entry \cup {None}
  BY <1>4 DEF TableTypes
<1>10. CASE accepted
  <2>1. entry \in Entry /\ entry.token \in Tokens /\ entry.pass = cred.pass
    BY <1>9, <1>10 DEF Entry, Matches
  <2>2. Found(c, entry.token)
    BY <1>8, <1>10, <2>1, FoundIs
  <2> QED BY <1>1, <1>3, <1>4, <1>5, <1>6, <1>7, <2>1, <2>2
<1>11. CASE ~accepted
  <2>1. Tried(c)
    BY <1>1, <1>8, <1>11, TriedIs
  <2> QED BY <1>1, <1>3, <1>4, <1>5, <1>6, <1>7, <1>11, <2>1 DEF Matches
<1> QED BY <1>10, <1>11

LEMMA BasicIs ==
    ASSUME ReqTypes, TableTypes, RequestInv, NEW c \in Clients, Credential(c),
           Head(req[c].left).scheme # "digest"
    PROVE  LET cred == req[c].creds[1]
               t == basic[<<cred.user, cred.pass>>]
           IN  /\ req[c].at = "credentials" /\ req[c].creds # <<>> /\ cred.scheme = "basic"
               /\ \/ t \in Tokens /\ Found(c, t)
                  \/ t = None /\ Tried(c)
               /\ UNCHANGED <<permVars, tableVars, nonceVars, quirks, now, plan>>
<1> DEFINE cred == req[c].creds[1]
           t == basic[<<cred.user, cred.pass>>]
<1>1. req[c].at = "credentials" /\ req[c].left # <<>> /\ req[c] \in Req
  BY DEF Credential, ReqTypes
<1>2. req[c].left = req[c].creds
  BY <1>1 DEF RequestInv, RequestOk
<1>3. Head(req[c].left) = cred /\ cred \in Cred /\ req[c].creds # <<>>
  BY <1>1, <1>2, CredFacts DEF Req
<1>4. cred.scheme = "basic" /\ cred.user \in Users /\ cred.pass \in Passes
  BY <1>3 DEF Cred
<1>5. t \in Tokens \cup {None}
  BY <1>4 DEF TableTypes
<1>6. /\ req' = IF t # None THEN [req EXCEPT ![c].token = t, ![c].at = "check"]
                ELSE [req EXCEPT ![c].left = Tail(@)]
      /\ UNCHANGED <<permVars, tableVars, nonceVars, quirks, now, plan>>
  BY <1>3, <1>4 DEF Credential, RequestStep
<1>7. CASE t # None
  BY <1>1, <1>3, <1>4, <1>5, <1>6, <1>7, FoundIs
<1>8. CASE t = None
  BY <1>1, <1>3, <1>4, <1>6, <1>8, TriedIs
<1> QED BY <1>7, <1>8

(* The request only moves on.                                              *)
Moves(c, at) ==
    /\ Edits(c) /\ req'[c].at = at /\ req'[c].checks = req[c].checks /\ req'[c].left = req[c].left
    /\ req'[c].token = req[c].token /\ req'[c].answers = req[c].answers
    /\ req'[c].settings = req[c].settings
(* The first check is over.                                                *)
Passes1(c, at, n) ==
    /\ Edits(c) /\ req'[c].at = at /\ req'[c].checks = Tail(req[c].checks)
    /\ req'[c].left = req[c].left /\ req'[c].token = req[c].token
    /\ req'[c].answers = req[c].answers + n

LEMMA NoMoreIs ==
    ASSUME ReqTypes, NEW c \in Clients, NoMoreCredentials(c)
    PROVE  /\ req[c].at = "credentials" /\ req[c].left = <<>>
           /\ Moves(c, IF req[c].token = None THEN "unauthorized" ELSE "check")
           /\ UNCHANGED <<permVars, tableVars, nonceVars, now, plan, quirks>>
BY GotoIs DEF NoMoreCredentials, RequestStep, Moves, Places

LEMMA CheckFactoryIs ==
    ASSUME ReqTypes, PermTypes, RequestInv, NEW c \in Clients, CheckFactory(c)
    PROVE  /\ req[c].at = "apply" /\ Head(req[c].checks) \in Permission /\ req[c].token \in Tokens
           /\ \/ Moves(c, "unauthorized") /\ UNCHANGED permVars
              \/ /\ factory_perms = None /\ Moves(c, "unauthorized")
                 /\ gst_rtsp_media_factory_get_permissions(c)
              \/ /\ token_refs[req[c].token] # 0 => TokenRole[req[c].token] \in Roles
                 /\ factory_perms \in Perms /\ Moves(c, "allowed")
                 /\ gst_rtsp_media_factory_get_permissions(c)
           /\ UNCHANGED <<tableVars, nonceVars, now, plan, quirks>>
<1>1. req[c].at = "apply" /\ req[c].token \in Tokens /\ Head(req[c].checks) \in Permission
  BY DEF CheckFactory, RequestInv, RequestOk, ReqTypes, Req
<1>2. TokenRole[req[c].token] \in Roles \cup {None} /\ factory_perms \in Perms \cup {None}
  BY <1>1 DEF PermTypes
<1>3. PICK role \in Read(req[c].token, TokenRole[req[c].token], Roles \cup {None}) :
        IF role = None THEN Goto(c, "unauthorized") /\ UNCHANGED permVars
        ELSE /\ Goto(c, IF factory_perms = None THEN "unauthorized" ELSE "allowed")
             /\ gst_rtsp_media_factory_get_permissions(c)
  BY DEF CheckFactory
<1>4. token_refs[req[c].token] # 0 => role = TokenRole[req[c].token]
  BY <1>3 DEF Read
<1>5. UNCHANGED <<tableVars, nonceVars, now, plan, quirks>>
  BY DEF CheckFactory, RequestStep
<1> QED BY <1>1, <1>2, <1>3, <1>4, <1>5, GotoIs DEF Moves, Places

LEMMA CloseIs ==
    ASSUME ReqTypes, NEW c \in Clients, Close(c)
    PROVE  /\ req[c].at = "idle" /\ Moves(c, "closing")
           /\ UNCHANGED <<permVars, tableVars, nonceVars, now, plan, quirks>>
BY GotoIs DEF Close, RequestStep, Moves, Places

LEMMA RemoveNonceIs ==
    ASSUME ReqTypes, NonceTypes, NEW c \in Clients, RemoveNonce(c)
    PROVE  /\ req[c].at = "closing"
           /\ \/ /\ UNCHANGED req
                 /\ \E i \in 1 .. sent : /\ <<c, i>> \in weak /\ weak' = weak \ {<<c, i>>}
                                         /\ nonces' = [nonces EXCEPT ![i].alive = FALSE]
              \/ /\ Moves(c, "gone") /\ UNCHANGED <<nonces, weak>>
                 /\ \A i \in 1 .. sent : <<c, i>> \notin weak
           /\ UNCHANGED <<permVars, tableVars, sent, last_nonce_check, overtaken, now, plan, quirks>>
<1>1. CASE \E w \in weak : w[1] = c
  <2>1. PICK w \in weak : /\ w[1] = c /\ weak' = weak \ {w} /\ UNCHANGED req
                          /\ nonces' = [nonces EXCEPT ![w[2]].alive = FALSE]
    BY <1>1 DEF RemoveNonce
  <2>2. w[2] \in 1 .. sent /\ w = <<c, w[2]>>
    BY <2>1 DEF NonceTypes
  <2> QED BY <2>1, <2>2 DEF RemoveNonce, RequestStep
<1>2. CASE ~\E w \in weak : w[1] = c
  <2>1. \A i \in 1 .. sent : <<c, i>> \notin weak
    BY <1>2
  <2> QED BY <1>2, <2>1, GotoIs DEF RemoveNonce, RequestStep, Moves, Places
<1> QED BY <1>1, <1>2

LEMMA SettingsIs ==
    ASSUME ReqTypes, RequestInv, NEW c \in Clients, check_client_settings(c)
    PROVE  /\ req[c].at = "apply" /\ Head(req[c].checks) = "settings" /\ req[c].checks # <<>>
           /\ Passes1(c, "check", 0)
           /\ token_refs[req[c].token] # 0 => (req'[c].settings <=> req[c].token \in ClientSettings)
           /\ UNCHANGED <<permVars, tableVars, nonceVars, now, plan, quirks>>
<1>1. req[c] \in Req /\ req[c].at = "apply"
  BY DEF ReqTypes, check_client_settings
<1>2. req[c].checks # <<>>
  BY <1>1 DEF RequestInv, RequestOk, Busy
<1>3. Tail(req[c].checks) \in Suffixes
  BY <1>1, <1>2, SuffixFacts DEF Req
<1>4. PICK b \in Read(req[c].token, req[c].token \in ClientSettings, BOOLEAN) :
        req' = [req EXCEPT ![c].at = "check", ![c].checks = Tail(@), ![c].settings = b]
  BY DEF check_client_settings
<1>5. b \in BOOLEAN /\ (token_refs[req[c].token] # 0 => (b <=> req[c].token \in ClientSettings))
  <2>1. b \in IF token_refs[req[c].token] = 0 THEN BOOLEAN ELSE {(req[c].token \in ClientSettings)}
    BY <1>4 DEF Read
  <2> DEFINE t == req[c].token
             refs == token_refs
             S == ClientSettings
  <2>2. b \in IF refs[t] = 0 THEN BOOLEAN ELSE {(t \in S)}
    BY <2>1
  <2>3. b \in BOOLEAN /\ (refs[t] # 0 => (b <=> t \in S))
    <3> HIDE DEF t, refs, S
    <3> QED BY <2>2, ReadOfToken, ZenonT(40)
  <2> QED BY <2>3
<1> DEFINE r == [req[c] EXCEPT !.at = "check", !.checks = Tail(@), !.settings = b]
<1>6. req' = [req EXCEPT ![c] = r]
  BY <1>1, <1>4 DEF ReqTypes
<1>7. r \in Req
  <2>1. r = [req[c] EXCEPT !.at = "check", !.checks = Tail(req[c].checks), !.settings = b]
    BY <1>1 DEF Req
  <2> QED BY <1>1, <1>3, <1>5, <2>1 DEF Req, Places
<1>8. /\ req' \in [Clients -> Req] /\ req'[c] = r
      /\ \A d \in Clients : d # c => req'[d] = req[d]
  BY <1>6, <1>7, EditIs
<1>9. req'[c].settings = b
  BY <1>1, <1>8 DEF Req
<1>10. Passes1(c, "check", 0)
  BY <1>1, <1>8 DEF Edits, Writes, Req, Passes1
<1> QED BY <1>1, <1>2, <1>5, <1>9, <1>10 DEF check_client_settings, RequestStep

LEMMA RespondIs ==
    ASSUME ReqTypes, NEW c \in Clients, Respond(c)
    PROVE  /\ req[c].at = "check" /\ req[c].checks = <<>>
           /\ Edits(c) /\ req'[c].at = "idle" /\ req'[c].answers = req[c].answers + 1
           /\ req'[c].left = req[c].left /\ req'[c].checks = req[c].checks
           /\ Configured \/ UNCHANGED permVars
           /\ UNCHANGED <<tableVars, nonceVars, now, plan, quirks>>
<1> DEFINE r == [req[c] EXCEPT !.at = "idle", !.answers = @ + 1]
<1>1. req[c] \in Req
  BY DEF ReqTypes
<1>2. r \in Req
  <2>1. req[c].answers + 1 \in Nat
    BY <1>1 DEF Req
  <2>2. r = [req[c] EXCEPT !.at = "idle", !.answers = req[c].answers + 1]
    BY <1>1 DEF Req
  <2> QED BY <1>1, <2>1, <2>2 DEF Req, Places
<1>3. req' = [req EXCEPT ![c] = r]
  BY <1>1 DEF ReqTypes, Respond
<1>4. /\ req' \in [Clients -> Req] /\ req'[c] = r
      /\ \A d \in Clients : d # c => req'[d] = req[d]
  BY <1>2, <1>3, EditIs
<1> QED BY <1>1, <1>4 DEF Edits, Writes, Req, Respond, RequestStep

LEMMA NonceFacts ==
    ASSUME NonceTypes
    PROVE  /\ \A i \in 1 .. sent : /\ i \in Ids /\ nonces[i] \in Nonce /\ nonces[i].to \in Clients
                                   /\ nonces[i].client \in Clients \cup {None}
                                   /\ nonces[i].stamp \in Nat /\ nonces[i].alive \in BOOLEAN
           /\ sent \in Nat /\ now \in Nat /\ now > 0 /\ last_nonce_check \in Nat
           /\ last_nonce_check <= now
<1>1. sent \in Nat /\ now \in Nat /\ now > 0 /\ last_nonce_check \in Nat /\ last_nonce_check <= now
  BY DEF NonceTypes
<1>2. \A i \in 1 .. sent : i \in Ids /\ nonces[i] \in Nonce
  BY DEF NonceTypes, Ids
<1> QED BY <1>1, <1>2 DEF Nonce

\* The difference of two times: what goes around below zero is far too old.
LEMMA ElapsedIs ==
    ASSUME NEW a \in Nat, NEW b \in Nat, b <= MaxTime
    PROVE  /\ Elapsed(a, b) \in Nat
           /\ a >= b => Elapsed(a, b) = a - b
           /\ a < b => Elapsed(a, b) >= NonceTimeout
<1>1. /\ Wrap \in Nat /\ MaxTime \in Nat /\ NonceTimeout \in Nat /\ Wrap >= MaxTime + NonceTimeout
  BY AuthAssumption
<1> QED BY <1>1 DEF Elapsed

\* A request that answers that it is not authorized.
LEMMA AnsweredIs ==
    ASSUME ReqTypes, RequestInv, NEW c \in Clients, req[c].at \in {"unauthorized", "challenge"}, Answered(c)
    PROVE  /\ req[c].checks # <<>> /\ Passes1(c, Refused(c), 1) /\ req'[c].settings = req[c].settings
           /\ quirks' = quirks \cup IF Head(req[c].checks) = "settings" THEN {"goes_on"} ELSE {}
<1>1. req[c] \in Req
  BY DEF ReqTypes
<1>2. req[c].checks # <<>>
  BY <1>1 DEF RequestInv, RequestOk, Busy
<1>3. Tail(req[c].checks) \in Suffixes /\ req[c].answers + 1 \in Nat /\ Refused(c) \in Places
  BY <1>1, <1>2, SuffixFacts DEF Req, Refused, Places
<1> DEFINE r == [req[c] EXCEPT !.at = Refused(c), !.answers = @ + 1, !.checks = Tail(@)]
<1>4. r \in Req
  <2>1. r = [req[c] EXCEPT !.at = Refused(c), !.answers = req[c].answers + 1, !.checks = Tail(req[c].checks)]
    BY <1>1 DEF Req
  <2> QED BY <1>1, <1>3, <2>1 DEF Req
<1>5. req' = [req EXCEPT ![c] = r]
  BY <1>1 DEF ReqTypes, Answered
<1>6. /\ req' \in [Clients -> Req] /\ req'[c] = r
      /\ \A d \in Clients : d # c => req'[d] = req[d]
  BY <1>4, <1>5, EditIs
<1>7. Passes1(c, Refused(c), 1) /\ req'[c].settings = req[c].settings
  BY <1>1, <1>6 DEF Edits, Writes, Req, Passes1
<1> QED BY <1>1, <1>2, <1>7 DEF Answered

\* The clock was read for a challenge.
Stamped(c) ==
    /\ Writes(c) /\ req'[c].at = "challenge" /\ req'[c].stamp = now /\ req'[c].checks = req[c].checks
    /\ req'[c].left = req[c].left /\ req'[c].token = req[c].token
    /\ req'[c].answers = req[c].answers /\ req'[c].settings = req[c].settings

LEMMA UnauthorizedIs ==
    ASSUME ReqTypes, NonceTypes, RequestInv, NEW c \in Clients, Unauthorized(c)
    PROVE  /\ req[c].at = "unauthorized" /\ req[c].checks # <<>>
           /\ \/ Stamped(c) /\ quirks' = quirks
              \/ /\ Passes1(c, Refused(c), 1) /\ req'[c].settings = req[c].settings
                 /\ quirks' = quirks \cup IF Head(req[c].checks) = "settings" THEN {"goes_on"} ELSE {}
           /\ UNCHANGED <<permVars, tableVars, nonceVars, now, plan>>
<1>1. req[c] \in Req /\ req[c].at = "unauthorized"
  BY DEF ReqTypes, Unauthorized
<1>2. req[c].checks # <<>>
  BY <1>1 DEF RequestInv, RequestOk, Busy
<1>3. UNCHANGED <<permVars, tableVars, nonceVars, now, plan>>
  BY DEF Unauthorized, RequestStep
<1>4. CASE "digest" \in auth_methods
  <2>1. req' = [req EXCEPT ![c].at = "challenge", ![c].stamp = now] /\ quirks' = quirks
    BY <1>4 DEF Unauthorized
  <2> DEFINE r == [req[c] EXCEPT !.at = "challenge", !.stamp = now]
  <2>2. r \in Req
    <3>1. now \in Nat
      BY AuthAssumption DEF NonceTypes
    <3> QED BY <1>1, <3>1 DEF Req, Places
  <2>3. req' = [req EXCEPT ![c] = r]
    BY <2>1 DEF ReqTypes
  <2>4. /\ req' \in [Clients -> Req] /\ req'[c] = r
        /\ \A d \in Clients : d # c => req'[d] = req[d]
    BY <2>2, <2>3, EditIs
  <2>5. Stamped(c)
    BY <1>1, <2>4 DEF Stamped, Writes, Req
  <2> QED BY <1>1, <1>2, <1>3, <2>1, <2>5
<1>5. CASE "digest" \notin auth_methods
  <2>1. Answered(c)
    BY <1>5 DEF Unauthorized
  <2> QED BY <1>1, <1>2, <1>3, <2>1, AnsweredIs
<1> QED BY <1>4, <1>5

LEMMA ChallengeIs ==
    ASSUME ReqTypes, NonceTypes, RequestInv, NEW c \in Clients, Challenge(c)
    PROVE  LET s == req[c].stamp
           IN  /\ req[c].at = "challenge" /\ req[c].checks # <<>> /\ s \in 1 .. now
               /\ Passes1(c, Refused(c), 1) /\ req'[c].settings = req[c].settings
               /\ quirks' = quirks \cup IF Head(req[c].checks) = "settings" THEN {"goes_on"} ELSE {}
               /\ sent' = sent + 1 /\ sent + 1 \in Ids /\ weak' = weak /\ last_nonce_check' = Looked(s)
               /\ overtaken' = overtaken \cup {i \in Expired(s) : nonces[i].stamp > s}
               /\ nonces' \in [Ids -> Nonce \cup {None}]
               /\ \A i \in Ids : (nonces'[i] = None) <=> i > sent + 1
               /\ nonces'[sent + 1] = [to |-> c, client |-> None, stamp |-> s, alive |-> TRUE]
               /\ \A i \in 1 .. sent :
                    /\ nonces'[i] = IF i \in Expired(s) THEN [nonces[i] EXCEPT !.alive = FALSE] ELSE nonces[i]
                    /\ nonces'[i] \in Nonce
               /\ UNCHANGED <<permVars, tableVars, now, plan>>
<1> DEFINE s == req[c].stamp
           new == [to |-> c, client |-> None, stamp |-> s, alive |-> TRUE]
           old(i) == IF i \in Expired(s) THEN [nonces[i] EXCEPT !.alive = FALSE] ELSE nonces[i]
<1>0. /\ req[c].at = "challenge" /\ req[c] \in Req /\ Answered(c)
      /\ UNCHANGED <<permVars, tableVars, now, plan>>
  BY DEF Challenge, ReqTypes, RequestStep
<1>00. s \in Nat /\ s > 0 /\ s <= now
  BY <1>0 DEF RequestInv, RequestOk, Req
<1>1. /\ sent < MaxNonces /\ sent' = sent + 1 /\ weak' = weak /\ last_nonce_check' = Looked(s)
      /\ overtaken' = overtaken \cup {i \in Expired(s) : nonces[i].stamp > s}
      /\ nonces' = [i \in Ids |-> CASE i = sent + 1 -> new
                                    [] i \in Expired(s) -> [nonces[i] EXCEPT !.alive = FALSE]
                                    [] OTHER -> nonces[i]]
  BY DEF Challenge
<1>2. sent + 1 \in Ids /\ \A i \in 1 .. sent : i \in Ids
  BY <1>1, NonceFacts DEF NonceTypes, Ids
<1>3. new \in Nonce
  BY <1>00 DEF Nonce
<1>4. ASSUME NEW i \in 1 .. sent PROVE old(i) \in Nonce
  BY NonceFacts DEF Nonce
<1>n. \A i \in Expired(s) : i \in 1 .. sent
  BY DEF Expired
<1> HIDE DEF s
<1>5. nonces'[sent + 1] = new
  <2>1. sent + 1 \notin Expired(s)
    BY <1>n, NonceFacts
  <2> QED BY <1>1, <1>2, <2>1
<1>6. \A i \in 1 .. sent : nonces'[i] = old(i)
  <2> SUFFICES ASSUME NEW i \in 1 .. sent PROVE nonces'[i] = old(i)
    OBVIOUS
  <2>1. i \in Ids /\ i # sent + 1
    BY <1>2, NonceFacts
  <2> QED BY <1>1, <2>1
<1>7. \A i \in Ids : i > sent + 1 => nonces'[i] = None
  <2> SUFFICES ASSUME NEW i \in Ids, i > sent + 1 PROVE nonces'[i] = None
    OBVIOUS
  <2>1. i # sent + 1 /\ i \notin 1 .. sent /\ i > sent
    BY NonceFacts DEF Ids
  <2>2. nonces[i] = None
    BY <2>1 DEF NonceTypes
  <2> QED BY <1>1, <1>n, <2>1, <2>2
<1> HIDE DEF new, old
<1>8. \A i \in Ids : i \in 1 .. sent \/ i = sent + 1 \/ i > sent + 1
  BY NonceFacts DEF Ids
<1>9. \A i \in Ids : nonces'[i] \in Nonce \cup {None} /\ ((nonces'[i] = None) <=> i > sent + 1)
  <2> SUFFICES ASSUME NEW i \in Ids
               PROVE  nonces'[i] \in Nonce \cup {None} /\ ((nonces'[i] = None) <=> i > sent + 1)
    OBVIOUS
  <2>1. CASE i \in 1 .. sent
    <3>1. nonces'[i] \in Nonce /\ nonces'[i] # None
      BY <1>4, <1>6, <2>1
    <3>2. ~(i > sent + 1)
      BY <2>1, NonceFacts
    <3> QED BY <3>1, <3>2
  <2>2. CASE i = sent + 1
    BY <1>3, <1>5, <2>2, NonceFacts
  <2>3. CASE i > sent + 1
    BY <1>7, <2>3
  <2> QED BY <1>8, <2>1, <2>2, <2>3
<1>10. nonces' \in [Ids -> Nonce \cup {None}]
  BY <1>1, <1>9
<1>11. \A i \in 1 .. sent : nonces'[i] = old(i) /\ nonces'[i] \in Nonce
  BY <1>4, <1>6
<1>12. s \in 1 .. now
  BY <1>00, NonceFacts DEF s
<1>13. /\ req[c].checks # <<>> /\ Passes1(c, Refused(c), 1) /\ req'[c].settings = req[c].settings
       /\ quirks' = quirks \cup IF Head(req[c].checks) = "settings" THEN {"goes_on"} ELSE {}
  BY <1>0, AnsweredIs
<1> QED BY <1>0, <1>1, <1>2, <1>5, <1>9, <1>10, <1>11, <1>12, <1>13 DEF new, old, s

LEMMA AllowedIs ==
    ASSUME ReqTypes, RequestInv, NEW c \in Clients, Allowed(c)
    PROVE  \E role \in Read(req[c].token, TokenRole[req[c].token], Roles) :
             LET b == is_allowed(c, role, Head(req[c].checks))
             IN  /\ req[c].at = "allowed" /\ req[c].checks # <<>> /\ req[c].token \in Tokens
                 /\ Head(req[c].checks) \in Permission
                 /\ Checked(c, b)
                 /\ \/ b /\ Passes1(c, "check", 0) /\ req'[c].settings = req[c].settings
                    \/ /\ Edits(c) /\ req'[c].at = "idle" /\ req'[c].answers = req[c].answers + 1
                       /\ req'[c].left = req[c].left /\ req'[c].checks = req[c].checks
                    \/ Moves(c, "unauthorized")
                 /\ UNCHANGED <<tableVars, nonceVars, now, plan, quirks>>
<1>a. PICK role \in Read(req[c].token, TokenRole[req[c].token], Roles) :
        LET allowed == is_allowed(c, role, Head(req[c].checks))
        IN  /\ Checked(c, allowed)
            /\ req' = CASE allowed -> [req EXCEPT ![c].at = "check", ![c].checks = Tail(@)]
                        [] ~allowed /\ Head(req[c].checks) = "access" ->
                             [req EXCEPT ![c].at = "idle", ![c].answers = @ + 1]
                        [] OTHER -> [req EXCEPT ![c].at = "unauthorized"]
  BY DEF Allowed
<1> DEFINE b == is_allowed(c, role, Head(req[c].checks))
<1>1. req[c] \in Req /\ req[c].at = "allowed"
  BY DEF ReqTypes, Allowed
<1>2. req[c].checks # <<>> /\ req[c].token \in Tokens /\ Head(req[c].checks) \in Permission
  BY <1>1 DEF RequestInv, RequestOk, Busy, Req
<1>3. Checked(c, b) /\ UNCHANGED <<tableVars, nonceVars, now, plan, quirks>>
  BY <1>a DEF Allowed, RequestStep
<1>4. req' = CASE b -> [req EXCEPT ![c].at = "check", ![c].checks = Tail(@)]
               [] ~b /\ Head(req[c].checks) = "access" -> [req EXCEPT ![c].at = "idle", ![c].answers = @ + 1]
               [] OTHER -> [req EXCEPT ![c].at = "unauthorized"]
  BY <1>a
<1> HIDE DEF b
<1>5. Tail(req[c].checks) \in Suffixes /\ req[c].answers + 1 \in Nat
  BY <1>1, <1>2, SuffixFacts DEF Req
<1>6. CASE b
  <2> DEFINE r == [req[c] EXCEPT !.at = "check", !.checks = Tail(@)]
  <2>1. r \in Req
    BY <1>1, <1>5 DEF Req, Places
  <2>2. req' = [req EXCEPT ![c].at = "check", ![c].checks = Tail(@)]
    BY <1>4, <1>6
  <2>3. req' = [req EXCEPT ![c] = r]
    BY <1>1, <2>2 DEF ReqTypes
  <2>4. /\ req' \in [Clients -> Req] /\ req'[c] = r
        /\ \A d \in Clients : d # c => req'[d] = req[d]
    BY <2>1, <2>3, EditIs
  <2>5. Passes1(c, "check", 0) /\ req'[c].settings = req[c].settings
    BY <1>1, <2>4 DEF Edits, Writes, Req, Passes1
  <2> QED BY <1>1, <1>2, <1>3, <1>6, <2>5 DEF b
<1>7. CASE ~b /\ Head(req[c].checks) = "access"
  <2> DEFINE r == [req[c] EXCEPT !.at = "idle", !.answers = @ + 1]
  <2>1. r \in Req
    <3>1. r = [req[c] EXCEPT !.at = "idle", !.answers = req[c].answers + 1]
      BY <1>1 DEF Req
    <3> QED BY <1>1, <1>5, <3>1 DEF Req, Places
  <2>2. req' = [req EXCEPT ![c].at = "idle", ![c].answers = @ + 1]
    BY <1>4, <1>7
  <2>3. req' = [req EXCEPT ![c] = r]
    BY <1>1, <2>2 DEF ReqTypes
  <2>4. /\ req' \in [Clients -> Req] /\ req'[c] = r
        /\ \A d \in Clients : d # c => req'[d] = req[d]
    BY <2>1, <2>3, EditIs
  <2>5. /\ Edits(c) /\ req'[c].at = "idle" /\ req'[c].answers = req[c].answers + 1
        /\ req'[c].left = req[c].left /\ req'[c].checks = req[c].checks
    BY <1>1, <2>4 DEF Edits, Writes, Req
  <2> QED BY <1>1, <1>2, <1>3, <2>5 DEF b
<1>8. CASE ~b /\ Head(req[c].checks) # "access"
  <2>1. Goto(c, "unauthorized")
    BY <1>4, <1>8 DEF Goto
  <2>2. Moves(c, "unauthorized")
    BY <2>1, GotoIs DEF Moves, Places
  <2> QED BY <1>1, <1>2, <1>3, <2>2 DEF b
<1> QED BY <1>6, <1>7, <1>8

(* What the application does, by the state it changes.                     *)
TableStep ==
    \/ \E k \in Users \X Passes, t \in Tokens \cup {None} : add_basic(k, t)
    \/ \E u \in Users, e \in Entry \cup {None} : add_digest(u, e)
    \/ \E t \in Tokens \cup {None} : set_default_token(t)
    \/ \E t \in owned : gst_rtsp_token_unref(t)
    \/ \E ms \in SUBSET {"basic", "digest"} : set_supported_methods(ms)
    \/ \E lines \in Seq(FileLine), t \in Tokens : ParseBegin(lines, t)
FileStep == ParseLine \/ ParseFails \/ ParseDone
PermStep ==
    \/ \E roles \in Roled : gst_rtsp_media_factory_set_permissions(roles)
    \/ \E r \in Roles, allowed \in SUBSET Permission, b \in BOOLEAN :
         gst_rtsp_media_factory_add_role(r, allowed, b)

LEMMA OpIs ==
    ASSUME NEW o \in Operation, o.op \notin {"permissions", "add_role"}, Owns(o), Op(o)
    PROVE  TableStep
<1>1. CASE o \in [op : {"add_basic"}, user : Users, pass : Passes, token : Tokens]
  <2>1. add_basic(<<o.user, o.pass>>, o.token)
    BY <1>1 DEF Op
  <2>2. <<o.user, o.pass>> \in Users \X Passes /\ o.token \in Tokens \cup {None}
    BY <1>1
  <2> QED BY <2>1, <2>2 DEF TableStep
<1>2. CASE o \in [op : {"remove_basic"}, user : Users, pass : Passes]
  <2>1. add_basic(<<o.user, o.pass>>, None)
    BY <1>2 DEF Op, remove_basic
  <2>2. <<o.user, o.pass>> \in Users \X Passes
    BY <1>2
  <2> QED BY <2>1, <2>2 DEF TableStep
<1>3. CASE o \in [op : {"add_digest"}, user : Users, pass : Passes, token : Tokens]
  <2>1. add_digest(o.user, [pass |-> o.pass, token |-> o.token])
    BY <1>3 DEF Op
  <2>2. o.user \in Users /\ [pass |-> o.pass, token |-> o.token] \in Entry
    BY <1>3 DEF Entry
  <2> QED BY <2>1, <2>2 DEF TableStep
<1>4. CASE o \in [op : {"remove_digest"}, user : Users]
  <2>1. add_digest(o.user, None) /\ o.user \in Users
    BY <1>4 DEF Op, remove_digest
  <2> QED BY <2>1 DEF TableStep
<1>5. CASE o \in [op : {"default"}, token : Tokens \cup {None}]
  <2>1. set_default_token(o.token) /\ o.token \in Tokens \cup {None}
    BY <1>5 DEF Op
  <2> QED BY <2>1 DEF TableStep
<1>6. CASE o \in [op : {"methods"}, methods : SUBSET {"basic", "digest"}]
  <2>1. set_supported_methods(o.methods) /\ o.methods \in SUBSET {"basic", "digest"}
    BY <1>6 DEF Op
  <2> QED BY <2>1 DEF TableStep
<1>7. CASE o \in [op : {"htdigest"}, lines : Seq(FileLine), token : Tokens]
  <2>1. ParseBegin(o.lines, o.token) /\ o.lines \in Seq(FileLine) /\ o.token \in Tokens
    BY <1>7 DEF Op
  <2> QED BY <2>1 DEF TableStep
<1>8. CASE o \in [op : {"unref"}, token : Tokens]
  <2>1. gst_rtsp_token_unref(o.token) /\ o.op = "unref" /\ o.token \in Tokens
    BY <1>8 DEF Op
  <2>2. o.token \in owned
    BY <2>1, AuthAssumption DEF Owns
  <2> QED BY <2>1, <2>2 DEF TableStep
<1> QED BY <1>1, <1>2, <1>3, <1>4, <1>5, <1>6, <1>7, <1>8 DEF Operation

LEMMA PermOpIs == ASSUME NEW o \in Operation, o.op \in {"permissions", "add_role"}, PermOp(o) PROVE PermStep
<1>1. CASE o \in [op : {"permissions"}, roles : Roled]
  BY <1>1 DEF PermOp, PermStep
<1>2. CASE o \in [op : {"add_role"}, role : Roles, allowed : SUBSET Permission, structure : BOOLEAN]
  <2>1. gst_rtsp_media_factory_add_role(o.role, o.allowed, o.structure)
    BY <1>2 DEF PermOp
  <2>2. o.role \in Roles /\ o.allowed \in SUBSET Permission /\ o.structure \in BOOLEAN
    BY <1>2
  <2> QED BY <2>1, <2>2 DEF PermStep
<1> QED BY <1>1, <1>2 DEF Operation

LEMMA ApplicationIs ==
    ASSUME ReqTypes, Application
    PROVE  /\ UNCHANGED <<nonceVars, now, quirks>> /\ plan' \in Plan /\ Disturbed
           /\ \/ parse = None /\ TableStep /\ UNCHANGED permVars
              \/ PermStep /\ UNCHANGED tableVars
              \/ FileStep /\ UNCHANGED permVars
<1>1. UNCHANGED <<nonceVars, now, quirks>> /\ Disturbed
  BY DEF Application
<1>2. ASSUME plan.app # <<>>, parse = None, Owns(Head(plan.app)), plan' = [plan EXCEPT !.app = Tail(@)],
             \/ /\ Head(plan.app).op \notin {"permissions", "add_role"} /\ Op(Head(plan.app))
                /\ UNCHANGED permVars
             \/ /\ Head(plan.app).op \in {"permissions", "add_role"} /\ PermOp(Head(plan.app))
                /\ UNCHANGED tableVars
      PROVE  /\ plan' \in Plan
             /\ \/ parse = None /\ TableStep /\ UNCHANGED permVars
                \/ PermStep /\ UNCHANGED tableVars
  <2>1. plan' \in Plan /\ Head(plan.app) \in Operation
    BY <1>2, PlanFacts
  <2> QED BY <1>2, <2>1, OpIs, PermOpIs
<1>3. CASE FileStep /\ UNCHANGED <<permVars, plan>>
  BY <1>1, <1>3 DEF ReqTypes
<1> QED BY <1>1, <1>2, <1>3 DEF Application, FileStep

\* Requests that go on while a table changes.
LEMMA DisturbedIs ==
    ASSUME ReqTypes, Disturbed
    PROVE  /\ req' \in [Clients -> Req]
           /\ \A c \in Clients :
                /\ req'[c].at = req[c].at /\ req'[c].checks = req[c].checks
                /\ req'[c].method = req[c].method /\ req'[c].creds = req[c].creds
                /\ req'[c].left = req[c].left /\ req'[c].token = req[c].token
                /\ req'[c].answers = req[c].answers /\ req'[c].settings = req[c].settings
                /\ req'[c].stamp = req[c].stamp
                /\ req[c].at \notin {"idle", "gone"} =>
                     \/ req'[c].disturbed
                     \/ /\ req'[c].disturbed = req[c].disturbed
                        /\ UNCHANGED <<basic, digest, default_token, perms, factory_perms>>
<1>1. CASE req' = req /\ UNCHANGED <<basic, digest, default_token, perms, factory_perms>>
  BY <1>1 DEF ReqTypes
<1>2. CASE req' = [c \in Clients |-> IF req[c].at \in {"idle", "gone"} THEN req[c]
                                     ELSE [req[c] EXCEPT !.disturbed = TRUE]]
  <2> SUFFICES ASSUME NEW c \in Clients
               PROVE  /\ req'[c] \in Req
                      /\ req'[c].at = req[c].at /\ req'[c].checks = req[c].checks
                      /\ req'[c].method = req[c].method /\ req'[c].creds = req[c].creds
                      /\ req'[c].left = req[c].left /\ req'[c].token = req[c].token
                      /\ req'[c].answers = req[c].answers /\ req'[c].settings = req[c].settings
                      /\ req'[c].stamp = req[c].stamp
                      /\ req[c].at \notin {"idle", "gone"} => req'[c].disturbed
    BY <1>2
  <2>1. req[c] \in Req
    BY DEF ReqTypes
  <2> QED BY <1>2, <2>1 DEF Req
<1> QED BY <1>1, <1>2 DEF Disturbed

-----------------------------------------------------------------------------
\* The permissions.

One(b) == IF b THEN 1 ELSE 0
Checking(p) == {c \in Clients : checking[c] = p}
PInv == PermTypes /\ PermissionRefs /\ RolesAreAdded /\ AskedInv

LEMMA Counting ==
    ASSUME NEW S, IsFiniteSet(S), NEW T \in SUBSET S
    PROVE  /\ IsFiniteSet(T) /\ Cardinality(T) \in Nat
           /\ \A x \in S \ T : Cardinality(T \cup {x}) = Cardinality(T) + 1
           /\ \A x \in T : Cardinality(T \ {x}) = Cardinality(T) - 1 /\ Cardinality(T) > 0
<1>1. IsFiniteSet(T)
  BY FS_Subset
<1>2. Cardinality(T) \in Nat
  BY <1>1, FS_CardinalityType
<1>3. ASSUME NEW x \in S \ T PROVE Cardinality(T \cup {x}) = Cardinality(T) + 1
  BY <1>1, FS_AddElement
<1>4. ASSUME NEW x \in T PROVE Cardinality(T \ {x}) = Cardinality(T) - 1 /\ Cardinality(T) > 0
  <2>1. Cardinality(T \ {x}) = Cardinality(T) - 1
    BY <1>1, FS_RemoveElement
  <2>2. Cardinality(T) # 0
    BY <1>1, FS_EmptySet
  <2> QED BY <1>2, <2>1, <2>2
<1> QED BY <1>1, <1>2, <1>3, <1>4

LEMMA RefsAre ==
    /\ PermissionRefs <=>
         \A p \in Perms : perms[p].refs = One(factory_perms = p) + media_perms[p] + Cardinality(Checking(p))
    /\ \A p : Checking(p) \in SUBSET Clients
BY DEF PermissionRefs, One, Checking

LEMMA PermFields ==
    ASSUME PermTypes, NEW p \in Perms
    PROVE  /\ perms[p] \in [roles : Roled, refs : Int] /\ perms[p].roles \in Roled
           /\ perms[p].refs \in Int /\ media_perms[p] \in Nat
           /\ Cardinality(Checking(p)) \in Nat
BY RefsAre, Counting DEF PermTypes

\* The references of each object after a step.
LEMMA RefsNext ==
    ASSUME \A p \in Perms :
             perms'[p].refs = One(factory_perms' = p) + media_perms'[p] + Cardinality(Checking(p)')
    PROVE  PermissionRefs'
BY DEF PermissionRefs, One, Checking

LEMMA PermSame == ASSUME PInv, UNCHANGED permVars PROVE PInv'
BY DEF PInv, PermTypes, PermissionRefs, RolesAreAdded, AskedInv, permVars

\* One object gets n references more; the roles stay.
LEMMA RefsMoved ==
    ASSUME PInv, NEW p \in Perms, NEW n \in Int, perms' = [perms EXCEPT ![p].refs = @ + n],
           factory_perms' = factory_perms, asked' = asked, pquirks' = pquirks
    PROVE  /\ perms' \in [Perms -> [roles : Roled, refs : Int]] /\ RolesAreAdded' /\ AskedInv'
           /\ \A q \in Perms : /\ perms'[q].roles = perms[q].roles
                               /\ perms'[q].refs = perms[q].refs + (IF q = p THEN n ELSE 0)
<1>1. /\ perms \in [Perms -> [roles : Roled, refs : Int]]
      /\ \A q \in Perms : perms[q].roles \in Roled /\ perms[q].refs \in Int
  BY PermFields DEF PInv, PermTypes
<1>2. [perms[p] EXCEPT !.refs = @ + n] \in [roles : Roled, refs : Int]
  BY <1>1
<1>3. perms' \in [Perms -> [roles : Roled, refs : Int]]
  BY <1>1, <1>2
<1>4. \A q \in Perms : /\ perms'[q].roles = perms[q].roles
                       /\ perms'[q].refs = perms[q].refs + (IF q = p THEN n ELSE 0)
  BY <1>1
<1>5. RolesAreAdded'
  BY <1>4 DEF PInv, RolesAreAdded, PermTypes
<1>6. AskedInv'
  BY DEF PInv, AskedInv
<1> QED BY <1>3, <1>4, <1>5, <1>6

RolesStay == factory_perms' = factory_perms /\ \A p \in Perms : perms'[p].roles = perms[p].roles

LEMMA GetPermissions ==
    ASSUME PInv, NEW c \in Clients, checking[c] = None, gst_rtsp_media_factory_get_permissions(c)
    PROVE  PInv' /\ RolesStay /\ checking' = [checking EXCEPT ![c] = factory_perms]
<1>1. /\ checking' = [checking EXCEPT ![c] = factory_perms]
      /\ factory_perms' = factory_perms /\ media_perms' = media_perms /\ asked' = asked /\ pquirks' = pquirks
      /\ perms' = IF factory_perms = None THEN perms ELSE [perms EXCEPT ![factory_perms].refs = @ + 1]
  BY DEF gst_rtsp_media_factory_get_permissions
<1>2. checking \in [Clients -> Perms \cup {None}] /\ factory_perms \in Perms \cup {None}
  BY DEF PInv, PermTypes
<1>3. CASE factory_perms = None
  <2>1. UNCHANGED permVars
    BY <1>1, <1>2, <1>3 DEF permVars
  <2> QED BY <1>1, <2>1, PermSame DEF RolesStay, permVars
<1>4. CASE factory_perms \in Perms
  <2>0. PICK f \in Perms : f = factory_perms
    BY <1>4
  <2>1. perms' = [perms EXCEPT ![f].refs = @ + 1]
    BY <1>1, <1>4, <2>0
  <2>2. /\ perms' \in [Perms -> [roles : Roled, refs : Int]] /\ RolesAreAdded' /\ AskedInv'
        /\ \A q \in Perms : /\ perms'[q].roles = perms[q].roles
                            /\ perms'[q].refs = perms[q].refs + (IF q = f THEN 1 ELSE 0)
    <3>1. 1 \in Int
      OBVIOUS
    <3>2. factory_perms' = factory_perms /\ asked' = asked /\ pquirks' = pquirks
      BY <1>1
    <3> QED BY <2>1, <3>1, <3>2, RefsMoved
  <2>3. Checking(f)' = Checking(f) \cup {c} /\ c \in Clients \ Checking(f)
    BY <1>1, <1>2, <1>4, <2>0 DEF Checking
  <2>4. \A q \in Perms : q # f => Checking(q)' = Checking(q)
    BY <1>1, <1>2, <2>0 DEF Checking
  <2>5. Cardinality(Checking(f)') = Cardinality(Checking(f)) + 1
    BY <2>3, RefsAre, Counting
  <2>6. ASSUME NEW p \in Perms
        PROVE  perms'[p].refs = One(factory_perms' = p) + media_perms'[p] + Cardinality(Checking(p)')
    <3>1. perms[p].refs = One(factory_perms = p) + media_perms[p] + Cardinality(Checking(p))
      BY RefsAre DEF PInv
    <3>2. One(factory_perms = p) \in Nat /\ media_perms[p] \in Nat /\ Cardinality(Checking(p)) \in Nat
      BY PermFields DEF PInv, One
    <3>3. One(factory_perms' = p) = One(factory_perms = p) /\ media_perms'[p] = media_perms[p]
      BY <1>1
    <3>4. Cardinality(Checking(p)') = Cardinality(Checking(p)) + (IF p = f THEN 1 ELSE 0)
      <4>1. CASE p = f
        BY <2>5, <4>1
      <4>2. CASE p # f
        BY <2>4, <3>2, <4>2
      <4> QED BY <4>1, <4>2
    <3>5. perms'[p].refs = perms[p].refs + (IF p = f THEN 1 ELSE 0)
      BY <2>2
    <3> QED BY <3>1, <3>2, <3>3, <3>4, <3>5
  <2>7. PermissionRefs'
    BY <2>6, RefsNext
  <2>8. PermTypes'
    BY <1>1, <1>2, <2>2 DEF PInv, PermTypes
  <2> QED BY <1>1, <2>2, <2>7, <2>8 DEF PInv, RolesStay
<1> QED BY <1>2, <1>3, <1>4

LEMMA GiveBack ==
    ASSUME PInv, NEW c \in Clients, checking[c] \in Perms, NEW b, Checked(c, b)
    PROVE  PInv' /\ RolesStay /\ checking' = [checking EXCEPT ![c] = None]
<1>0. PICK f \in Perms : f = checking[c]
  OBVIOUS
<1>1. /\ checking' = [checking EXCEPT ![c] = None]
      /\ factory_perms' = factory_perms /\ media_perms' = media_perms /\ asked' = asked /\ pquirks' = pquirks
      /\ perms' = [perms EXCEPT ![f].refs = @ - 1]
  BY <1>0 DEF Checked, GivenBack, Unref
<1>2. checking \in [Clients -> Perms \cup {None}] /\ factory_perms \in Perms \cup {None}
  BY DEF PInv, PermTypes
<1>3. perms' = [perms EXCEPT ![f].refs = @ + (-1)]
  BY <1>1, PermFields DEF PInv, PermTypes
<1>4. /\ perms' \in [Perms -> [roles : Roled, refs : Int]] /\ RolesAreAdded' /\ AskedInv'
      /\ \A q \in Perms : /\ perms'[q].roles = perms[q].roles
                          /\ perms'[q].refs = perms[q].refs + (IF q = f THEN -1 ELSE 0)
  <2>1. -1 \in Int
    OBVIOUS
  <2> QED BY <1>1, <1>3, <2>1, RefsMoved
<1>5. Checking(f)' = Checking(f) \ {c} /\ c \in Checking(f)
  BY <1>0, <1>1, <1>2 DEF Checking
<1>6. \A q \in Perms : q # f => Checking(q)' = Checking(q)
  BY <1>0, <1>1, <1>2 DEF Checking
<1>7. Cardinality(Checking(f)') = Cardinality(Checking(f)) - 1
  BY <1>5, RefsAre, Counting
<1>8. ASSUME NEW p \in Perms
      PROVE  perms'[p].refs = One(factory_perms' = p) + media_perms'[p] + Cardinality(Checking(p)')
  <2>1. perms[p].refs = One(factory_perms = p) + media_perms[p] + Cardinality(Checking(p))
    BY RefsAre DEF PInv
  <2>2. One(factory_perms = p) \in Nat /\ media_perms[p] \in Nat /\ Cardinality(Checking(p)) \in Nat
    BY PermFields DEF PInv, One
  <2>3. One(factory_perms' = p) = One(factory_perms = p) /\ media_perms'[p] = media_perms[p]
    BY <1>1
  <2> QED BY <1>4, <1>6, <1>7, <2>1, <2>2, <2>3
<1>9. PermissionRefs'
  BY <1>8, RefsNext
<1>10. PermTypes'
  BY <1>1, <1>2, <1>4 DEF PInv, PermTypes
<1> QED BY <1>1, <1>4, <1>9, <1>10 DEF PInv, RolesStay

\* A media comes, or goes.
LEMMA MediaRefs ==
    ASSUME PInv, NEW f \in Perms, NEW n \in {1, -1}, media_perms[f] + n \in Nat,
           perms' = [perms EXCEPT ![f].refs = @ + n], media_perms' = [media_perms EXCEPT ![f] = @ + n],
           UNCHANGED <<factory_perms, checking, asked, pquirks>>
    PROVE  PInv' /\ RolesStay
<1>1. /\ perms' \in [Perms -> [roles : Roled, refs : Int]] /\ RolesAreAdded' /\ AskedInv'
      /\ \A q \in Perms : /\ perms'[q].roles = perms[q].roles
                          /\ perms'[q].refs = perms[q].refs + (IF q = f THEN n ELSE 0)
  <2>1. n \in Int
    OBVIOUS
  <2> QED BY <2>1, RefsMoved
<1>2. media_perms \in [Perms -> Nat]
  BY DEF PInv, PermTypes
<1>3. ASSUME NEW p \in Perms
      PROVE  perms'[p].refs = One(factory_perms' = p) + media_perms'[p] + Cardinality(Checking(p)')
  <2>1. perms[p].refs = One(factory_perms = p) + media_perms[p] + Cardinality(Checking(p))
    BY RefsAre DEF PInv
  <2>2. One(factory_perms = p) \in Nat /\ media_perms[p] \in Nat /\ Cardinality(Checking(p)) \in Nat
    BY PermFields DEF PInv, One
  <2>3. Checking(p)' = Checking(p)
    BY DEF Checking
  <2>4. media_perms'[p] = media_perms[p] + (IF p = f THEN n ELSE 0)
    BY <1>2
  <2>5. Cardinality(Checking(p)') = Cardinality(Checking(p)) /\ One(factory_perms' = p) = One(factory_perms = p)
    BY <2>3
  <2> QED BY <1>1, <2>1, <2>2, <2>4, <2>5
<1>4. PermissionRefs'
  BY <1>3, RefsNext
<1>5. PermTypes'
  BY <1>1, <1>2 DEF PInv, PermTypes
<1> QED BY <1>1, <1>4, <1>5 DEF PInv, RolesStay

LEMMA ConfiguredRefs == ASSUME PInv, Configured PROVE PInv' /\ RolesStay /\ UNCHANGED checking
<1>1. CASE factory_perms = None
  BY <1>1, PermSame DEF Configured, RolesStay, permVars
<1>2. CASE factory_perms # None
  <2>1. factory_perms \in Perms /\ media_perms[factory_perms] \in Nat
    BY <1>2 DEF PInv, PermTypes
  <2>2. /\ perms' = [perms EXCEPT ![factory_perms].refs = @ + 1]
        /\ media_perms' = [media_perms EXCEPT ![factory_perms] = @ + 1]
        /\ UNCHANGED <<factory_perms, checking, asked, pquirks>>
    BY <1>2 DEF Configured
  <2>3. 1 \in {1, -1} /\ media_perms[factory_perms] + 1 \in Nat
    BY <2>1
  <2>4. PInv' /\ RolesStay
    BY <2>1, <2>2, <2>3, MediaRefs
  <2> QED BY <2>2, <2>4
<1> QED BY <1>1, <1>2

LEMMA MediaFreedRefs == ASSUME PInv, MediaFreed PROVE PInv' /\ RolesStay /\ UNCHANGED checking
<1>1. PICK p \in Perms :
        /\ media_perms[p] > 0 /\ media_perms' = [media_perms EXCEPT ![p] = @ - 1]
        /\ perms' = Unref(perms, p) /\ UNCHANGED <<factory_perms, checking, asked, pquirks>>
  BY DEF MediaFreed
<1>2. perms' = [perms EXCEPT ![p].refs = @ - 1]
  BY <1>1 DEF Unref
<1>3. perms' = [perms EXCEPT ![p].refs = @ + (-1)] /\ media_perms' = [media_perms EXCEPT ![p] = @ + (-1)]
  BY <1>1, <1>2, PermFields DEF PInv, PermTypes
<1>4. media_perms[p] + (-1) \in Nat
  BY <1>1, PermFields DEF PInv
<1>5. -1 \in {1, -1}
  OBVIOUS
<1>6. PInv' /\ RolesStay
  BY <1>1, <1>3, <1>4, <1>5, MediaRefs
<1> QED BY <1>1, <1>6

\* An object nobody has.
LEMMA FreeFacts ==
    ASSUME PInv, Free(perms) # {}
    PROVE  LET p == CHOOSE q \in Free(perms) : TRUE
           IN  /\ p \in Perms /\ p # factory_perms /\ p # None
               /\ media_perms[p] = 0 /\ Cardinality(Checking(p)) = 0
<1> DEFINE p == CHOOSE q \in Free(perms) : TRUE
<1>1. p \in Free(perms)
  OBVIOUS
<1> HIDE DEF p
<1>2. p \in Perms /\ perms[p].refs = 0 /\ p # None
  BY <1>1 DEF Free
<1>3. perms[p].refs = One(factory_perms = p) + media_perms[p] + Cardinality(Checking(p))
  BY <1>2, RefsAre DEF PInv
<1>4. One(factory_perms = p) \in Nat /\ media_perms[p] \in Nat /\ Cardinality(Checking(p)) \in Nat
  BY <1>2, PermFields DEF PInv, One
<1>5. One(factory_perms = p) = 0 /\ media_perms[p] = 0 /\ Cardinality(Checking(p)) = 0
  BY <1>2, <1>3, <1>4
<1>6. p # factory_perms
  BY <1>5 DEF One
<1> QED BY <1>2, <1>5, <1>6 DEF p

\* The factory gets an object nobody had, and gives its own back.
LEMMA FreshPerms ==
    ASSUME PInv, NEW p \in Perms, p # factory_perms, p # None, media_perms[p] = 0, Cardinality(Checking(p)) = 0,
           NEW roles \in Roled, factory_perms' = p, asked' = roles,
           UNCHANGED <<media_perms, checking>>,
           perms' = [OldUnref(perms, factory_perms) EXCEPT ![p] = [roles |-> roles, refs |-> 1]]
    PROVE  PInv'
<1>1. factory_perms \in Perms \cup {None} /\ perms \in [Perms -> [roles : Roled, refs : Int]]
  BY DEF PInv, PermTypes
<1> DEFINE f == OldUnref(perms, factory_perms)
<1>2. /\ f \in [Perms -> [roles : Roled, refs : Int]]
      /\ \A q \in Perms : f[q].refs = perms[q].refs - One(factory_perms = q)
  <2>1. \A q \in Perms : perms[q] \in [roles : Roled, refs : Int] /\ perms[q].refs \in Int
    BY <1>1
  <2>2. CASE factory_perms = None
    <3>1. f = perms /\ \A q \in Perms : q # factory_perms
      BY <2>2 DEF OldUnref, Unref
    <3> HIDE DEF f
    <3> QED BY <1>1, <2>1, <3>1 DEF One
  <2>3. CASE factory_perms # None
    <3>0. PICK g \in Perms : g = factory_perms
      BY <1>1, <2>3
    <3>1. f = [perms EXCEPT ![g].refs = @ - 1]
      BY <2>3, <3>0 DEF OldUnref, Unref
    <3> HIDE DEF f
    <3>2. [perms[g] EXCEPT !.refs = @ - 1] \in [roles : Roled, refs : Int]
      BY <2>1
    <3>3. f \in [Perms -> [roles : Roled, refs : Int]]
      BY <1>1, <3>1, <3>2
    <3>4. \A q \in Perms : f[q].refs = perms[q].refs - (IF q = g THEN 1 ELSE 0)
      BY <1>1, <2>1, <3>1
    <3> QED BY <3>0, <3>3, <3>4 DEF One
  <2> QED BY <2>2, <2>3
<1> HIDE DEF f
<1>3. perms' = [f EXCEPT ![p] = [roles |-> roles, refs |-> 1]]
  BY DEF f
<1>4. [roles |-> roles, refs |-> 1] \in [roles : Roled, refs : Int]
  OBVIOUS
<1>5. perms' \in [Perms -> [roles : Roled, refs : Int]]
  BY <1>2, <1>3, <1>4
<1>6. perms'[p].roles = roles /\ perms'[p].refs = 1
  BY <1>2, <1>3
<1>7. PermTypes'
  BY <1>5 DEF PInv, PermTypes
<1>8. RolesAreAdded' /\ AskedInv'
  BY <1>6 DEF RolesAreAdded, AskedInv
<1>9. ASSUME NEW q \in Perms
      PROVE  perms'[q].refs = One(factory_perms' = q) + media_perms'[q] + Cardinality(Checking(q)')
  <2>1. Checking(q)' = Checking(q) /\ media_perms'[q] = media_perms[q]
    BY DEF Checking
  <2>2. CASE q = p
    BY <1>6, <2>1, <2>2 DEF One
  <2>3. CASE q # p
    <3>1. perms[q].refs = One(factory_perms = q) + media_perms[q] + Cardinality(Checking(q))
      BY RefsAre DEF PInv
    <3>2. One(factory_perms = q) \in Nat /\ media_perms[q] \in Nat /\ Cardinality(Checking(q)) \in Nat
      BY PermFields DEF PInv, One
    <3>3. perms'[q].refs = perms[q].refs - One(factory_perms = q) /\ One(factory_perms' = q) = 0
      BY <1>2, <1>3, <2>3 DEF One
    <3> QED BY <2>1, <3>1, <3>2, <3>3
  <2> QED BY <2>2, <2>3
<1>10. PermissionRefs'
  BY <1>9, RefsNext
<1> QED BY <1>7, <1>8, <1>10 DEF PInv

LEMMA SetPermissions ==
    ASSUME PInv, NEW roles \in Roled, gst_rtsp_media_factory_set_permissions(roles)
    PROVE  PInv' /\ UNCHANGED checking
<1> DEFINE p == CHOOSE q \in Free(perms) : TRUE
<1>1. /\ p \in Perms /\ p # factory_perms /\ p # None
      /\ media_perms[p] = 0 /\ Cardinality(Checking(p)) = 0
  BY FreeFacts DEF gst_rtsp_media_factory_set_permissions
<1>2. /\ perms' = [OldUnref(perms, factory_perms) EXCEPT ![p] = [roles |-> roles, refs |-> 1]]
      /\ factory_perms' = p /\ asked' = roles /\ UNCHANGED <<media_perms, checking>>
  BY DEF gst_rtsp_media_factory_set_permissions
<1> HIDE DEF p
<1>3. PInv'
  BY <1>1, <1>2, FreshPerms
<1> QED BY <1>2, <1>3

LEMMA AddRole ==
    ASSUME PInv, NEW r \in Roles, NEW allowed \in SUBSET Permission, NEW b \in BOOLEAN,
           gst_rtsp_media_factory_add_role(r, allowed, b)
    PROVE  PInv' /\ UNCHANGED checking
<1>1. /\ asked' = [asked EXCEPT ![r] = allowed] /\ UNCHANGED <<media_perms, checking>>
      /\ asked \in Roled /\ asked' \in Roled
  BY DEF gst_rtsp_media_factory_add_role, PInv, PermTypes, Roled
<1>2. CASE factory_perms = None
  <2> DEFINE p == CHOOSE q \in Free(perms) : TRUE
  <2>1. /\ p \in Perms /\ p # factory_perms /\ p # None
        /\ media_perms[p] = 0 /\ Cardinality(Checking(p)) = 0
    BY <1>2, FreeFacts DEF gst_rtsp_media_factory_add_role
  <2>2. /\ perms' = [perms EXCEPT ![p] = [roles |-> RoleReplaced(Nothing, r, allowed), refs |-> 1]]
        /\ factory_perms' = p
    BY <1>2 DEF gst_rtsp_media_factory_add_role
  <2> HIDE DEF p
  <2>3. RoleReplaced(Nothing, r, allowed) = asked'
    BY <1>1, <1>2 DEF RoleReplaced, PInv, AskedInv
  <2>4. perms' = [OldUnref(perms, factory_perms) EXCEPT ![p] = [roles |-> asked', refs |-> 1]]
    BY <1>2, <2>2, <2>3 DEF OldUnref, Unref
  <2>5. PInv'
    BY <1>1, <2>1, <2>2, <2>4, FreshPerms
  <2> QED BY <1>1, <2>5
<1>3. CASE factory_perms # None
  <2>0. PICK f \in Perms : f = factory_perms
    BY <1>3 DEF PInv, PermTypes
  <2> DEFINE w == Writable(f, b)
  <2>1. /\ perms' = [perms EXCEPT ![f].roles = IF w THEN RoleReplaced(@, r, allowed) ELSE @]
        /\ pquirks' = pquirks \cup IF w THEN {} ELSE {"not_writable"}
        /\ factory_perms' = factory_perms
    BY <1>3, <2>0 DEF gst_rtsp_media_factory_add_role
  <2> HIDE DEF w
  <2>2. /\ perms \in [Perms -> [roles : Roled, refs : Int]]
        /\ \A q \in Perms : perms[q].roles \in Roled /\ perms[q].refs \in Int
    BY PermFields DEF PInv, PermTypes
  <2> DEFINE x == IF w THEN [perms[f].roles EXCEPT ![r] = allowed] ELSE perms[f].roles
  <2>3. x \in Roled
    BY <2>2 DEF Roled
  <2>4. perms' = [perms EXCEPT ![f] = [perms[f] EXCEPT !.roles = x]]
    BY <2>1, <2>2 DEF RoleReplaced
  <2>5. (w => x = [perms[f].roles EXCEPT ![r] = allowed]) /\ (~w => x = perms[f].roles)
    OBVIOUS
  <2> HIDE DEF x
  <2>6. [perms[f] EXCEPT !.roles = x] \in [roles : Roled, refs : Int]
    BY <2>2, <2>3
  <2>7. perms' \in [Perms -> [roles : Roled, refs : Int]]
    BY <2>2, <2>4, <2>6
  <2>8. perms'[f].roles = x /\ \A q \in Perms : perms'[q].refs = perms[q].refs
    BY <2>2, <2>4
  <2>9. PermTypes'
    BY <1>1, <2>1, <2>7 DEF PInv, PermTypes
  <2>10. RolesAreAdded' /\ AskedInv'
    <3>1. ASSUME "not_writable" \notin pquirks' PROVE x = asked'
      <4>1. w /\ "not_writable" \notin pquirks
        BY <2>1, <3>1
      <4>2. perms[f].roles = asked
        BY <1>3, <2>0, <4>1 DEF PInv, RolesAreAdded
      <4> QED BY <1>1, <2>5, <4>1, <4>2
    <3>2. RolesAreAdded'
      BY <2>0, <2>1, <2>8, <3>1 DEF RolesAreAdded
    <3>3. AskedInv'
      BY <1>3, <2>1 DEF AskedInv
    <3> QED BY <3>2, <3>3
  <2>11. PermissionRefs'
    <3>1. ASSUME NEW q \in Perms
          PROVE  perms'[q].refs = One(factory_perms' = q) + media_perms'[q] + Cardinality(Checking(q)')
      <4>1. perms[q].refs = One(factory_perms = q) + media_perms[q] + Cardinality(Checking(q))
        BY RefsAre DEF PInv
      <4>2. Checking(q)' = Checking(q)
        BY <1>1 DEF Checking
      <4> QED BY <1>1, <2>1, <2>8, <4>1, <4>2
    <3> QED BY <3>1, RefsNext
  <2> QED BY <1>1, <2>9, <2>10, <2>11 DEF PInv
<1> QED BY <1>2, <1>3

LEMMA PermStepIs == ASSUME PInv, PermStep PROVE PInv' /\ UNCHANGED checking
BY SetPermissions, AddRole DEF PermStep

LEMMA CheckingSame ==
    ASSUME CheckingInv, UNCHANGED checking,
           \A c \in Clients : req'[c].at = "allowed" <=> req[c].at = "allowed"
    PROVE  CheckingInv'
BY DEF CheckingInv

LEMMA CheckingEdit ==
    ASSUME CheckingInv, NEW c \in Clients, \A d \in Clients : d # c => req'[d] = req[d],
           req'[c].at # "allowed", NEW k, checking' = [checking EXCEPT ![c] = k],
           checking \in [Clients -> Perms \cup {None}], k = None
    PROVE  CheckingInv'
BY DEF CheckingInv

\* The steps that have nothing to do with the permissions.
LEMMA QuietPerm ==
    ASSUME IInv, NEW c \in Clients,
           \/ Begin(c) \/ EnsureAuthenticated(c) \/ Credential(c) \/ NoMoreCredentials(c)
           \/ Unauthorized(c) \/ Challenge(c) \/ check_client_settings(c) \/ Close(c) \/ RemoveNonce(c)
    PROVE  /\ UNCHANGED permVars /\ req' \in [Clients -> Req] /\ plan' \in Plan
           /\ \A d \in Clients : d # c => req'[d] = req[d]
           /\ req[c].at # "allowed" /\ req'[c].at # "allowed"
<1>0. ReqTypes /\ NonceTypes /\ TableTypes /\ RequestInv /\ req \in [Clients -> Req] /\ plan \in Plan
  BY DEF IInv, TypeInv, ReqTypes
<1>1. CASE Begin(c)
  BY <1>0, <1>1, BeginIs
<1>2. CASE EnsureAuthenticated(c)
  BY <1>0, <1>2, EnsureIs DEF Edits, Writes
<1>3. CASE Credential(c)
  <2>1. CASE Head(req[c].left).scheme = "digest"
    <3>1. /\ req[c].at = "credentials" /\ UNCHANGED <<permVars, plan>>
          /\ (\E t : Found(c, t)) \/ Tried(c)
      BY <1>0, <1>3, <2>1, DigestIs
    <3> QED BY <1>0, <3>1 DEF Found, Tried, Edits, Writes
  <2>2. CASE Head(req[c].left).scheme # "digest"
    <3>1. /\ req[c].at = "credentials" /\ UNCHANGED <<permVars, plan>>
          /\ (\E t : Found(c, t)) \/ Tried(c)
      BY <1>0, <1>3, <2>2, BasicIs
    <3> QED BY <1>0, <3>1 DEF Found, Tried, Edits, Writes
  <2> QED BY <2>1, <2>2
<1>4. CASE NoMoreCredentials(c)
  BY <1>0, <1>4, NoMoreIs DEF Moves, Edits, Writes
<1>5. CASE Unauthorized(c)
  BY <1>0, <1>5, UnauthorizedIs DEF Passes1, Stamped, Edits, Writes, Refused
<1>9. CASE Challenge(c)
  BY <1>0, <1>9, ChallengeIs DEF Passes1, Edits, Writes, Refused
<1>6. CASE check_client_settings(c)
  BY <1>0, <1>6, SettingsIs DEF Passes1, Edits, Writes
<1>7. CASE Close(c)
  BY <1>0, <1>7, CloseIs DEF Moves, Edits, Writes
<1>8. CASE RemoveNonce(c)
  BY <1>0, <1>8, RemoveNonceIs DEF Moves, Edits, Writes
<1> QED BY <1>1, <1>2, <1>3, <1>4, <1>5, <1>6, <1>7, <1>8, <1>9

LEMMA NextPerm == ASSUME IInv, Next PROVE PInv' /\ CheckingInv' /\ ReqTypes'
<1>0. /\ PInv /\ CheckingInv /\ ReqTypes /\ RequestInv /\ PermTypes /\ req \in [Clients -> Req] /\ plan \in Plan
      /\ checking \in [Clients -> Perms \cup {None}]
  BY DEF IInv, TypeInv, PermInv, PInv, ReqTypes, PermTypes
<1>1. CASE Tick
  <2>1. UNCHANGED <<permVars, req, plan>> /\ UNCHANGED checking
    BY <1>1 DEF Tick, permVars
  <2> QED BY <1>0, <2>1, PermSame, CheckingSame DEF ReqTypes
<1>2. CASE Application
  <2>1. /\ plan' \in Plan /\ Disturbed
        /\ UNCHANGED permVars \/ PermStep
    BY <1>0, <1>2, ApplicationIs
  <2>2. req' \in [Clients -> Req] /\ \A c \in Clients : req'[c].at = req[c].at
    BY <1>0, <2>1, DisturbedIs
  <2>3. PInv' /\ UNCHANGED checking
    BY <1>0, <2>1, PermSame, PermStepIs DEF permVars
  <2> QED BY <1>0, <2>1, <2>2, <2>3, CheckingSame DEF ReqTypes
<1>3. CASE MediaGone
  <2>1. MediaFreed /\ UNCHANGED <<req, plan>>
    BY <1>3 DEF MediaGone
  <2> QED BY <1>0, <2>1, MediaFreedRefs, CheckingSame DEF ReqTypes
<1>4. ASSUME NEW c \in Clients,
             \/ Begin(c) \/ EnsureAuthenticated(c) \/ Credential(c) \/ NoMoreCredentials(c)
             \/ Unauthorized(c) \/ Challenge(c) \/ check_client_settings(c) \/ Close(c) \/ RemoveNonce(c)
      PROVE  PInv' /\ CheckingInv' /\ ReqTypes'
  <2>1. /\ UNCHANGED permVars /\ req' \in [Clients -> Req] /\ plan' \in Plan
        /\ \A d \in Clients : d # c => req'[d] = req[d]
        /\ req[c].at # "allowed" /\ req'[c].at # "allowed"
    BY <1>4, QuietPerm
  <2>2. \A d \in Clients : req'[d].at = "allowed" <=> req[d].at = "allowed"
    BY <2>1
  <2>3. UNCHANGED checking
    BY <2>1 DEF permVars
  <2> QED BY <1>0, <2>1, <2>2, <2>3, PermSame, CheckingSame DEF ReqTypes
<1>5. ASSUME NEW c \in Clients, CheckFactory(c) PROVE PInv' /\ CheckingInv' /\ ReqTypes'
  <2>0. /\ req[c].at = "apply" /\ checking[c] = None
        /\ \/ Moves(c, "unauthorized") /\ UNCHANGED permVars
           \/ factory_perms = None /\ Moves(c, "unauthorized") /\ gst_rtsp_media_factory_get_permissions(c)
           \/ factory_perms \in Perms /\ Moves(c, "allowed") /\ gst_rtsp_media_factory_get_permissions(c)
        /\ plan' = plan
    BY <1>0, <1>5, CheckFactoryIs DEF CheckingInv
  <2>1. /\ req' \in [Clients -> Req] /\ \A d \in Clients : d # c => req'[d] = req[d]
        /\ req'[c].at \in {"unauthorized", "allowed"}
    BY <2>0 DEF Moves, Edits, Writes
  <2>2. CASE Moves(c, "unauthorized") /\ UNCHANGED permVars
    <3>1. \A d \in Clients : req'[d].at = "allowed" <=> req[d].at = "allowed"
      BY <2>0, <2>1, <2>2 DEF Moves
    <3> QED BY <1>0, <2>0, <2>1, <2>2, <3>1, PermSame, CheckingSame DEF ReqTypes, permVars
  <2>3. CASE gst_rtsp_media_factory_get_permissions(c) /\ factory_perms = None /\ Moves(c, "unauthorized")
    <3>1. PInv' /\ checking' = [checking EXCEPT ![c] = factory_perms]
      BY <1>0, <2>0, <2>3, GetPermissions
    <3>2. req'[c].at # "allowed"
      BY <2>3 DEF Moves
    <3> QED BY <1>0, <2>0, <2>1, <2>3, <3>1, <3>2, CheckingEdit DEF ReqTypes
  <2>4. CASE gst_rtsp_media_factory_get_permissions(c) /\ factory_perms \in Perms /\ Moves(c, "allowed")
    <3>1. PInv' /\ checking' = [checking EXCEPT ![c] = factory_perms]
      BY <1>0, <2>0, <2>4, GetPermissions
    <3>2. req'[c].at = "allowed"
      BY <2>4 DEF Moves
    <3>3. CheckingInv'
      BY <1>0, <2>1, <2>4, <3>1, <3>2 DEF CheckingInv
    <3> QED BY <1>0, <2>0, <2>1, <3>1, <3>3 DEF ReqTypes
  <2> QED BY <2>0, <2>2, <2>3, <2>4
<1>6. ASSUME NEW c \in Clients, Allowed(c) PROVE PInv' /\ CheckingInv' /\ ReqTypes'
  <2>1. /\ req[c].at = "allowed" /\ \E b : Checked(c, b)
        /\ req' \in [Clients -> Req] /\ \A d \in Clients : d # c => req'[d] = req[d]
        /\ req'[c].at # "allowed" /\ plan' = plan
    BY <1>0, <1>6, AllowedIs DEF Passes1, Moves, Edits, Writes
  <2>2. PInv' /\ checking' = [checking EXCEPT ![c] = None]
    BY <1>0, <2>1, GiveBack DEF CheckingInv
  <2>3. CheckingInv'
    BY <1>0, <2>1, <2>2, CheckingEdit
  <2> QED BY <1>0, <2>1, <2>2, <2>3 DEF ReqTypes
<1>7. ASSUME NEW c \in Clients, Respond(c) PROVE PInv' /\ CheckingInv' /\ ReqTypes'
  <2>1. /\ req[c].at = "check" /\ req'[c].at = "idle"
        /\ req' \in [Clients -> Req] /\ \A d \in Clients : d # c => req'[d] = req[d]
        /\ Configured \/ UNCHANGED permVars
        /\ plan' = plan
    BY <1>0, <1>7, RespondIs DEF Edits, Writes
  <2>2. PInv' /\ UNCHANGED checking
    BY <1>0, <2>1, ConfiguredRefs, PermSame DEF permVars
  <2>3. \A d \in Clients : req'[d].at = "allowed" <=> req[d].at = "allowed"
    BY <2>1
  <2> QED BY <1>0, <2>1, <2>2, <2>3, CheckingSame DEF ReqTypes
<1> QED BY <1>1, <1>2, <1>3, <1>4, <1>5, <1>6, <1>7 DEF Next, Serve

-----------------------------------------------------------------------------
\* The tables of users and the references of the tokens.

BasicOf(t) == {k \in Users \X Passes : basic[k] = t}
DigestOf(t) == {u \in Users : TokenOf(digest[u]) = t}
ParsedOf(t) == IF parse = None THEN {} ELSE {u \in Users : TokenOf(parse.new[u]) = t}

LEMMA CountStep ==
    ASSUME NEW D, IsFiniteSet(D), NEW S \in SUBSET D, NEW T \in SUBSET D, NEW k \in D,
           \A x \in D : x # k => (x \in T <=> x \in S)
    PROVE  /\ Cardinality(S) \in Nat /\ Cardinality(T) \in Nat
           /\ Cardinality(T) = Cardinality(S) + One(k \in T) - One(k \in S)
<1>1. Cardinality(S) \in Nat /\ Cardinality(T) \in Nat
  BY Counting
<1>2. CASE (k \in T) <=> (k \in S)
  <2>1. T = S
    BY <1>2
  <2> QED BY <1>1, <1>2, <2>1 DEF One
<1>3. CASE k \in T /\ k \notin S
  <2>1. T = S \cup {k} /\ k \in D \ S
    BY <1>3
  <2> QED BY <1>1, <1>3, <2>1, Counting DEF One
<1>4. CASE k \notin T /\ k \in S
  <2>1. T = S \ {k}
    BY <1>4
  <2>2. Cardinality(S \ {k}) = Cardinality(S) - 1
    BY <1>4, Counting
  <2> QED BY <1>1, <1>4, <2>1, <2>2 DEF One
<1> QED BY <1>2, <1>3, <1>4

LEMMA FiniteTables ==
    /\ IsFiniteSet(Users) /\ IsFiniteSet(Users \X Passes)
    /\ \A t : BasicOf(t) \in SUBSET (Users \X Passes) /\ DigestOf(t) \in SUBSET Users /\ ParsedOf(t) \in SUBSET Users
BY FS_Product DEF BasicOf, DigestOf, ParsedOf

LEMMA RefCounts ==
    \A t : /\ Cardinality(BasicOf(t)) \in Nat /\ Cardinality(DigestOf(t)) \in Nat
           /\ Cardinality(ParsedOf(t)) \in Nat /\ One(t \in owned) \in Nat
<1> SUFFICES ASSUME NEW t
             PROVE  /\ Cardinality(BasicOf(t)) \in Nat /\ Cardinality(DigestOf(t)) \in Nat
                    /\ Cardinality(ParsedOf(t)) \in Nat /\ One(t \in owned) \in Nat
  OBVIOUS
<1>1. Cardinality(BasicOf(t)) \in Nat
  BY FiniteTables, Counting
<1>2. Cardinality(DigestOf(t)) \in Nat
  BY FiniteTables, Counting
<1>3. Cardinality(ParsedOf(t)) \in Nat
  BY FiniteTables, Counting
<1> QED BY <1>1, <1>2, <1>3 DEF One

TokenCount(t) ==
    One(t \in owned) + One(default_token = t) + Cardinality(BasicOf(t)) + Cardinality(DigestOf(t)) + Cardinality(ParsedOf(t))

CountsInv == \A t \in Tokens : token_refs[t] = TokenCount(t)

LEMMA TokenRefsAre == TableTypes => (TokenRefs <=> CountsInv)
<1> SUFFICES ASSUME TableTypes PROVE TokenRefs <=> CountsInv
  OBVIOUS
<1>1. DOMAIN basic = Users \X Passes /\ Cardinality({}) = 0
  BY FS_EmptySet DEF TableTypes
<1>2. ASSUME NEW t \in Tokens
      PROVE  TokenCount(t) = (IF t \in owned THEN 1 ELSE 0) + (IF default_token = t THEN 1 ELSE 0)
                        + Cardinality({k \in DOMAIN basic : basic[k] = t})
                        + Cardinality({u \in Users : TokenOf(digest[u]) = t})
                        + (IF parse = None THEN 0 ELSE Cardinality({u \in Users : TokenOf(parse.new[u]) = t}))
  BY <1>1 DEF TokenCount, One, BasicOf, DigestOf, ParsedOf
<1> QED BY <1>2 DEF TokenRefs, CountsInv

LEMMA TokenFacts ==
    /\ None \notin Tokens /\ TokenOf(None) = None
    /\ \A e \in Entry : TokenOf(e) = e.token /\ e.token \in Tokens
    /\ \A e \in Entry \cup {None} : TokenOf(e) \in Tokens \cup {None}
BY DEF TokenOf, Entry

LEMMA ReplacedIs ==
    ASSUME NEW f \in [Tokens -> Int], NEW old \in Tokens \cup {None}, NEW new \in Tokens \cup {None}
    PROVE  /\ Replaced(f, old, new) \in [Tokens -> Int]
           /\ \A t \in Tokens : Replaced(f, old, new)[t] = f[t] + One(new = t) - One(old = t)
<1> DEFINE g == TokenRef(f, new)
<1>1. g \in [Tokens -> Int] /\ \A t \in Tokens : g[t] = f[t] + One(new = t)
  BY DEF TokenRef, One
<1> HIDE DEF g
<1>2. /\ TokenUnref(g, old) \in [Tokens -> Int]
      /\ \A t \in Tokens : TokenUnref(g, old)[t] = g[t] - One(old = t)
  BY <1>1 DEF TokenUnref, One
<1>3. \A t \in Tokens : f[t] \in Int /\ One(new = t) \in Int /\ One(old = t) \in Int
  BY DEF One
<1> QED BY <1>1, <1>2, <1>3 DEF Replaced, g

TInv == TableTypes /\ TokenRefs /\ HtdigestWhole /\ FileEntries

\* An invariant of the tables from the counts of every token.
LEMMA CountsNext ==
    ASSUME TableTypes', \A t \in Tokens : token_refs'[t] = TokenCount(t)'
    PROVE  TokenRefs'
<1>1. TableTypes' => (TokenRefs' <=> CountsInv')
  BY TokenRefsAre, PTL
<1> QED BY <1>1 DEF CountsInv

LEMMA TableSame ==
    ASSUME TInv, basic' = basic, digest' = digest, default_token' = default_token,
           owned' = owned, token_refs' = token_refs, parse' = parse
    PROVE  TInv'
<1>1. TableTypes'
  BY DEF TInv, TableTypes
<1>2. TokenRefs'
  BY DEF TInv, TokenRefs, TokenOf
<1>3. HtdigestWhole' /\ FileEntries'
  BY DEF TInv, HtdigestWhole, FileEntries
<1> QED BY <1>1, <1>2, <1>3 DEF TInv

LEMMA AddBasic ==
    ASSUME TInv, parse = None, NEW k \in Users \X Passes, NEW t \in Tokens \cup {None}, add_basic(k, t)
    PROVE  TInv'
<1>0. TableTypes /\ basic[k] \in Tokens \cup {None}
  BY DEF TInv, TableTypes
<1>1. /\ basic' = [basic EXCEPT ![k] = t] /\ token_refs' = Replaced(token_refs, basic[k], t)
      /\ digest' = digest /\ default_token' = default_token /\ parse' = parse /\ owned' = owned
  BY DEF add_basic
<1>2. /\ token_refs' \in [Tokens -> Int]
      /\ \A x \in Tokens : token_refs'[x] = token_refs[x] + One(t = x) - One(basic[k] = x)
  BY <1>0, <1>1, ReplacedIs DEF TableTypes
<1>3. TableTypes'
  BY <1>0, <1>1, <1>2 DEF TableTypes
<1>4. ASSUME NEW x \in Tokens PROVE token_refs'[x] = TokenCount(x)'
  <2>1. /\ Cardinality(BasicOf(x)) \in Nat /\ Cardinality(BasicOf(x)') \in Nat
        /\ Cardinality(BasicOf(x)') = Cardinality(BasicOf(x)) + One(k \in BasicOf(x)') - One(k \in BasicOf(x))
    <3> DEFINE S == BasicOf(x)
               T == {j \in Users \X Passes : basic'[j] = x}
    <3>1. T = BasicOf(x)'
      BY DEF BasicOf
    <3>2. \A j \in Users \X Passes : j # k => (j \in T <=> j \in S)
      BY <1>0, <1>1 DEF BasicOf, TableTypes
    <3>3. S \in SUBSET (Users \X Passes) /\ T \in SUBSET (Users \X Passes)
      BY FiniteTables
    <3> HIDE DEF S, T
    <3>4. /\ Cardinality(S) \in Nat /\ Cardinality(T) \in Nat
          /\ Cardinality(T) = Cardinality(S) + One(k \in T) - One(k \in S)
      BY <3>2, <3>3, FiniteTables, CountStep
    <3> QED BY <3>1, <3>4 DEF S
  <2>2. (k \in BasicOf(x)' <=> t = x) /\ (k \in BasicOf(x) <=> basic[k] = x)
    BY <1>0, <1>1 DEF BasicOf, TableTypes
  <2>3. DigestOf(x)' = DigestOf(x) /\ ParsedOf(x)' = ParsedOf(x)
    BY <1>1 DEF DigestOf, ParsedOf
  <2>4. token_refs[x] = TokenCount(x)
    BY <1>0, TokenRefsAre DEF TInv, CountsInv
  <2>5. One(k \in BasicOf(x)') = One(t = x) /\ One(k \in BasicOf(x)) = One(basic[k] = x)
    BY <2>2 DEF One
  <2>6. One(t = x) \in Nat /\ One(basic[k] = x) \in Nat /\ One(default_token = x) \in Nat
    BY DEF One
  <2> QED BY <1>1, <1>2, <2>1, <2>3, <2>4, <2>5, <2>6, RefCounts DEF TokenCount
<1>5. HtdigestWhole' /\ FileEntries'
  BY <1>1 DEF HtdigestWhole, FileEntries
<1>6. TokenRefs'
  BY <1>3, <1>4, CountsNext
<1> QED BY <1>3, <1>5, <1>6 DEF TInv

LEMMA AddDigest ==
    ASSUME TInv, parse = None, NEW u \in Users, NEW e \in Entry \cup {None}, add_digest(u, e)
    PROVE  TInv'
<1>0. /\ TableTypes /\ digest[u] \in Entry \cup {None}
      /\ TokenOf(digest[u]) \in Tokens \cup {None} /\ TokenOf(e) \in Tokens \cup {None}
  BY TokenFacts DEF TInv, TableTypes
<1>1. /\ digest' = [digest EXCEPT ![u] = e]
      /\ token_refs' = Replaced(token_refs, TokenOf(digest[u]), TokenOf(e))
      /\ basic' = basic /\ default_token' = default_token /\ parse' = parse /\ owned' = owned
  BY DEF add_digest
<1>2. /\ token_refs' \in [Tokens -> Int]
      /\ \A x \in Tokens : token_refs'[x] = token_refs[x] + One(TokenOf(e) = x) - One(TokenOf(digest[u]) = x)
  BY <1>0, <1>1, ReplacedIs DEF TableTypes
<1>3. TableTypes'
  BY <1>0, <1>1, <1>2 DEF TableTypes
<1>4. ASSUME NEW x \in Tokens PROVE token_refs'[x] = TokenCount(x)'
  <2>1. /\ Cardinality(DigestOf(x)) \in Nat /\ Cardinality(DigestOf(x)') \in Nat
        /\ Cardinality(DigestOf(x)') = Cardinality(DigestOf(x)) + One(u \in DigestOf(x)') - One(u \in DigestOf(x))
    <3> DEFINE S == DigestOf(x)
               T == {j \in Users : TokenOf(digest'[j]) = x}
    <3>1. T = DigestOf(x)'
      BY DEF DigestOf, TokenOf
    <3>2. \A j \in Users : j # u => (j \in T <=> j \in S)
      BY <1>0, <1>1 DEF DigestOf, TableTypes
    <3>3. S \in SUBSET Users /\ T \in SUBSET Users
      BY FiniteTables
    <3> HIDE DEF S, T
    <3>4. /\ Cardinality(S) \in Nat /\ Cardinality(T) \in Nat
          /\ Cardinality(T) = Cardinality(S) + One(u \in T) - One(u \in S)
      BY <3>2, <3>3, FiniteTables, CountStep
    <3> QED BY <3>1, <3>4 DEF S
  <2>2. (u \in DigestOf(x)' <=> TokenOf(e) = x) /\ (u \in DigestOf(x) <=> TokenOf(digest[u]) = x)
    <3>1. digest'[u] = e
      BY <1>0, <1>1 DEF TableTypes
    <3> QED BY <3>1 DEF DigestOf, TokenOf
  <2>3. BasicOf(x)' = BasicOf(x) /\ ParsedOf(x)' = ParsedOf(x)
    BY <1>1 DEF BasicOf, ParsedOf, TokenOf
  <2>4. token_refs[x] = TokenCount(x)
    BY <1>0, TokenRefsAre DEF TInv, CountsInv
  <2>5. One(u \in DigestOf(x)') = One(TokenOf(e) = x) /\ One(u \in DigestOf(x)) = One(TokenOf(digest[u]) = x)
    BY <2>2 DEF One
  <2>6. /\ One(TokenOf(e) = x) \in Nat /\ One(TokenOf(digest[u]) = x) \in Nat
        /\ One(default_token = x) \in Nat
    BY DEF One
  <2> QED BY <1>1, <1>2, <2>1, <2>3, <2>4, <2>5, <2>6, RefCounts DEF TokenCount
<1>5. HtdigestWhole' /\ FileEntries'
  BY <1>1 DEF HtdigestWhole, FileEntries
<1>6. TokenRefs'
  BY <1>3, <1>4, CountsNext
<1> QED BY <1>3, <1>5, <1>6 DEF TInv

LEMMA SetDefault ==
    ASSUME TInv, NEW t \in Tokens \cup {None}, set_default_token(t) PROVE TInv'
<1>0. TableTypes /\ default_token \in Tokens \cup {None}
  BY DEF TInv, TableTypes
<1>1. /\ default_token' = t /\ token_refs' = Replaced(token_refs, default_token, t)
      /\ digest' = digest /\ basic' = basic /\ parse' = parse /\ owned' = owned
  BY DEF set_default_token
<1>2. /\ token_refs' \in [Tokens -> Int]
      /\ \A x \in Tokens : token_refs'[x] = token_refs[x] + One(t = x) - One(default_token = x)
  BY <1>0, <1>1, ReplacedIs DEF TableTypes
<1>3. TableTypes'
  BY <1>0, <1>1, <1>2 DEF TableTypes
<1>4. ASSUME NEW x \in Tokens PROVE token_refs'[x] = TokenCount(x)'
  <2>1. BasicOf(x)' = BasicOf(x) /\ DigestOf(x)' = DigestOf(x) /\ ParsedOf(x)' = ParsedOf(x)
    BY <1>1 DEF BasicOf, DigestOf, ParsedOf, TokenOf
  <2>2. token_refs[x] = TokenCount(x)
    BY <1>0, TokenRefsAre DEF TInv, CountsInv
  <2>3. One(default_token = x) \in Nat /\ One(t = x) \in Nat /\ One(default_token' = x) = One(t = x)
    BY <1>1 DEF One
  <2> QED BY <1>1, <1>2, <2>1, <2>2, <2>3, RefCounts DEF TokenCount
<1>5. HtdigestWhole' /\ FileEntries'
  BY <1>1 DEF TInv, HtdigestWhole, FileEntries
<1>6. TokenRefs'
  BY <1>3, <1>4, CountsNext
<1> QED BY <1>3, <1>5, <1>6 DEF TInv

\* The application gives its own reference back.
LEMMA GiveToken == ASSUME TInv, NEW t \in owned, gst_rtsp_token_unref(t) PROVE TInv'
<1>0. TableTypes /\ t \in Tokens /\ t # None
  BY AuthAssumption DEF TInv, TableTypes
<1>1. /\ owned' = owned \ {t} /\ token_refs' = [token_refs EXCEPT ![t] = @ - 1]
      /\ digest' = digest /\ basic' = basic /\ default_token' = default_token /\ parse' = parse
  BY <1>0 DEF gst_rtsp_token_unref, TokenUnref
<1>2. /\ token_refs' \in [Tokens -> Int]
      /\ \A x \in Tokens : token_refs'[x] = token_refs[x] - One(t = x)
  BY <1>0, <1>1 DEF TableTypes, One
<1>3. TableTypes'
  BY <1>0, <1>1, <1>2 DEF TableTypes
<1>4. ASSUME NEW x \in Tokens PROVE token_refs'[x] = TokenCount(x)'
  <2>1. BasicOf(x)' = BasicOf(x) /\ DigestOf(x)' = DigestOf(x) /\ ParsedOf(x)' = ParsedOf(x)
    BY <1>1 DEF BasicOf, DigestOf, ParsedOf, TokenOf
  <2>2. token_refs[x] = TokenCount(x)
    BY <1>0, TokenRefsAre DEF TInv, CountsInv
  <2>3. One(default_token = x) \in Nat /\ One(t = x) \in Nat /\ One(x \in owned') = One(x \in owned) - One(t = x)
    BY <1>1 DEF One
  <2> QED BY <1>1, <1>2, <2>1, <2>2, <2>3, RefCounts DEF TokenCount
<1>5. HtdigestWhole' /\ FileEntries'
  BY <1>1 DEF TInv, HtdigestWhole, FileEntries
<1>6. TokenRefs'
  BY <1>3, <1>4, CountsNext
<1> QED BY <1>3, <1>5, <1>6 DEF TInv

LEMMA SetMethods == ASSUME TInv, NEW ms, set_supported_methods(ms) PROVE TInv'
BY TableSame DEF set_supported_methods

LEMMA BeginFile ==
    ASSUME TInv, parse = None, NEW lines \in Seq(FileLine), NEW t \in Tokens, ParseBegin(lines, t)
    PROVE  TInv'
<1>0. TableTypes
  BY DEF TInv
<1>1. /\ parse' = [left |-> lines, new |-> [u \in Users |-> None], token |-> t, before |-> digest]
      /\ UNCHANGED <<basic, digest, default_token, owned, token_refs>>
  BY DEF ParseBegin
<1>2. parse' \in Parsing
  BY <1>0, <1>1 DEF TableTypes, Parsing
<1>3. TableTypes'
  BY <1>0, <1>1, <1>2 DEF TableTypes
<1>4. ASSUME NEW x \in Tokens PROVE token_refs'[x] = TokenCount(x)'
  <2>1. BasicOf(x)' = BasicOf(x) /\ DigestOf(x)' = DigestOf(x)
    BY <1>1 DEF BasicOf, DigestOf, TokenOf
  <2>2. \A u \in Users : TokenOf(parse'.new[u]) # x
    BY <1>1, TokenFacts
  <2>3. ParsedOf(x) = {} /\ ParsedOf(x)' = {}
    BY <2>2 DEF ParsedOf, TokenOf
  <2>4. token_refs[x] = TokenCount(x)
    BY <1>0, TokenRefsAre DEF TInv, CountsInv
  <2> QED BY <1>1, <2>1, <2>3, <2>4 DEF TokenCount
<1>5. HtdigestWhole' /\ FileEntries'
  BY <1>1 DEF HtdigestWhole, FileEntries
<1>6. TokenRefs'
  BY <1>3, <1>4, CountsNext
<1> QED BY <1>3, <1>5, <1>6 DEF TInv

LEMMA ParsingFacts ==
    ASSUME TableTypes, parse # None
    PROVE  /\ parse \in Parsing /\ parse.left \in Seq(FileLine) /\ parse.token \in Tokens
           /\ parse.new \in [Users -> Entry \cup {None}]
           /\ \A u \in Users : TokenOf(parse.new[u]) \in Tokens \cup {None}
<1>1. parse \in Parsing /\ parse.new \in [Users -> Entry \cup {None}]
  BY DEF TableTypes, Parsing
<1> QED BY <1>1, TokenFacts DEF Parsing

LEMMA ReadLine == ASSUME TInv, ParseLine PROVE TInv'
<1> DEFINE line == Head(parse.left)
           u == line.user
           e == [pass |-> line.pass, token |-> parse.token]
<1>0. /\ TableTypes /\ parse # None /\ parse.left # <<>>
  BY DEF TInv, ParseLine
<1>1. /\ parse' = [parse EXCEPT !.left = Tail(@), !.new[u] = e]
      /\ token_refs' = Replaced(token_refs, TokenOf(parse.new[u]), parse.token)
      /\ basic' = basic /\ default_token' = default_token /\ digest' = digest /\ owned' = owned
  BY DEF ParseLine, LineCollected
<1>2. line \in FileLine /\ Tail(parse.left) \in Seq(FileLine)
  BY <1>0, ParsingFacts
<1>3. u \in Users /\ e \in Entry /\ TokenOf(e) = parse.token
  BY <1>0, <1>2, ParsingFacts, TokenFacts DEF FileLine, Entry
<1> HIDE DEF line, u, e
<1>4. [parse.new EXCEPT ![u] = e] \in [Users -> Entry \cup {None}]
  BY <1>0, <1>3, ParsingFacts
<1>5. parse' \in Parsing /\ parse'.new = [parse.new EXCEPT ![u] = e] /\ parse'.before = parse.before
  BY <1>0, <1>1, <1>2, <1>4, ParsingFacts DEF Parsing
<1>6. /\ token_refs' \in [Tokens -> Int]
      /\ \A x \in Tokens : token_refs'[x] = token_refs[x] + One(parse.token = x) - One(TokenOf(parse.new[u]) = x)
  <2>1. TokenOf(parse.new[u]) \in Tokens \cup {None} /\ parse.token \in Tokens \cup {None}
    BY <1>0, <1>3, ParsingFacts
  <2>2. token_refs \in [Tokens -> Int]
    BY <1>0 DEF TableTypes
  <2> QED BY <1>1, <2>1, <2>2, ReplacedIs
<1>7. TableTypes'
  BY <1>0, <1>1, <1>5, <1>6 DEF TableTypes
<1>8. parse' # None
  BY <1>5
<1>9. ASSUME NEW x \in Tokens PROVE token_refs'[x] = TokenCount(x)'
  <2>1. /\ Cardinality(ParsedOf(x)) \in Nat /\ Cardinality(ParsedOf(x)') \in Nat
        /\ Cardinality(ParsedOf(x)') = Cardinality(ParsedOf(x)) + One(u \in ParsedOf(x)') - One(u \in ParsedOf(x))
    <3> DEFINE S == ParsedOf(x)
               T == {j \in Users : TokenOf(parse'.new[j]) = x}
    <3>1. T = ParsedOf(x)'
      BY <1>8 DEF ParsedOf, TokenOf
    <3>2. \A j \in Users : j # u => (j \in T <=> j \in S)
      BY <1>0, <1>5, ParsingFacts DEF ParsedOf
    <3>3. S \in SUBSET Users /\ T \in SUBSET Users
      BY FiniteTables
    <3> HIDE DEF S, T
    <3>4. /\ Cardinality(S) \in Nat /\ Cardinality(T) \in Nat
          /\ Cardinality(T) = Cardinality(S) + One(u \in T) - One(u \in S)
      BY <1>3, <3>2, <3>3, FiniteTables, CountStep
    <3> QED BY <3>1, <3>4 DEF S
  <2>2. (u \in ParsedOf(x)' <=> parse.token = x) /\ (u \in ParsedOf(x) <=> TokenOf(parse.new[u]) = x)
    <3>1. parse'.new[u] = e
      BY <1>0, <1>3, <1>5, ParsingFacts
    <3>2. u \in ParsedOf(x)' <=> TokenOf(parse'.new[u]) = x
      BY <1>3, <1>8 DEF ParsedOf, TokenOf
    <3> QED BY <1>0, <1>3, <3>1, <3>2 DEF ParsedOf
  <2>3. BasicOf(x)' = BasicOf(x) /\ DigestOf(x)' = DigestOf(x)
    BY <1>1 DEF BasicOf, DigestOf, TokenOf
  <2>4. token_refs[x] = TokenCount(x)
    BY <1>0, TokenRefsAre DEF TInv, CountsInv
  <2>5. One(u \in ParsedOf(x)') = One(parse.token = x) /\ One(u \in ParsedOf(x)) = One(TokenOf(parse.new[u]) = x)
    BY <2>2 DEF One
  <2>6. /\ One(parse.token = x) \in Nat /\ One(TokenOf(parse.new[u]) = x) \in Nat
        /\ One(default_token = x) \in Nat
    BY DEF One
  <2> QED BY <1>1, <1>6, <2>1, <2>3, <2>4, <2>5, <2>6, RefCounts DEF TokenCount
<1>10. HtdigestWhole' /\ FileEntries'
  <2>1. HtdigestWhole'
    BY <1>0, <1>1, <1>5 DEF TInv, HtdigestWhole
  <2>2. parse'.token = parse.token /\ e.token = parse.token
    BY <1>0, <1>1, <1>3, ParsingFacts, TokenFacts DEF Parsing
  <2>3. FileEntries'
    BY <1>0, <1>3, <1>5, <2>2, ParsingFacts DEF TInv, FileEntries
  <2> QED BY <2>1, <2>3
<1>11. TokenRefs'
  BY <1>7, <1>9, CountsNext
<1> QED BY <1>7, <1>10, <1>11 DEF TInv

LEMMA FileFails == ASSUME TInv, ParseFails PROVE TInv'
<1>0. TableTypes /\ parse # None
  BY DEF TInv, ParseFails
<1>1. /\ parse' = None /\ token_refs' = [token_refs EXCEPT ![parse.token] = @ - Cardinality(Collected)]
      /\ basic' = basic /\ default_token' = default_token /\ digest' = digest /\ owned' = owned
  BY DEF ParseFails, FailFrees
<1>2. Collected \in SUBSET Users /\ Cardinality(Collected) \in Nat
  BY Counting DEF Collected
<1>3. /\ token_refs \in [Tokens -> Int] /\ token_refs' \in [Tokens -> Int]
      /\ \A x \in Tokens : token_refs'[x] = token_refs[x] - (IF x = parse.token THEN Cardinality(Collected) ELSE 0)
  <2>1. token_refs \in [Tokens -> Int]
    BY <1>0 DEF TableTypes
  <2>2. PICK n \in Nat : n = Cardinality(Collected)
    BY <1>2
  <2>3. token_refs' = [token_refs EXCEPT ![parse.token] = @ - n]
    BY <1>1, <2>2
  <2>4. /\ token_refs' \in [Tokens -> Int]
        /\ \A x \in Tokens : token_refs'[x] = token_refs[x] - (IF x = parse.token THEN n ELSE 0)
    <3>1. PICK t \in Tokens : t = parse.token
      BY <1>0, ParsingFacts
    <3>2. token_refs' = [token_refs EXCEPT ![t] = @ - n]
      BY <2>3, <3>1
    <3>3. \A x \in Tokens : token_refs'[x] = token_refs[x] - (IF x = t THEN n ELSE 0)
      BY <2>1, <3>2
    <3>4. token_refs' \in [Tokens -> Int]
      BY <2>1, <3>2
    <3> QED BY <3>1, <3>3, <3>4
  <2> QED BY <2>1, <2>2, <2>4
<1>4. TableTypes'
  BY <1>0, <1>1, <1>3 DEF TableTypes
<1>5. ASSUME NEW x \in Tokens PROVE token_refs'[x] = TokenCount(x)'
  <2>1. BasicOf(x)' = BasicOf(x) /\ DigestOf(x)' = DigestOf(x)
    BY <1>1 DEF BasicOf, DigestOf, TokenOf
  <2>2. ParsedOf(x)' = {} /\ Cardinality({}) = 0
    BY <1>1, FS_EmptySet DEF ParsedOf
  <2>3. ParsedOf(x) = IF x = parse.token THEN Collected ELSE {}
    <3>1. ASSUME NEW u \in Users PROVE TokenOf(parse.new[u]) = x <=> u \in Collected /\ x = parse.token
      <4>1. CASE parse.new[u] = None
        BY <4>1, TokenFacts DEF Collected
      <4>2. CASE parse.new[u] # None
        BY <1>0, <4>2 DEF Collected, TInv, FileEntries, TokenOf
      <4> QED BY <4>1, <4>2
    <3> QED BY <1>0, <3>1 DEF ParsedOf, Collected
  <2>4. token_refs[x] = TokenCount(x)
    BY <1>0, TokenRefsAre DEF TInv, CountsInv
  <2>5. One(default_token = x) \in Nat
    BY DEF One
  <2> QED BY <1>1, <1>2, <1>3, <2>1, <2>2, <2>3, <2>4, <2>5, RefCounts DEF TokenCount
<1>6. HtdigestWhole' /\ FileEntries'
  BY <1>1 DEF HtdigestWhole, FileEntries
<1>7. TokenRefs'
  BY <1>4, <1>5, CountsNext
<1> QED BY <1>4, <1>6, <1>7 DEF TInv

LEMMA FileDone == ASSUME TInv, ParseDone PROVE TInv'
<1>0. TableTypes /\ parse # None
  BY DEF TInv, ParseDone
<1>1. /\ parse' = None
      /\ digest' = [u \in Users |-> IF u \in Collected THEN parse.new[u] ELSE digest[u]]
      /\ token_refs' = [t \in Tokens |->
                          token_refs[t] - Cardinality({u \in Collected : TokenOf(digest[u]) = t})]
      /\ basic' = basic /\ default_token' = default_token /\ owned' = owned
  BY DEF ParseDone
<1>2. \A t \in Tokens : {u \in Collected : TokenOf(digest[u]) = t} \in SUBSET Users
  BY DEF Collected
<1>3. /\ token_refs \in [Tokens -> Int] /\ token_refs' \in [Tokens -> Int]
      /\ \A t \in Tokens : token_refs'[t] = token_refs[t] - Cardinality({u \in Collected : TokenOf(digest[u]) = t})
  <2>1. token_refs \in [Tokens -> Int]
    BY <1>0 DEF TableTypes
  <2>2. ASSUME NEW t \in Tokens
        PROVE  Cardinality({u \in Collected : TokenOf(digest[u]) = t}) \in Nat
    <3> DEFINE S == {u \in Collected : TokenOf(digest[u]) = t}
    <3>1. S \in SUBSET Users
      BY <1>2
    <3> HIDE DEF S
    <3>2. Cardinality(S) \in Nat
      BY <3>1, FiniteTables, Counting
    <3> QED BY <3>2 DEF S
  <2> QED BY <1>1, <2>1, <2>2
<1>4. digest' \in [Users -> Entry \cup {None}]
  BY <1>0, <1>1, ParsingFacts DEF TableTypes
<1>5. TableTypes'
  BY <1>0, <1>1, <1>3, <1>4 DEF TableTypes
<1>6. ASSUME NEW x \in Tokens PROVE token_refs'[x] = TokenCount(x)'
  <2> DEFINE S == DigestOf(x)
             R == {u \in Collected : TokenOf(digest[u]) = x}
             N == ParsedOf(x)
             T == (S \ R) \cup N
  <2>1. T = DigestOf(x)'
    <3>1. ASSUME NEW u \in Users PROVE TokenOf(digest'[u]) = x <=> u \in T
      <4>1. CASE u \in Collected
        <5>1. digest'[u] = parse.new[u]
          BY <1>1, <4>1
        <5> QED BY <1>0, <4>1, <5>1 DEF DigestOf, ParsedOf
      <4>2. CASE u \notin Collected
        <5>1. digest'[u] = digest[u]
          BY <1>1, <4>2
        <5>2. TokenOf(parse.new[u]) # x
          BY <4>2, TokenFacts DEF Collected
        <5> QED BY <1>0, <4>2, <5>1, <5>2 DEF DigestOf, ParsedOf
      <4> QED BY <4>1, <4>2
    <3>2. T \subseteq Users
      BY FiniteTables
    <3> HIDE DEF T
    <3> QED BY <3>1, <3>2 DEF DigestOf, TokenOf
  <2>2. S \in SUBSET Users /\ N \in SUBSET Users /\ R \subseteq S /\ S \ R \in SUBSET Users
    BY <1>2, FiniteTables DEF DigestOf, Collected
  <2>3. (S \ R) \cap N = {}
    <3>1. ASSUME NEW u \in S \ R PROVE u \notin N
      <4>1. u \notin Collected
        BY <3>1 DEF DigestOf
      <4> QED BY <1>0, <4>1, TokenFacts DEF ParsedOf, Collected
    <3> QED BY <3>1
  <2> HIDE DEF S, R, N, T
  <2>4. IsFiniteSet(S) /\ IsFiniteSet(N) /\ IsFiniteSet(S \ R) /\ S \cap R = R /\ IsFiniteSet(R)
    BY <2>2, FiniteTables, FS_Subset
  <2>5. Cardinality(S \ R) = Cardinality(S) - Cardinality(R)
    BY <2>4, FS_Difference
  <2>6. Cardinality((S \ R) \cup N) = Cardinality(S \ R) + Cardinality(N) - Cardinality((S \ R) \cap N)
    BY <2>4, FS_Union
  <2>7. Cardinality((S \ R) \cap N) = 0 /\ Cardinality({}) = 0
    BY <2>3, FS_EmptySet
  <2>8. Cardinality(S) \in Nat /\ Cardinality(N) \in Nat /\ Cardinality(R) \in Nat
    BY <2>4, FS_CardinalityType
  <2>9. Cardinality(DigestOf(x)') = Cardinality(DigestOf(x)) - Cardinality(R) + Cardinality(ParsedOf(x))
    <3>1. Cardinality(T) = Cardinality(S) - Cardinality(R) + Cardinality(N)
      BY <2>5, <2>6, <2>7, <2>8 DEF T
    <3>2. Cardinality(DigestOf(x)') = Cardinality(S) - Cardinality(R) + Cardinality(N)
      BY <2>1, <3>1
    <3> QED BY <3>2 DEF S, N
  <2>10. token_refs[x] = TokenCount(x) /\ token_refs'[x] = token_refs[x] - Cardinality(R)
    BY <1>0, <1>3, TokenRefsAre DEF TInv, CountsInv, R
  <2>11. BasicOf(x)' = BasicOf(x) /\ ParsedOf(x)' = {} /\ Cardinality({}) = 0
    BY <1>1, FS_EmptySet DEF BasicOf, ParsedOf
  <2>12. One(default_token = x) \in Nat /\ One(default_token' = x) = One(default_token = x)
    BY <1>1 DEF One
  <2>13. /\ Cardinality(BasicOf(x)) \in Nat /\ Cardinality(DigestOf(x)) \in Nat
         /\ Cardinality(ParsedOf(x)) \in Nat /\ One(x \in owned) \in Nat
    BY RefCounts
  <2> QED BY <1>1, <2>8, <2>9, <2>10, <2>11, <2>12, <2>13 DEF TokenCount
<1>7. HtdigestWhole' /\ FileEntries'
  BY <1>1 DEF HtdigestWhole, FileEntries
<1>8. TokenRefs'
  BY <1>5, <1>6, CountsNext
<1> QED BY <1>5, <1>7, <1>8 DEF TInv

\* The other steps leave the tables alone.
LEMMA QuietTables == ASSUME IInv, Next, ~Application PROVE UNCHANGED tableVars
BY DEF Next, Serve, Tick, MediaGone, Begin, EnsureAuthenticated, Credential, NoMoreCredentials,
       Unauthorized, Challenge, CheckFactory, Allowed, check_client_settings, Respond, Close, RemoveNonce,
       RequestStep

LEMMA NextTables == ASSUME IInv, Next PROVE TInv'
<1>0. TInv /\ ReqTypes
  BY DEF IInv, TypeInv, FileInv, TInv
<1>1. CASE ~Application
  BY <1>0, <1>1, QuietTables, TableSame DEF tableVars
<1>2. CASE Application
  <2>1. CASE parse = None /\ TableStep
    BY <1>0, <2>1, AddBasic, AddDigest, SetDefault, GiveToken, SetMethods, BeginFile DEF TableStep
  <2>2. CASE UNCHANGED tableVars
    BY <1>0, <2>2, TableSame DEF tableVars
  <2>3. CASE FileStep
    BY <1>0, <2>3, ReadLine, FileFails, FileDone DEF FileStep
  <2> QED BY <1>0, <1>2, <2>1, <2>2, <2>3, ApplicationIs
<1> QED BY <1>1, <1>2

-----------------------------------------------------------------------------
\* The nonces.

NInv == NonceTypes /\ NonceInv
Over == {"closing", "gone"}

LEMMA NInvIs ==
    ASSUME NInv, NEW i \in 1 .. sent
    PROVE  /\ nonces[i].stamp <= now
           /\ nonces[i].alive /\ nonces[i].client = None
                => last_nonce_check - nonces[i].stamp < NonceTimeout
           /\ nonces[i].alive /\ nonces[i].client # None
                => <<nonces[i].client, i>> \in weak /\ req[nonces[i].client].at # "gone"
           /\ \/ nonces[i].alive \/ i \in overtaken
              \/ now - nonces[i].stamp >= NonceTimeout
              \/ nonces[i].client # None /\ req[nonces[i].client].at \in Over
BY DEF NInv, NonceInv, StampInv, ClaimedByLive, ClaimInv, Alive, Over

\* The same facts for the next state.
LEMMA NInvNext ==
    ASSUME NonceTypes', RemoveDataLive',
           sent' > 0 => /\ last_nonce_check' # 0
                        /\ nonces'[sent'].stamp - last_nonce_check' < NonceTimeout,
           \A i \in 1 .. sent' :
             /\ nonces'[i].stamp <= now'
             /\ nonces'[i].alive /\ nonces'[i].client = None
                  => last_nonce_check' - nonces'[i].stamp < NonceTimeout
             /\ nonces'[i].alive /\ nonces'[i].client # None
                  => <<nonces'[i].client, i>> \in weak' /\ req'[nonces'[i].client].at # "gone"
             /\ \/ nonces'[i].alive \/ i \in overtaken'
                \/ now' - nonces'[i].stamp >= NonceTimeout
                \/ nonces'[i].client # None /\ req'[nonces'[i].client].at \in Over
    PROVE  NInv'
BY DEF NInv, NonceInv, StampInv, ClaimedByLive, ClaimInv, Alive, Over

\* Nobody comes back from its end.
Onward(c) ==
    /\ req[c].at \in Over => req'[c].at \in Over
    /\ req'[c].at = "gone" => req[c].at = "gone"

LEMMA QuietNonces ==
    ASSUME NInv, nonces' = nonces, sent' = sent, last_nonce_check' = last_nonce_check, weak' = weak,
           overtaken' = overtaken, now' \in {now, now + 1}, now' <= MaxTime, \A c \in Clients : Onward(c)
    PROVE  NInv'
<1>0. NonceTypes /\ NonceTimeout \in Nat
  BY DEF NInv
<1>1. NonceTypes'
  BY <1>0 DEF NonceTypes
<1>2. RemoveDataLive'
  BY DEF NInv, NonceInv, RemoveDataLive
<1>3. sent' > 0 => last_nonce_check' # 0 /\ nonces'[sent'].stamp - last_nonce_check' < NonceTimeout
  BY DEF NInv, NonceInv, StampInv
<1>4. ASSUME NEW i \in 1 .. sent'
      PROVE  /\ nonces'[i].stamp <= now'
             /\ nonces'[i].alive /\ nonces'[i].client = None
                  => last_nonce_check' - nonces'[i].stamp < NonceTimeout
             /\ nonces'[i].alive /\ nonces'[i].client # None
                  => <<nonces'[i].client, i>> \in weak' /\ req'[nonces'[i].client].at # "gone"
             /\ \/ nonces'[i].alive \/ i \in overtaken'
                \/ now' - nonces'[i].stamp >= NonceTimeout
                \/ nonces'[i].client # None /\ req'[nonces'[i].client].at \in Over
  <2>1. i \in 1 .. sent /\ nonces'[i] = nonces[i]
    OBVIOUS
  <2>2. /\ nonces[i].client \in Clients \cup {None} /\ nonces[i].stamp \in Nat /\ now \in Nat
    BY <1>0, <2>1, NonceFacts
  <2>3. nonces[i].stamp <= now => nonces[i].stamp <= now'
    BY <2>2
  <2>4. now - nonces[i].stamp >= NonceTimeout => now' - nonces[i].stamp >= NonceTimeout
    BY <1>0, <2>2
  <2>5. nonces[i].client # None => Onward(nonces[i].client)
    BY <2>2
  <2> QED BY <2>1, <2>3, <2>4, <2>5, NInvIs DEF Onward
<1> QED BY <1>1, <1>2, <1>3, <1>4, NInvNext

\* The request of one client moves.
LEMMA OnwardEdit ==
    ASSUME NEW c \in Clients, \A d \in Clients : d # c => req'[d] = req[d],
           req[c].at \in Over => req'[c].at \in Over, req'[c].at = "gone" => req[c].at = "gone"
    PROVE  \A d \in Clients : Onward(d)
BY DEF Onward

LEMMA ClaimNonces ==
    ASSUME NInv, NEW c \in Clients, NEW i \in 1 .. sent, nonces[i].alive, nonces[i].client = None,
           nonces' = [nonces EXCEPT ![i].client = c], weak' = weak \cup {<<c, i>>},
           sent' = sent, last_nonce_check' = last_nonce_check, overtaken' = overtaken, now' = now,
           \A d \in Clients : Onward(d), req'[c].at # "gone"
    PROVE  NInv'
<1>0. NonceTypes /\ NonceTimeout \in Nat
  BY DEF NInv
<1>1. /\ i \in Ids /\ nonces[i] \in Nonce /\ nonces \in [Ids -> Nonce \cup {None}]
      /\ \A j \in 1 .. sent : j \in Ids
  BY <1>0, NonceFacts DEF NonceTypes
<1>2. /\ nonces'[i].client = c /\ nonces'[i].to = nonces[i].to /\ nonces'[i].stamp = nonces[i].stamp
      /\ nonces'[i].alive /\ nonces'[i] \in Nonce
  BY <1>1 DEF Nonce
<1>3. \A j \in Ids : j # i => nonces'[j] = nonces[j]
  BY <1>1
<1>4. NonceTypes'
  <2>1. nonces' \in [Ids -> Nonce \cup {None}]
    BY <1>1, <1>2
  <2>2. \A j \in Ids : (nonces'[j] = None) <=> j > sent
    BY <1>0, <1>1, <1>2, <1>3 DEF NonceTypes
  <2>3. weak' \subseteq Clients \X (1 .. sent)
    BY <1>0 DEF NonceTypes
  <2> QED BY <1>0, <2>1, <2>2, <2>3 DEF NonceTypes
<1>5. RemoveDataLive'
  <2> SUFFICES ASSUME NEW w \in weak' PROVE nonces'[w[2]].alive /\ nonces'[w[2]].client = w[1]
    BY DEF RemoveDataLive
  <2>1. CASE w = <<c, i>>
    BY <1>2, <2>1
  <2>2. CASE w \in weak
    <3>1. nonces[w[2]].alive /\ nonces[w[2]].client = w[1] /\ w[2] \in Ids /\ w[1] # None
      BY <1>0, <1>1, <2>2 DEF NInv, NonceInv, RemoveDataLive, NonceTypes
    <3>2. w[2] # i
      BY <3>1
    <3> QED BY <1>3, <3>1, <3>2
  <2> QED BY <2>1, <2>2
<1>6. sent' > 0 => last_nonce_check' # 0 /\ nonces'[sent'].stamp - last_nonce_check' < NonceTimeout
  <2>1. sent > 0 => last_nonce_check # 0 /\ nonces[sent].stamp - last_nonce_check < NonceTimeout
    BY DEF NInv, NonceInv, StampInv
  <2>2. sent > 0 => sent \in 1 .. sent /\ nonces'[sent].stamp = nonces[sent].stamp
    BY <1>0, <1>1, <1>2, <1>3, NonceFacts
  <2> QED BY <2>1, <2>2
<1>7. ASSUME NEW j \in 1 .. sent'
      PROVE  /\ nonces'[j].stamp <= now'
             /\ nonces'[j].alive /\ nonces'[j].client = None
                  => last_nonce_check' - nonces'[j].stamp < NonceTimeout
             /\ nonces'[j].alive /\ nonces'[j].client # None
                  => <<nonces'[j].client, j>> \in weak' /\ req'[nonces'[j].client].at # "gone"
             /\ \/ nonces'[j].alive \/ j \in overtaken'
                \/ now' - nonces'[j].stamp >= NonceTimeout
                \/ nonces'[j].client # None /\ req'[nonces'[j].client].at \in Over
  <2>1. CASE j = i
    <3>1. nonces[i].stamp <= now
      BY NInvIs
    <3>3. c # None /\ <<c, i>> \in weak' /\ req'[c].at # "gone"
      OBVIOUS
    <3>4. nonces'[j].client = c /\ nonces'[j].to = nonces[i].to /\ nonces'[j].alive
      BY <1>2, <2>1
    <3>5. nonces'[j].stamp <= now'
      BY <1>2, <2>1, <3>1
    <3>7. <<nonces'[j].client, j>> \in weak' /\ req'[nonces'[j].client].at # "gone"
      BY <2>1, <3>3, <3>4
    <3> QED BY ONLY <3>3, <3>4, <3>5, <3>7
  <2>2. CASE j # i
    <3>1. j \in 1 .. sent /\ nonces'[j] = nonces[j]
      BY <1>1, <1>3, <2>2
    <3>2. nonces[j].client \in Clients \cup {None}
      BY <1>0, <3>1, NonceFacts
    <3>3. nonces[j].client # None => Onward(nonces[j].client)
      BY <3>2
    <3>4. /\ nonces[j].stamp <= now
          /\ nonces[j].alive /\ nonces[j].client = None
               => last_nonce_check - nonces[j].stamp < NonceTimeout
          /\ nonces[j].alive /\ nonces[j].client # None
               => <<nonces[j].client, j>> \in weak /\ req[nonces[j].client].at # "gone"
          /\ \/ nonces[j].alive \/ j \in overtaken
             \/ now - nonces[j].stamp >= NonceTimeout
             \/ nonces[j].client # None /\ req[nonces[j].client].at \in Over
      BY <3>1, NInvIs
    <3>5. weak \subseteq weak'
      OBVIOUS
    <3> QED BY <3>1, <3>3, <3>4, <3>5 DEF Onward
  <2> QED BY <2>1, <2>2
<1> QED BY <1>4, <1>5, <1>6, <1>7, NInvNext

LEMMA ChallengeNonces ==
    ASSUME NInv, ReqTypes, RequestInv, NEW c \in Clients, Challenge(c), \A d \in Clients : Onward(d)
    PROVE  NInv'
<1>0. NonceTypes /\ NonceTimeout \in Nat /\ NonceTimeout > 0 /\ MaxTime \in Nat
  BY AuthAssumption DEF NInv
<1> DEFINE s == req[c].stamp
           L == Looked(s)
           new == [to |-> c, client |-> None, stamp |-> s, alive |-> TRUE]
           old(i) == IF i \in Expired(s) THEN [nonces[i] EXCEPT !.alive = FALSE] ELSE nonces[i]
<1>1. /\ s \in 1 .. now /\ sent' = sent + 1 /\ sent + 1 \in Ids /\ weak' = weak /\ last_nonce_check' = L
      /\ overtaken' = overtaken \cup {i \in Expired(s) : nonces[i].stamp > s} /\ now' = now
      /\ nonces' \in [Ids -> Nonce \cup {None}]
      /\ \A i \in Ids : (nonces'[i] = None) <=> i > sent + 1
      /\ nonces'[sent + 1] = new
      /\ \A i \in 1 .. sent : nonces'[i] = old(i) /\ nonces'[i] \in Nonce
  BY <1>0, ChallengeIs
<1>2. /\ sent \in Nat /\ now \in Nat /\ now > 0 /\ last_nonce_check \in Nat /\ last_nonce_check <= now
      /\ now <= MaxTime /\ s \in Nat /\ s > 0 /\ s <= now /\ \A i \in 1 .. sent : i \in Ids
  <2>1. now <= MaxTime
    BY <1>0 DEF NonceTypes
  <2>2. now \in Nat
    BY <1>0, NonceFacts
  <2>3. s \in Nat /\ s > 0 /\ s <= now
    BY <1>1, <2>2
  <2> QED BY <1>0, <2>1, <2>3, NonceFacts
<1> HIDE DEF s
\* A clock from before the last check is as late as one long after it.
<1>3. /\ L \in Nat /\ L > 0 /\ L <= now /\ s - L < NonceTimeout
      /\ CheckDue(s) => L = s
      /\ ~CheckDue(s) /\ last_nonce_check # 0 => L = last_nonce_check /\ L <= s
  <2>0. last_nonce_check <= MaxTime
    BY <1>0, <1>2
  <2>1. /\ Elapsed(s, last_nonce_check) \in Nat
        /\ s >= last_nonce_check => Elapsed(s, last_nonce_check) = s - last_nonce_check
        /\ s < last_nonce_check => Elapsed(s, last_nonce_check) >= NonceTimeout
    BY <1>2, <2>0, ElapsedIs
  <2>2. CASE last_nonce_check = 0
    BY <1>0, <1>2, <2>2 DEF Looked, CheckDue
  <2>3. CASE last_nonce_check # 0 /\ CheckDue(s)
    BY <1>0, <1>2, <2>3 DEF Looked
  <2>4. CASE last_nonce_check # 0 /\ ~CheckDue(s)
    <3>1. L = last_nonce_check
      BY <2>4 DEF Looked
    <3>2. ~(Elapsed(s, last_nonce_check) >= NonceTimeout)
      BY <2>4 DEF CheckDue
    <3> QED BY <1>0, <1>2, <2>1, <2>4, <3>1, <3>2
  <2> QED BY <2>2, <2>3, <2>4
<1>4. ASSUME NEW i \in 1 .. sent
      PROVE  /\ nonces'[i].stamp = nonces[i].stamp /\ nonces'[i].client = nonces[i].client
             /\ nonces'[i].alive => nonces[i].alive
             /\ nonces'[i].alive /\ nonces[i].client = None /\ CheckDue(s)
                  => s - nonces[i].stamp < NonceTimeout
             /\ nonces[i].client # None => nonces'[i].alive = nonces[i].alive
             /\ ~nonces'[i].alive /\ nonces[i].alive
                  => i \in overtaken' \/ now - nonces[i].stamp >= NonceTimeout
  <2>1. nonces[i] \in Nonce /\ nonces'[i] = old(i) /\ nonces[i].stamp \in Nat /\ nonces[i].stamp <= now
    BY <1>0, <1>1, NonceFacts, NInvIs
  <2>2. /\ Elapsed(s, nonces[i].stamp) \in Nat
        /\ s >= nonces[i].stamp => Elapsed(s, nonces[i].stamp) = s - nonces[i].stamp
        /\ s < nonces[i].stamp => Elapsed(s, nonces[i].stamp) >= NonceTimeout
    <3>1. nonces[i].stamp <= MaxTime
      BY <1>0, <1>2, <2>1
    <3> QED BY <1>2, <2>1, <3>1, ElapsedIs
  <2>3. CASE i \in Expired(s)
    <3>1. nonces'[i] = [nonces[i] EXCEPT !.alive = FALSE]
      BY <2>1, <2>3
    <3>2. /\ nonces'[i].stamp = nonces[i].stamp /\ nonces'[i].client = nonces[i].client
          /\ ~nonces'[i].alive
      BY <2>1, <3>1 DEF Nonce
    <3>3. nonces[i].client = None /\ Elapsed(s, nonces[i].stamp) >= NonceTimeout
      BY <2>3 DEF Expired, Expires
    <3>4. CASE nonces[i].stamp > s
      BY <1>1, <2>3, <3>2, <3>3, <3>4
    <3>5. CASE ~(nonces[i].stamp > s)
      <4>1. s - nonces[i].stamp >= NonceTimeout
        BY <1>2, <2>1, <2>2, <3>3, <3>5
      <4>2. now - nonces[i].stamp >= NonceTimeout
        BY <1>0, <1>2, <2>1, <4>1
      <4> QED BY <3>2, <3>3, <4>2
    <3> QED BY <3>4, <3>5
  <2>4. CASE i \notin Expired(s)
    <3>1. nonces'[i] = nonces[i]
      BY <2>1, <2>4
    <3>2. nonces[i].alive /\ nonces[i].client = None /\ CheckDue(s)
            => ~(Elapsed(s, nonces[i].stamp) >= NonceTimeout)
      BY <2>4 DEF Expired, Expires
    <3>3. nonces[i].alive /\ nonces[i].client = None /\ CheckDue(s) => s - nonces[i].stamp < NonceTimeout
      BY <1>0, <1>2, <2>1, <2>2, <3>2
    <3> QED BY <3>1, <3>3
  <2> QED BY <2>3, <2>4
<1> HIDE DEF old
<1>5. new.client = None /\ new.stamp = s /\ new.alive
  OBVIOUS
<1> HIDE DEF new, L
<1>6. NonceTypes'
  <2>1. sent' \in 0 .. MaxNonces
    BY <1>1, <1>2 DEF Ids
  <2>2. weak' \subseteq Clients \X (1 .. sent')
    BY <1>0, <1>1, <1>2 DEF NonceTypes
  <2>3. last_nonce_check' \in 0 .. now' /\ now' \in 1 .. MaxTime
    BY <1>0, <1>1, <1>2, <1>3 DEF NonceTypes
  <2>4. overtaken' \subseteq 1 .. sent'
    <3>1. Expired(s) \subseteq 1 .. sent
      BY DEF Expired
    <3>2. overtaken' \subseteq overtaken \cup Expired(s) /\ overtaken \subseteq 1 .. sent
      BY <1>0, <1>1 DEF NonceTypes
    <3>3. 1 .. sent \subseteq 1 .. sent'
      BY <1>1, <1>2
    <3> QED BY <3>1, <3>2, <3>3
  <2> QED BY <1>1, <2>1, <2>2, <2>3, <2>4 DEF NonceTypes
<1>7. RemoveDataLive'
  <2> SUFFICES ASSUME NEW w \in weak' PROVE nonces'[w[2]].alive /\ nonces'[w[2]].client = w[1]
    BY DEF RemoveDataLive
  <2>1. /\ w \in weak /\ w[2] \in 1 .. sent /\ w[1] # None
        /\ nonces[w[2]].alive /\ nonces[w[2]].client = w[1]
    BY <1>0, <1>1 DEF NInv, NonceInv, RemoveDataLive, NonceTypes
  <2> QED BY <1>4, <2>1
<1>8. nonces'[sent'].stamp - last_nonce_check' < NonceTimeout /\ last_nonce_check' # 0
  BY <1>1, <1>2, <1>3, <1>5
<1>9. ASSUME NEW j \in 1 .. sent'
      PROVE  /\ nonces'[j].stamp <= now'
             /\ nonces'[j].alive /\ nonces'[j].client = None
                  => last_nonce_check' - nonces'[j].stamp < NonceTimeout
             /\ nonces'[j].alive /\ nonces'[j].client # None
                  => <<nonces'[j].client, j>> \in weak' /\ req'[nonces'[j].client].at # "gone"
             /\ \/ nonces'[j].alive \/ j \in overtaken'
                \/ now' - nonces'[j].stamp >= NonceTimeout
                \/ nonces'[j].client # None /\ req'[nonces'[j].client].at \in Over
  <2>1. CASE j = sent + 1
    <3>1. nonces'[j] = new
      BY <1>1, <2>1
    <3>2. L - s < NonceTimeout
      <4>1. CASE last_nonce_check = 0
        BY <1>0, <1>2, <4>1 DEF L, Looked
      <4>2. CASE last_nonce_check # 0
        BY <1>0, <1>2, <1>3, <4>2
      <4> QED BY <4>1, <4>2
    <3> QED BY <1>1, <1>2, <1>5, <3>1, <3>2
  <2>2. CASE j \in 1 .. sent
    <3>1. nonces[j].client \in Clients \cup {None} /\ nonces[j].stamp \in Nat
      BY <1>0, <2>2, NonceFacts
    <3>2. nonces[j].client # None => Onward(nonces[j].client)
      BY <3>1
    <3>3. nonces'[j].alive /\ nonces[j].client = None => last_nonce_check' - nonces[j].stamp < NonceTimeout
      <4>1. CASE CheckDue(s)
        BY <1>1, <1>3, <1>4, <2>2, <4>1
      <4>2. CASE ~CheckDue(s)
        <5>1. last_nonce_check # 0
          <6>1. sent > 0
            BY <1>2, <2>2
          <6> QED BY <6>1 DEF NInv, NonceInv, StampInv
        <5> QED BY <1>1, <1>3, <1>4, <2>2, <4>2, <5>1, NInvIs
      <4> QED BY <4>1, <4>2
    <3>4. overtaken \subseteq overtaken'
      BY <1>1
    <3> QED BY <1>1, <1>4, <2>2, <3>2, <3>3, <3>4, NInvIs DEF Onward
  <2> QED BY <1>1, <1>2, <2>1, <2>2
<1> QED BY <1>6, <1>7, <1>8, <1>9, NInvNext

LEMMA RemoveNonces ==
    ASSUME NInv, NEW c \in Clients, NEW i \in 1 .. sent, <<c, i>> \in weak, weak' = weak \ {<<c, i>>},
           nonces' = [nonces EXCEPT ![i].alive = FALSE], req' = req, req[c].at \in Over,
           overtaken' = overtaken, sent' = sent, last_nonce_check' = last_nonce_check, now' = now
    PROVE  NInv'
<1>0. NonceTypes /\ NonceTimeout \in Nat
  BY DEF NInv
<1>1. /\ i \in Ids /\ nonces[i] \in Nonce /\ nonces \in [Ids -> Nonce \cup {None}]
      /\ \A j \in 1 .. sent : j \in Ids
  BY <1>0, NonceFacts DEF NonceTypes
<1>2. /\ nonces'[i].client = nonces[i].client /\ nonces'[i].to = nonces[i].to
      /\ nonces'[i].stamp = nonces[i].stamp /\ ~nonces'[i].alive /\ nonces'[i] \in Nonce
  BY <1>1 DEF Nonce
<1>3. \A j \in Ids : j # i => nonces'[j] = nonces[j]
  BY <1>1
<1>4. nonces[i].client = c
  BY DEF NInv, NonceInv, RemoveDataLive
<1>5. NonceTypes'
  <2>1. nonces' \in [Ids -> Nonce \cup {None}]
    BY <1>1, <1>2
  <2>2. \A j \in Ids : (nonces'[j] = None) <=> j > sent
    BY <1>0, <1>1, <1>2, <1>3 DEF NonceTypes
  <2> QED BY <1>0, <2>1, <2>2 DEF NonceTypes
<1>6. RemoveDataLive'
  <2> SUFFICES ASSUME NEW w \in weak' PROVE nonces'[w[2]].alive /\ nonces'[w[2]].client = w[1]
    BY DEF RemoveDataLive
  <2>1. /\ nonces[w[2]].alive /\ nonces[w[2]].client = w[1] /\ w[2] \in Ids /\ w = <<w[1], w[2]>>
        /\ w # <<c, i>>
    BY <1>0, <1>1 DEF NInv, NonceInv, RemoveDataLive, NonceTypes
  <2>2. w[2] # i
    BY <1>4, <2>1
  <2> QED BY <1>3, <2>1, <2>2
<1>7. sent' > 0 => last_nonce_check' # 0 /\ nonces'[sent'].stamp - last_nonce_check' < NonceTimeout
  <2>1. sent > 0 => last_nonce_check # 0 /\ nonces[sent].stamp - last_nonce_check < NonceTimeout
    BY DEF NInv, NonceInv, StampInv
  <2>2. sent > 0 => sent \in 1 .. sent /\ nonces'[sent].stamp = nonces[sent].stamp
    BY <1>0, <1>1, <1>2, <1>3, NonceFacts
  <2> QED BY <2>1, <2>2
<1>8. ASSUME NEW j \in 1 .. sent'
      PROVE  /\ nonces'[j].stamp <= now'
             /\ nonces'[j].alive /\ nonces'[j].client = None
                  => last_nonce_check' - nonces'[j].stamp < NonceTimeout
             /\ nonces'[j].alive /\ nonces'[j].client # None
                  => <<nonces'[j].client, j>> \in weak' /\ req'[nonces'[j].client].at # "gone"
             /\ \/ nonces'[j].alive \/ j \in overtaken'
                \/ now' - nonces'[j].stamp >= NonceTimeout
                \/ nonces'[j].client # None /\ req'[nonces'[j].client].at \in Over
  <2>1. CASE j = i
    <3>1. nonces[i].stamp <= now
      BY NInvIs
    <3> QED BY <1>2, <1>4, <2>1, <3>1
  <2>2. CASE j # i
    <3>1. j \in 1 .. sent /\ nonces'[j] = nonces[j]
      BY <1>1, <1>3, <2>2
    <3>2. nonces[j].alive /\ nonces[j].client # None => <<nonces[j].client, j>> \in weak'
      BY <2>2, <3>1, NInvIs
    <3> QED BY <3>1, <3>2, NInvIs
  <2> QED BY <2>1, <2>2
<1> QED BY <1>5, <1>6, <1>7, <1>8, NInvNext

\* A client is gone when it claims nothing any more.
LEMMA GoneNonces ==
    ASSUME NInv, NEW c \in Clients, \A i \in 1 .. sent : <<c, i>> \notin weak,
           nonces' = nonces, sent' = sent, last_nonce_check' = last_nonce_check, weak' = weak,
           now' = now, overtaken' = overtaken, req'[c].at = "gone",
           \A d \in Clients : d # c => req'[d] = req[d]
    PROVE  NInv'
<1>0. NonceTypes
  BY DEF NInv
<1>1. NonceTypes'
  BY <1>0 DEF NonceTypes
<1>2. RemoveDataLive'
  BY DEF NInv, NonceInv, RemoveDataLive
<1>3. sent' > 0 => last_nonce_check' # 0 /\ nonces'[sent'].stamp - last_nonce_check' < NonceTimeout
  BY DEF NInv, NonceInv, StampInv
<1>4. ASSUME NEW i \in 1 .. sent'
      PROVE  /\ nonces'[i].stamp <= now'
             /\ nonces'[i].alive /\ nonces'[i].client = None
                  => last_nonce_check' - nonces'[i].stamp < NonceTimeout
             /\ nonces'[i].alive /\ nonces'[i].client # None
                  => <<nonces'[i].client, i>> \in weak' /\ req'[nonces'[i].client].at # "gone"
             /\ \/ nonces'[i].alive \/ i \in overtaken'
                \/ now' - nonces'[i].stamp >= NonceTimeout
                \/ nonces'[i].client # None /\ req'[nonces'[i].client].at \in Over
  <2>1. i \in 1 .. sent /\ nonces'[i] = nonces[i]
    OBVIOUS
  <2>2. nonces[i].client \in Clients \cup {None}
    BY <1>0, <2>1, NonceFacts
  <2>3. CASE nonces[i].client = c
    <3>1. ~nonces[i].alive /\ c # None
      BY <2>1, <2>3, NInvIs
    <3> QED BY <2>1, <2>3, <3>1, NInvIs DEF Over
  <2>4. CASE nonces[i].client # c
    BY <2>1, <2>2, <2>4, NInvIs
  <2> QED BY <2>3, <2>4
<1> QED BY <1>1, <1>2, <1>3, <1>4, NInvNext

LEMMA InvParts ==
    ASSUME IInv
    PROVE  /\ PermTypes /\ TableTypes /\ NonceTypes /\ ReqTypes
           /\ PInv /\ CheckingInv /\ TInv /\ NInv /\ RequestInv
BY DEF IInv, TypeInv, PermInv, FileInv, PInv, TInv, NInv

\* The steps of a request that neither send, claim nor remove a nonce.
LEMMA QuietSteps ==
    ASSUME IInv, NEW c \in Clients,
           \/ Begin(c) \/ EnsureAuthenticated(c) \/ NoMoreCredentials(c) \/ CheckFactory(c)
           \/ Allowed(c) \/ check_client_settings(c) \/ Respond(c) \/ Close(c)
    PROVE  /\ UNCHANGED <<nonceVars, now, quirks>> /\ \A d \in Clients : d # c => req'[d] = req[d]
           /\ req[c].at \notin Over /\ req'[c].at # "gone"
<1>0. PermTypes /\ TableTypes /\ NonceTypes /\ ReqTypes /\ RequestInv
  BY InvParts
<1>1. CASE Begin(c)
  BY <1>0, <1>1, BeginIs DEF Over
<1>2. CASE EnsureAuthenticated(c)
  BY <1>0, <1>2, EnsureIs DEF Edits, Writes, Over
<1>3. CASE NoMoreCredentials(c)
  BY <1>0, <1>3, NoMoreIs DEF Moves, Edits, Writes, Over
<1>4. CASE CheckFactory(c)
  BY <1>0, <1>4, CheckFactoryIs DEF Moves, Edits, Writes, Over
<1>5. CASE Allowed(c)
  BY <1>0, <1>5, AllowedIs DEF Moves, Passes1, Edits, Writes, Over
<1>6. CASE check_client_settings(c)
  BY <1>0, <1>6, SettingsIs DEF Passes1, Edits, Writes, Over
<1>7. CASE Respond(c)
  BY <1>0, <1>7, RespondIs DEF Edits, Writes, Over
<1>8. CASE Close(c)
  BY <1>0, <1>8, CloseIs DEF Moves, Edits, Writes, Over
<1> QED BY <1>1, <1>2, <1>3, <1>4, <1>5, <1>6, <1>7, <1>8

LEMMA NowFacts == ASSUME NonceTypes PROVE now \in Nat /\ now <= MaxTime
BY AuthAssumption DEF NonceTypes

LEMMA NextNonces == ASSUME IInv, Next PROVE NInv'
<1>0. NInv /\ ReqTypes /\ NonceTypes /\ TableTypes /\ RequestInv /\ now \in Nat /\ now <= MaxTime
  BY InvParts, NowFacts
<1>1. CASE Tick
  <2>1. now' = now + 1 /\ now' <= MaxTime /\ UNCHANGED <<nonceVars, req, quirks>>
    BY <1>0, <1>1, AuthAssumption DEF Tick
  <2>2. \A d \in Clients : Onward(d)
    BY <2>1 DEF Onward
  <2> QED BY <1>0, <2>1, <2>2, QuietNonces DEF nonceVars
<1>2. CASE Application
  <2>1. UNCHANGED <<nonceVars, now, quirks>> /\ Disturbed
    BY <1>0, <1>2, ApplicationIs
  <2>2. \A d \in Clients : Onward(d)
    BY <1>0, <2>1, DisturbedIs DEF Onward
  <2> QED BY <1>0, <2>1, <2>2, QuietNonces DEF nonceVars
<1>3. CASE MediaGone
  <2>1. UNCHANGED <<nonceVars, req, now, quirks>>
    BY <1>3 DEF MediaGone
  <2>2. \A d \in Clients : Onward(d)
    BY <2>1 DEF Onward
  <2> QED BY <1>0, <2>1, <2>2, QuietNonces DEF nonceVars
<1>4. ASSUME NEW c \in Clients,
             \/ Begin(c) \/ EnsureAuthenticated(c) \/ NoMoreCredentials(c) \/ CheckFactory(c)
             \/ Allowed(c) \/ check_client_settings(c) \/ Respond(c) \/ Close(c)
      PROVE  NInv'
  <2>1. /\ UNCHANGED <<nonceVars, now, quirks>> /\ \A d \in Clients : d # c => req'[d] = req[d]
        /\ req[c].at \notin Over /\ req'[c].at # "gone"
    BY <1>4, QuietSteps
  <2>2. \A d \in Clients : Onward(d)
    BY <2>1, OnwardEdit
  <2> QED BY <1>0, <2>1, <2>2, QuietNonces DEF nonceVars
<1>5. ASSUME NEW c \in Clients, Credential(c) PROVE NInv'
  <2>1. CASE Head(req[c].left).scheme = "digest"
    <3>1. /\ req[c].at = "credentials" /\ req[c].creds[1].nonce \in 1 .. sent
          /\ LET i == req[c].creds[1].nonce
                 claims == digest[req[c].creds[1].user] # None /\ nonces[i].alive /\ nonces[i].client = None
             IN  /\ nonces' = IF claims THEN [nonces EXCEPT ![i].client = c] ELSE nonces
                 /\ weak' = IF claims THEN weak \cup {<<c, i>>} ELSE weak
          /\ (\E t \in Tokens : Found(c, t)) \/ Tried(c)
          /\ UNCHANGED <<sent, last_nonce_check, overtaken, now>>
      BY <1>0, <1>5, <2>1, DigestIs DEF Entry
    <3>2. PICK i \in 1 .. sent : i = req[c].creds[1].nonce
      BY <3>1
    <3>3. \A d \in Clients : d # c => req'[d] = req[d]
      BY <3>1 DEF Found, Tried, Edits, Writes
    <3>4. req'[c].at # "gone" /\ req[c].at \notin Over
      BY <3>1 DEF Found, Tried, Over
    <3>5. \A d \in Clients : Onward(d)
      BY <3>3, <3>4, OnwardEdit
    <3>6. CASE digest[req[c].creds[1].user] # None /\ nonces[i].alive /\ nonces[i].client = None
      <4>1. /\ nonces' = [nonces EXCEPT ![i].client = c] /\ weak' = weak \cup {<<c, i>>}
            /\ sent' = sent /\ last_nonce_check' = last_nonce_check /\ now' = now
            /\ overtaken' = overtaken
        BY <3>1, <3>2, <3>6
      <4> QED BY <1>0, <3>4, <3>5, <3>6, <4>1, ClaimNonces
    <3>7. CASE ~(digest[req[c].creds[1].user] # None /\ nonces[i].alive /\ nonces[i].client = None)
      <4>1. /\ nonces' = nonces /\ weak' = weak /\ overtaken' = overtaken
            /\ sent' = sent /\ last_nonce_check' = last_nonce_check /\ now' = now
        BY <3>1, <3>2, <3>7
      <4> QED BY <1>0, <3>5, <4>1, QuietNonces
    <3> QED BY <3>6, <3>7
  <2>2. CASE Head(req[c].left).scheme # "digest"
    <3>1. /\ req[c].at = "credentials" /\ ((\E t \in Tokens : Found(c, t)) \/ Tried(c))
          /\ UNCHANGED <<nonceVars, quirks, now>>
      BY <1>0, <1>5, <2>2, BasicIs
    <3>2. \A d \in Clients : d # c => req'[d] = req[d]
      BY <3>1 DEF Found, Tried, Edits, Writes
    <3>3. req'[c].at # "gone" /\ req[c].at \notin Over
      <4>1. req'[c].at \in {"check", "credentials"}
        BY <3>1 DEF Found, Tried
      <4> QED BY <3>1, <4>1 DEF Over
    <3>4. \A d \in Clients : Onward(d)
      BY <3>2, <3>3, OnwardEdit
    <3> QED BY <1>0, <3>1, <3>4, QuietNonces DEF nonceVars
  <2> QED BY <2>1, <2>2
<1>6. ASSUME NEW c \in Clients, Unauthorized(c) PROVE NInv'
  <2>1. /\ req[c].at = "unauthorized" /\ UNCHANGED <<nonceVars, now>>
        /\ Stamped(c) \/ Passes1(c, Refused(c), 1)
    BY <1>0, <1>6, UnauthorizedIs
  <2>2. req'[c].at \in {"challenge", "check", "idle"} /\ \A d \in Clients : d # c => req'[d] = req[d]
    BY <2>1 DEF Stamped, Passes1, Edits, Writes, Refused
  <2>3. \A d \in Clients : Onward(d)
    BY <2>1, <2>2, OnwardEdit DEF Over
  <2> QED BY <1>0, <2>1, <2>3, QuietNonces DEF nonceVars
<1>8. ASSUME NEW c \in Clients, Challenge(c) PROVE NInv'
  <2>1. req[c].at = "challenge" /\ Passes1(c, Refused(c), 1)
    BY <1>0, <1>8, ChallengeIs
  <2>2. req'[c].at \in {"check", "idle"} /\ \A d \in Clients : d # c => req'[d] = req[d]
    BY <2>1 DEF Passes1, Edits, Writes, Refused
  <2>3. \A d \in Clients : Onward(d)
    BY <2>1, <2>2, OnwardEdit DEF Over
  <2> QED BY <1>0, <1>8, <2>3, ChallengeNonces
<1>7. ASSUME NEW c \in Clients, RemoveNonce(c) PROVE NInv'
  <2>1. req[c].at = "closing" /\ UNCHANGED <<sent, last_nonce_check, overtaken, now>>
    BY <1>0, <1>7, RemoveNonceIs
  <2>2. CASE /\ UNCHANGED req
             /\ \E i \in 1 .. sent : /\ <<c, i>> \in weak /\ weak' = weak \ {<<c, i>>}
                                     /\ nonces' = [nonces EXCEPT ![i].alive = FALSE]
    BY <1>0, <2>1, <2>2, RemoveNonces DEF Over
  <2>3. CASE /\ Moves(c, "gone") /\ UNCHANGED <<nonces, weak>>
             /\ \A i \in 1 .. sent : <<c, i>> \notin weak
    <3>1. req'[c].at = "gone" /\ \A d \in Clients : d # c => req'[d] = req[d]
      BY <2>3 DEF Moves, Edits, Writes
    <3> QED BY <1>0, <2>1, <2>3, <3>1, GoneNonces
  <2> QED BY <1>0, <1>7, <2>2, <2>3, RemoveNonceIs
<1> QED BY <1>1, <1>2, <1>3, <1>4, <1>5, <1>6, <1>7, <1>8 DEF Next, Serve

-----------------------------------------------------------------------------
\* What is left of a request.

\* A step of a request, whichever it is.
Step(c) ==
    \/ Begin(c) \/ EnsureAuthenticated(c) \/ Credential(c) \/ NoMoreCredentials(c) \/ CheckFactory(c)
    \/ Allowed(c) \/ check_client_settings(c) \/ Unauthorized(c) \/ Challenge(c) \/ Respond(c)
    \/ Close(c) \/ RemoveNonce(c)

LEMMA NextIs ==
    ASSUME Next
    PROVE  Application \/ Tick \/ MediaGone \/ \E c \in Clients : Step(c)
BY DEF Next, Serve, Step

\* What stays of a nonce that was sent.
SameNonce(i) ==
    /\ nonces'[i].to = nonces[i].to /\ nonces'[i].stamp = nonces[i].stamp
    /\ nonces[i].client # None => nonces'[i].client = nonces[i].client

\* A credential that is tried is the right one, or there is none left.
LEMMA CredentialIs ==
    ASSUME IInv, NEW c \in Clients, Credential(c)
    PROVE  /\ req[c].at = "credentials" /\ req[c].creds # <<>>
           /\ (\E t \in Tokens : Found(c, t)) \/ Tried(c)
           /\ quirks' = quirks /\ sent' = sent /\ overtaken' = overtaken /\ now' = now
           /\ UNCHANGED <<permVars, tableVars>>
           /\ \A i \in 1 .. sent : SameNonce(i)
<1>0. NonceTypes /\ ReqTypes /\ TableTypes /\ RequestInv
  BY InvParts
<1>1. CASE Head(req[c].left).scheme = "digest"
  <2>1. /\ req[c].at = "credentials" /\ req[c].creds # <<>>
        /\ (\E t \in Tokens : Found(c, t)) \/ Tried(c)
        /\ quirks' = quirks /\ sent' = sent /\ overtaken' = overtaken /\ now' = now
        /\ UNCHANGED <<permVars, tableVars>>
        /\ \/ nonces' = nonces
           \/ /\ nonces' = [nonces EXCEPT ![req[c].creds[1].nonce].client = c]
              /\ nonces[req[c].creds[1].nonce].client = None
        /\ req[c].creds[1].nonce \in 1 .. sent
    BY <1>0, <1>1, DigestIs DEF Entry
  <2>2. PICK k \in 1 .. sent : k = req[c].creds[1].nonce
    BY <2>1
  <2>3. ASSUME NEW i \in 1 .. sent PROVE SameNonce(i)
    <3>1. i \in Ids /\ nonces[i] \in Nonce /\ k \in Ids /\ nonces[k] \in Nonce
          /\ nonces \in [Ids -> Nonce \cup {None}]
      BY <1>0, NonceFacts DEF NonceTypes
    <3>2. CASE nonces' = nonces
      BY <3>2 DEF SameNonce
    <3>3. CASE nonces' = [nonces EXCEPT ![k].client = c] /\ nonces[k].client = None
      <4>1. nonces'[i] = IF i = k THEN [nonces[k] EXCEPT !.client = c] ELSE nonces[i]
        BY <3>1, <3>3
      <4> QED BY <3>1, <3>3, <4>1 DEF Nonce, SameNonce
    <3> QED BY <2>1, <2>2, <3>2, <3>3
  <2> QED BY <2>1, <2>3
<1>2. CASE Head(req[c].left).scheme # "digest"
  BY <1>0, <1>2, BasicIs DEF nonceVars, SameNonce
<1> QED BY <1>1, <1>2

\* Nonces that were sent stay what they are, and time goes on.
LEMMA SentStays ==
    ASSUME IInv, Next
    PROVE  /\ sent \in Nat /\ sent' \in Nat /\ sent <= sent' /\ now \in Nat /\ now' \in Nat /\ now <= now'
           /\ quirks \subseteq quirks' /\ overtaken \subseteq overtaken'
           /\ \A i \in 1 .. sent : SameNonce(i)
<1>0. NonceTypes /\ ReqTypes /\ RequestInv /\ sent \in Nat /\ now \in Nat
  BY InvParts, NonceFacts
<1>1. CASE Tick \/ Application \/ MediaGone
  <2>1. UNCHANGED <<nonceVars, quirks>> /\ now' \in {now, now + 1}
    BY <1>0, <1>1, ApplicationIs DEF Tick, MediaGone
  <2> QED BY <1>0, <2>1 DEF nonceVars, SameNonce
<1>2. ASSUME NEW c \in Clients, Step(c)
      PROVE  /\ sent' \in {sent, sent + 1} /\ now' = now /\ quirks \subseteq quirks'
             /\ overtaken \subseteq overtaken' /\ \A i \in 1 .. sent : SameNonce(i)
  <2>1. CASE Credential(c)
    BY <2>1, CredentialIs
  <2>2. CASE Unauthorized(c)
    BY <1>0, <2>2, UnauthorizedIs DEF nonceVars, SameNonce
  <2>3. CASE Challenge(c)
    <3>1. /\ now' = now /\ quirks \subseteq quirks' /\ overtaken \subseteq overtaken' /\ sent' = sent + 1
          /\ \A i \in 1 .. sent :
               nonces'[i] = IF i \in Expired(req[c].stamp)
                            THEN [nonces[i] EXCEPT !.alive = FALSE] ELSE nonces[i]
      BY <1>0, <2>3, ChallengeIs
    <3>2. ASSUME NEW i \in 1 .. sent PROVE SameNonce(i)
      <4>1. nonces[i] \in Nonce
        BY <1>0, NonceFacts
      <4> QED BY <3>1, <4>1 DEF Nonce, SameNonce
    <3> QED BY <3>1, <3>2
  <2>4. CASE RemoveNonce(c)
    <3>1. sent' = sent /\ now' = now /\ quirks' = quirks /\ overtaken' = overtaken
      BY <1>0, <2>4, RemoveNonceIs
    <3>2. nonces' = nonces \/ \E k \in 1 .. sent : nonces' = [nonces EXCEPT ![k].alive = FALSE]
      BY <1>0, <2>4, RemoveNonceIs
    <3>3. ASSUME NEW i \in 1 .. sent PROVE SameNonce(i)
      <4>1. i \in Ids /\ nonces[i] \in Nonce /\ nonces \in [Ids -> Nonce \cup {None}]
        BY <1>0, NonceFacts DEF NonceTypes
      <4>2. ASSUME NEW k \in 1 .. sent, nonces' = [nonces EXCEPT ![k].alive = FALSE] PROVE SameNonce(i)
        <5>1. nonces'[i] = IF i = k THEN [nonces[k] EXCEPT !.alive = FALSE] ELSE nonces[i]
          BY <4>1, <4>2
        <5> QED BY <4>1, <5>1 DEF Nonce, SameNonce
      <4>3. CASE nonces' = nonces
        BY <4>3 DEF SameNonce
      <4> QED BY <3>2, <4>2, <4>3
    <3> QED BY <3>1, <3>3
  <2>5. CASE ~(Credential(c) \/ Unauthorized(c) \/ Challenge(c) \/ RemoveNonce(c))
    <3>1. UNCHANGED <<nonceVars, now, quirks>>
      BY <1>0, <1>2, <2>5, QuietSteps DEF Step
    <3> QED BY <3>1 DEF nonceVars, SameNonce
  <2> QED BY <2>1, <2>2, <2>3, <2>4, <2>5
<1> QED BY <1>0, <1>1, <1>2, NextIs

LEMMA RequestFacts ==
    ASSUME IInv, NEW c \in Clients
    PROVE  /\ RequestOk(c) /\ req[c] \in Req /\ req[c].checks \in Suffixes /\ req[c].creds \in Creds
           /\ req[c].token \in Tokens \cup {None} /\ req[c].answers \in Nat /\ None \notin Tokens
           /\ req[c].creds # <<>> => req[c].creds[1] \in Cred
           /\ req[c].creds # <<>> /\ req[c].creds[1].scheme = "digest" => req[c].creds[1].nonce \in 1 .. sent
<1>1. RequestOk(c) /\ req[c] \in Req
  BY InvParts DEF RequestInv, ReqTypes
<1>2. /\ req[c].checks \in Suffixes /\ req[c].creds \in Creds /\ req[c].token \in Tokens \cup {None}
      /\ req[c].answers \in Nat
  BY <1>1, ReqFields
<1>3. req[c].creds # <<>> => req[c].creds[1] \in Cred
  BY <1>2, CredFacts
<1>4. req[c].creds # <<>> /\ req[c].creds[1].scheme = "digest" => req[c].creds[1].nonce \in Ids
  BY <1>3 DEF Cred
<1>5. sent \in Nat
  BY InvParts, NonceFacts
<1>6. req[c].creds # <<>> /\ req[c].creds[1].scheme = "digest" => req[c].creds[1].nonce \in 1 .. sent
  BY <1>1, <1>4, <1>5 DEF RequestOk, Ids
<1> QED BY <1>1, <1>2, <1>3, <1>6, AuthAssumption

\* A step of a request leaves the others alone.
LEMMA StepEdits ==
    ASSUME IInv, NEW c \in Clients, Step(c)
    PROVE  /\ \A d \in Clients : d # c => req'[d] = req[d]
           /\ UNCHANGED <<tableVars, now>>
<1>0. ReqTypes /\ NonceTypes /\ PermTypes /\ TableTypes /\ RequestInv
  BY InvParts
<1>1. UNCHANGED <<tableVars, now>>
  BY DEF Step, Begin, EnsureAuthenticated, Credential, NoMoreCredentials,
       Unauthorized, Challenge, CheckFactory, Allowed, check_client_settings, Respond, Close, RemoveNonce,
       RequestStep
<1>2. CASE Credential(c)
  BY <1>1, <1>2, CredentialIs DEF Found, Tried, Edits, Writes
<1>3. CASE Unauthorized(c)
  BY <1>0, <1>1, <1>3, UnauthorizedIs DEF Stamped, Passes1, Edits, Writes
<1>4. CASE RemoveNonce(c)
  BY <1>0, <1>1, <1>4, RemoveNonceIs DEF Moves, Edits, Writes
<1>6. CASE Challenge(c)
  BY <1>0, <1>1, <1>6, ChallengeIs DEF Passes1, Edits, Writes
<1>5. CASE ~(Credential(c) \/ Unauthorized(c) \/ Challenge(c) \/ RemoveNonce(c))
  BY <1>0, <1>1, <1>5, QuietSteps DEF Step
<1> QED BY <1>2, <1>3, <1>4, <1>5, <1>6

LEMMA FirstCheck ==
    ASSUME IInv, NEW c \in Clients, req[c].checks # <<>>
    PROVE  /\ req[c].method = "describe" =>
                \/ /\ req[c].checks = <<"access", "construct">> /\ Head(req[c].checks) = "access"
                   /\ Tail(req[c].checks) = <<"construct">>
                \/ /\ req[c].checks = <<"construct">> /\ Head(req[c].checks) = "construct"
                   /\ Tail(req[c].checks) = <<>>
           /\ Head(req[c].checks) = "settings" => Tail(req[c].checks) = <<>>
BY RequestFacts, SuffixFacts DEF RequestOk

LEMMA RequestStep1 == ASSUME IInv, Next, NEW c \in Clients, Step(c) PROVE RequestOk(c)'
<1>0. /\ ReqTypes /\ NonceTypes /\ PermTypes /\ TableTypes /\ RequestInv
      /\ sent \in Nat /\ sent' \in Nat /\ sent <= sent' /\ now \in Nat
  BY InvParts, SentStays
<1>1. /\ RequestOk(c) /\ req[c].token \in Tokens \cup {None} /\ None \notin Tokens
      /\ req[c].creds # <<>> /\ req[c].creds[1].scheme = "digest" => req[c].creds[1].nonce \in 1 .. sent
  BY RequestFacts
<1>2. req[c].creds # <<>> /\ req[c].creds[1].scheme = "digest" => req[c].creds[1].nonce <= sent'
  BY <1>0, <1>1
<1>t. now' = now /\ req[c].stamp \in Nat /\ now \in Nat /\ now > 0
  <2>1. now' = now
    BY StepEdits
  <2>2. req[c] \in Req
    BY RequestFacts
  <2>3. req[c].stamp \in Nat
    BY <2>2, ReqFields
  <2> QED BY <1>0, <2>1, <2>3, NonceFacts
<1>3. CASE Begin(c)
  <2>1. /\ req[c].at = "idle" /\ req'[c].at = "check" /\ req'[c].token = None
        /\ ~req'[c].settings /\ req'[c].left = <<>> /\ req'[c].stamp = 0
    BY <1>0, <1>3, BeginIs
  <2>2. req'[c].creds # <<>> /\ req'[c].creds[1].scheme = "digest" => req'[c].creds[1].nonce \in 1 .. sent
    BY <1>0, <1>3, BeginIs
  <2>3. req'[c].checks # <<>>
        /\ (req'[c].method = "describe" => req'[c].checks = <<"access", "construct">>)
    BY <1>0, <1>3, BeginIs
  <2>4. req'[c].creds # <<>> /\ req'[c].creds[1].scheme = "digest" => req'[c].creds[1].nonce <= sent'
    BY <1>0, <2>2
  <2>5. req'[c].stamp <= now'
    BY <1>t, <2>1
  <2>6. req'[c].method = "describe" => req'[c].checks \in {<<"access", "construct">>, <<"construct">>, <<>>}
    BY <2>3
  <2>7. req'[c].left \in {<<>>, req'[c].creds}
    BY <2>1
  <2> HIDE DEF Next
  <2> QED BY <2>1, <2>3, <2>4, <2>5, <2>6, <2>7, ZenonT(60) DEF RequestOk, Busy
<1>4. CASE EnsureAuthenticated(c)
  BY <1>0, <1>1, <1>2, <1>t, <1>4, EnsureIs DEF RequestOk, Busy, Edits, Writes
<1>5. CASE Credential(c)
  <2>1. req[c].at = "credentials"
    BY <1>5, CredentialIs
  <2>2. CASE Tried(c)
    BY <1>1, <1>2, <1>t, <2>1, <2>2 DEF RequestOk, Busy, Edits, Writes, Tried
  <2>3. ASSUME NEW t \in Tokens, Found(c, t) PROVE RequestOk(c)'
    <3>1. /\ req'[c].at = "check" /\ req'[c].token = t
          /\ req'[c].checks = req[c].checks /\ req'[c].method = req[c].method
          /\ req'[c].creds = req[c].creds /\ req'[c].left = req[c].left
          /\ req'[c].stamp = req[c].stamp /\ req'[c].settings = req[c].settings
      BY <2>3 DEF Found, Edits, Writes
    <3> QED BY <1>1, <1>2, <1>t, <2>1, <3>1, SMTT(60) DEF RequestOk, Busy
  <2> QED BY <1>5, <2>2, <2>3, CredentialIs
<1>6. CASE NoMoreCredentials(c)
  BY <1>0, <1>1, <1>2, <1>t, <1>6, NoMoreIs DEF RequestOk, Busy, Edits, Writes, Moves
<1>7. CASE CheckFactory(c)
  BY <1>0, <1>1, <1>2, <1>t, <1>7, CheckFactoryIs DEF RequestOk, Busy, Edits, Writes, Moves
<1>8. CASE Allowed(c)
  <2>1. /\ req[c].at = "allowed" /\ req[c].checks # <<>>
        /\ \/ Passes1(c, "check", 0) /\ req'[c].settings = req[c].settings
           \/ /\ Edits(c) /\ req'[c].at = "idle"
              /\ req'[c].left = req[c].left /\ req'[c].checks = req[c].checks
           \/ Moves(c, "unauthorized")
    BY <1>0, <1>8, AllowedIs
  <2>2. CASE Passes1(c, "check", 0) /\ req'[c].settings = req[c].settings
    BY <1>1, <1>2, <1>t, <2>1, <2>2, FirstCheck DEF RequestOk, Busy, Edits, Writes, Passes1
  <2>3. CASE /\ Edits(c) /\ req'[c].at = "idle"
             /\ req'[c].left = req[c].left /\ req'[c].checks = req[c].checks
    BY <1>1, <1>2, <1>t, <2>1, <2>3 DEF RequestOk, Busy, Edits, Writes
  <2>4. CASE Moves(c, "unauthorized")
    BY <1>1, <1>2, <1>t, <2>1, <2>4 DEF RequestOk, Busy, Edits, Writes, Moves
  <2> QED BY <2>1, <2>2, <2>3, <2>4
<1>9. CASE check_client_settings(c)
  <2>1. /\ req[c].at = "apply" /\ req[c].checks # <<>> /\ Head(req[c].checks) = "settings"
        /\ Passes1(c, "check", 0)
    BY <1>0, <1>9, SettingsIs
  <2> QED BY <1>1, <1>2, <1>t, <2>1, FirstCheck DEF RequestOk, Busy, Edits, Writes, Passes1
<1>10. CASE Unauthorized(c)
  <2>1. /\ req[c].at = "unauthorized" /\ req[c].checks # <<>>
        /\ \/ Stamped(c)
           \/ Passes1(c, Refused(c), 1) /\ req'[c].settings = req[c].settings
    BY <1>0, <1>10, UnauthorizedIs
  <2>2. CASE Stamped(c)
    BY <1>1, <1>2, <1>t, <2>1, <2>2 DEF RequestOk, Busy, Writes, Stamped
  <2>3. CASE Passes1(c, Refused(c), 1) /\ req'[c].settings = req[c].settings
    BY <1>1, <1>2, <1>t, <2>1, <2>3, FirstCheck DEF RequestOk, Busy, Edits, Writes, Passes1, Refused
  <2> QED BY <2>1, <2>2, <2>3
<1>14. CASE Challenge(c)
  <2>1. /\ req[c].at = "challenge" /\ req[c].checks # <<>>
        /\ Passes1(c, Refused(c), 1) /\ req'[c].settings = req[c].settings
    BY <1>0, <1>14, ChallengeIs
  <2> QED BY <1>1, <1>2, <1>t, <2>1, FirstCheck DEF RequestOk, Busy, Edits, Writes, Passes1, Refused
<1>11. CASE Respond(c)
  BY <1>0, <1>1, <1>2, <1>t, <1>11, RespondIs DEF RequestOk, Busy, Edits, Writes
<1>12. CASE Close(c)
  BY <1>0, <1>1, <1>2, <1>t, <1>12, CloseIs DEF RequestOk, Busy, Edits, Writes, Moves
<1>13. CASE RemoveNonce(c)
  <2>1. req[c].at = "closing" /\ (UNCHANGED req \/ Moves(c, "gone"))
    BY <1>0, <1>13, RemoveNonceIs
  <2>2. CASE UNCHANGED req
    BY <1>1, <1>2, <1>t, <2>1, <2>2 DEF RequestOk, Busy
  <2>3. CASE Moves(c, "gone")
    BY <1>1, <1>2, <1>t, <2>1, <2>3 DEF RequestOk, Busy, Edits, Writes, Moves
  <2> QED BY <2>1, <2>2, <2>3
<1> QED BY <1>3, <1>4, <1>5, <1>6, <1>7, <1>8, <1>9, <1>10, <1>11, <1>12, <1>13, <1>14 DEF Step

LEMMA RequestSame ==
    ASSUME IInv, Next, NEW c \in Clients,
           req'[c].at = req[c].at, req'[c].checks = req[c].checks, req'[c].method = req[c].method,
           req'[c].creds = req[c].creds, req'[c].left = req[c].left, req'[c].token = req[c].token,
           req'[c].settings = req[c].settings, req'[c].stamp = req[c].stamp
    PROVE  RequestOk(c)'
<1>1. req[c].creds # <<>> /\ req[c].creds[1].scheme = "digest" => req[c].creds[1].nonce <= sent'
  BY RequestFacts, SentStays
<1>2. req[c].stamp <= now'
  BY RequestFacts, ReqFields, SentStays DEF RequestOk
<1> QED BY <1>1, <1>2, RequestFacts DEF RequestOk

LEMMA NextRequest == ASSUME IInv, Next PROVE RequestInv'
<1>0. ReqTypes
  BY InvParts
<1>1. CASE Tick \/ MediaGone
  BY <1>1, RequestSame DEF RequestInv, Tick, MediaGone
<1>2. CASE Application
  BY <1>0, <1>2, ApplicationIs, DisturbedIs, RequestSame DEF RequestInv
<1>3. ASSUME NEW c \in Clients, Step(c) PROVE RequestInv'
  <2> SUFFICES ASSUME NEW d \in Clients PROVE RequestOk(d)'
    BY DEF RequestInv
  <2>1. CASE d = c
    BY <1>3, <2>1, RequestStep1
  <2>2. CASE d # c
    BY <1>3, <2>2, StepEdits, RequestSame
  <2> QED BY <2>1, <2>2
<1> QED BY <1>1, <1>2, <1>3, NextIs

-----------------------------------------------------------------------------
\* The answers.

LEMMA AnswerEdit ==
    ASSUME IInv, Next, NEW c \in Clients, req'[c].answers = req[c].answers,
           req'[c].at \in Busy => req[c].at \in Busy
    PROVE  AnswerOk(c)'
BY SentStays DEF AnswerOk, IInv, AnswerInv

LEMMA AnswerLast ==
    ASSUME IInv, Next, NEW c \in Clients, req'[c].answers = req[c].answers + 1, req[c].at \in Busy,
           req'[c].at \notin Busy \/ "goes_on" \in quirks'
    PROVE  AnswerOk(c)'
BY SentStays, RequestFacts DEF AnswerOk, IInv, AnswerInv

LEMMA AnswerStep == ASSUME IInv, Next, NEW c \in Clients, Step(c) PROVE AnswerOk(c)'
<1>0. /\ ReqTypes /\ NonceTypes /\ PermTypes /\ TableTypes /\ RequestInv
      /\ req[c].answers \in Nat
  BY InvParts, RequestFacts
<1>1. CASE Begin(c)
  BY <1>0, <1>1, BeginIs DEF AnswerOk
<1>2. CASE Credential(c)
  <2>1. req'[c].answers = req[c].answers /\ req[c].at \in Busy
    BY <1>2, CredentialIs DEF Found, Tried, Busy
  <2> QED BY <2>1, AnswerEdit
<1>3. CASE EnsureAuthenticated(c) \/ NoMoreCredentials(c) \/ CheckFactory(c)
  <2>1. req'[c].answers = req[c].answers /\ req[c].at \in Busy
    BY <1>0, <1>3, EnsureIs, NoMoreIs, CheckFactoryIs DEF Moves, Busy
  <2> QED BY <2>1, AnswerEdit
<1>4. CASE Allowed(c)
  <2>1. /\ req[c].at = "allowed"
        /\ \/ Passes1(c, "check", 0)
           \/ req'[c].at = "idle" /\ req'[c].answers = req[c].answers + 1
           \/ Moves(c, "unauthorized")
    BY <1>0, <1>4, AllowedIs
  <2>2. CASE Passes1(c, "check", 0) \/ Moves(c, "unauthorized")
    BY <1>0, <2>1, <2>2, AnswerEdit DEF Passes1, Moves, Busy
  <2>3. CASE req'[c].at = "idle" /\ req'[c].answers = req[c].answers + 1
    BY <2>1, <2>3, AnswerLast DEF Busy
  <2> QED BY <2>1, <2>2, <2>3
<1>5. CASE check_client_settings(c)
  BY <1>0, <1>5, SettingsIs, AnswerEdit DEF Passes1, Busy
<1>6. CASE Unauthorized(c) \/ Challenge(c)
  <2>1. /\ req[c].at \in {"unauthorized", "challenge"}
        /\ \/ req'[c].answers = req[c].answers
           \/ /\ req'[c].answers = req[c].answers + 1 /\ req'[c].at = Refused(c)
              /\ Head(req[c].checks) = "settings" => "goes_on" \in quirks'
    <3>1. CASE Unauthorized(c)
      BY <1>0, <3>1, UnauthorizedIs DEF Stamped, Passes1
    <3>2. CASE Challenge(c)
      BY <1>0, <3>2, ChallengeIs DEF Passes1
    <3> QED BY <1>6, <3>1, <3>2
  <2>2. CASE req'[c].answers = req[c].answers
    BY <2>1, <2>2, AnswerEdit DEF Busy
  <2>3. CASE /\ req'[c].answers = req[c].answers + 1 /\ req'[c].at = Refused(c)
             /\ Head(req[c].checks) = "settings" => "goes_on" \in quirks'
    <3>1. req'[c].at \notin Busy \/ "goes_on" \in quirks'
      BY <2>3 DEF Refused, Busy
    <3> QED BY <2>1, <2>3, <3>1, AnswerLast DEF Busy
  <2> QED BY <2>1, <2>2, <2>3
<1>7. CASE Respond(c)
  BY <1>0, <1>7, RespondIs, AnswerLast DEF Busy
<1>8. CASE Close(c)
  BY <1>0, <1>8, CloseIs, AnswerEdit DEF Moves, Busy
<1>9. CASE RemoveNonce(c)
  BY <1>0, <1>9, RemoveNonceIs, AnswerEdit DEF Moves, Busy
<1> QED BY <1>1, <1>2, <1>3, <1>4, <1>5, <1>6, <1>7, <1>8, <1>9 DEF Step

LEMMA NextAnswers == ASSUME IInv, Next PROVE AnswerInv'
<1>0. ReqTypes
  BY InvParts
<1>1. CASE Tick \/ MediaGone
  BY <1>1, AnswerEdit DEF AnswerInv, Tick, MediaGone
<1>2. CASE Application
  BY <1>0, <1>2, ApplicationIs, DisturbedIs, AnswerEdit DEF AnswerInv
<1>3. ASSUME NEW c \in Clients, Step(c) PROVE AnswerInv'
  <2> SUFFICES ASSUME NEW d \in Clients PROVE AnswerOk(d)'
    BY DEF AnswerInv
  <2>1. CASE d = c
    BY <1>3, <2>1, AnswerStep
  <2>2. CASE d # c
    BY <1>3, <2>2, StepEdits, AnswerEdit
  <2> QED BY <2>1, <2>2
<1> QED BY <1>1, <1>2, <1>3, NextIs

-----------------------------------------------------------------------------
\* The token of a request and what its role may do.

\* A step of a request changes neither the roles nor the checks of the others.
LEMMA StepRoles ==
    ASSUME IInv, NEW c \in Clients, Step(c)
    PROVE  RolesStay /\ \A d \in Clients : d # c => checking'[d] = checking[d]
<1>0. /\ ReqTypes /\ PermTypes /\ RequestInv /\ PInv /\ CheckingInv
      /\ checking \in [Clients -> Perms \cup {None}]
  BY InvParts DEF PermTypes
<1>1. CASE UNCHANGED permVars
  BY <1>1 DEF permVars, RolesStay
<1>2. CASE CheckFactory(c) /\ gst_rtsp_media_factory_get_permissions(c)
  <2>1. checking[c] = None
    BY <1>0, <1>2, CheckFactoryIs DEF CheckingInv
  <2> QED BY <1>0, <1>2, <2>1, GetPermissions
<1>3. CASE Allowed(c)
  <2>1. PICK b : Checked(c, b)
    BY <1>0, <1>3, AllowedIs
  <2>2. checking[c] \in Perms
    BY <1>0, <1>3, AllowedIs DEF CheckingInv
  <2> QED BY <1>0, <2>1, <2>2, GiveBack
<1>4. CASE Respond(c) /\ Configured
  BY <1>0, <1>4, ConfiguredRefs
<1> QED BY <1>0, <1>1, <1>2, <1>3, <1>4, QuietPerm, CheckFactoryIs, RespondIs DEF Step

LEMMA RightStays ==
    ASSUME NEW c, UNCHANGED tableVars, req'[c].creds = req[c].creds
    PROVE  RightTokens(c)' = RightTokens(c)
BY DEF RightTokens, RightPass, TokenOfCred, tableVars

LEMMA GrantStays ==
    ASSUME PermTypes, RolesStay, NEW c, req'[c].token = req[c].token, NEW p
    PROVE  Granted(c, p) => Granted(c, p)'
BY DEF Granted, RolesStay

\* A request nobody does anything about.
LEMMA EntitledSame ==
    ASSUME IInv, NEW c \in Clients, UNCHANGED <<basic, digest, default_token>>, RolesStay,
           checking'[c] = checking[c],
           req'[c].at = req[c].at, req'[c].checks = req[c].checks, req'[c].method = req[c].method,
           req'[c].creds = req[c].creds, req'[c].token = req[c].token,
           req'[c].settings = req[c].settings, req'[c].disturbed = req[c].disturbed
    PROVE  EntitledOk(c)'
<1>0. PermTypes /\ EntitledOk(c)
  BY InvParts DEF IInv, EntitledInv
<1>1. RightTokens(c)' = RightTokens(c)
  BY DEF RightTokens, RightPass, TokenOfCred
<1>2. Granted(c, "access") => Granted(c, "access")'
  BY <1>0, GrantStays
<1>3. Granted(c, "construct") => Granted(c, "construct")'
  BY <1>0, GrantStays
<1> HIDE DEF RightTokens, Granted
<1> QED BY <1>0, <1>1, <1>2, <1>3 DEF EntitledOk, RolesStay

\* A request that goes on with its token.
LEMMA EntitledMoves ==
    ASSUME IInv, NEW c \in Clients, UNCHANGED tableVars, RolesStay, Writes(c),
           req[c].at \in Busy, req'[c].at \in Busy, req'[c].token = req[c].token,
           req'[c].settings => req[c].token \in ClientSettings,
           req'[c].at = "allowed" /\ ~req[c].disturbed =>
             checking'[c] = factory_perms /\ TokenRole[req[c].token] \in Roles,
           req'[c].checks = req[c].checks,
           req'[c].at # "credentials" \/ req[c].at = "credentials"
    PROVE  EntitledOk(c)'
<1>0. PermTypes /\ EntitledOk(c)
  BY InvParts DEF IInv, EntitledInv
<1>1. RightTokens(c)' = RightTokens(c)
  BY RightStays DEF Edits, Writes
<1>2. Granted(c, "access") => Granted(c, "access")'
  BY <1>0, GrantStays
<1>3. Granted(c, "construct") => Granted(c, "construct")'
  BY <1>0, GrantStays
<1> QED BY <1>0, <1>1, <1>2, <1>3 DEF EntitledOk, RolesStay, Edits, Writes

\* The tables have the tokens they give, and nobody frees one they have.
LEMMA RightIsAlive ==
    ASSUME IInv, NEW c \in Clients, NEW t \in RightTokens(c), t # None
    PROVE  t \in Tokens /\ token_refs[t] > 0
<1>0. TableTypes /\ TInv /\ None \notin Tokens /\ req[c].creds \in Creds
  BY InvParts, RequestFacts
<1>1. t \in Tokens /\ (default_token = t \/ (\E k \in Users \X Passes : k \in BasicOf(t))
                       \/ (\E u \in Users : u \in DigestOf(t)))
  <2>1. CASE t = default_token
    BY <1>0, <2>1 DEF TableTypes
  <2>2. CASE t # default_token
    <3>1. PICK i \in DOMAIN req[c].creds : RightPass(req[c].creds[i]) /\ t = TokenOfCred(req[c].creds[i])
      BY <2>2 DEF RightTokens
    <3>2. req[c].creds[i] \in Cred
      BY <1>0, <3>1 DEF Creds
    <3>3. PICK k \in Cred : k = req[c].creds[i]
      BY <3>2
    <3>4. CASE k.scheme = "basic"
      <4>1. <<k.user, k.pass>> \in Users \X Passes /\ basic[<<k.user, k.pass>>] = t
        BY <3>1, <3>3, <3>4 DEF TokenOfCred, Cred
      <4> QED BY <1>0, <4>1 DEF TableTypes, BasicOf
    <3>5. CASE k.scheme # "basic"
      <4>1. k.user \in Users /\ digest[k.user] # None /\ digest[k.user].token = t
        BY <3>1, <3>3, <3>5 DEF TokenOfCred, RightPass, Cred
      <4>2. digest[k.user] \in Entry
        BY <1>0, <4>1 DEF TableTypes
      <4> QED BY <4>1, <4>2 DEF DigestOf, TokenOf, Entry
    <3> QED BY <3>4, <3>5
  <2> QED BY <2>1, <2>2
<1>2. token_refs[t] = TokenCount(t)
  BY <1>0, <1>1, TokenRefsAre DEF TInv, CountsInv
<1>3. /\ One(default_token = t) \in Nat /\ One(t \in owned) \in Nat /\ Cardinality(BasicOf(t)) \in Nat
      /\ Cardinality(DigestOf(t)) \in Nat /\ Cardinality(ParsedOf(t)) \in Nat
  BY RefCounts DEF One
<1>4. CASE default_token = t
  BY <1>1, <1>2, <1>3, <1>4 DEF TokenCount, One
<1>5. CASE \E k \in Users \X Passes : k \in BasicOf(t)
  <2>1. Cardinality(BasicOf(t)) > 0
    <3> DEFINE S == BasicOf(t)
    <3>1. S \in SUBSET (Users \X Passes) /\ IsFiniteSet(Users \X Passes)
      BY FiniteTables
    <3> HIDE DEF S
    <3>2. \A x \in S : Cardinality(S) > 0
      BY <3>1, Counting
    <3> QED BY <1>5, <3>2 DEF S
  <2> QED BY <1>1, <1>2, <1>3, <2>1 DEF TokenCount
<1>6. CASE \E u \in Users : u \in DigestOf(t)
  <2>1. Cardinality(DigestOf(t)) > 0
    <3> DEFINE S == DigestOf(t)
    <3>1. S \in SUBSET Users /\ IsFiniteSet(Users)
      BY FiniteTables
    <3> HIDE DEF S
    <3>2. \A x \in S : Cardinality(S) > 0
      BY <3>1, Counting
    <3> QED BY <1>6, <3>2 DEF S
  <2> QED BY <1>1, <1>2, <1>3, <2>1 DEF TokenCount
<1> QED BY <1>1, <1>4, <1>5, <1>6

\* The token of a request that nobody disturbed.
LEMMA UsedIsAlive ==
    ASSUME IInv, NEW c \in Clients, req[c].at \in Busy, ~req[c].disturbed, req[c].token # None
    PROVE  req[c].token \in Tokens /\ token_refs[req[c].token] > 0 /\ token_refs[req[c].token] # 0
<1>1. req[c].token \in RightTokens(c)
  BY DEF IInv, EntitledInv, EntitledOk
<1>2. req[c].token \in Tokens /\ token_refs[req[c].token] > 0
  BY <1>1, RightIsAlive
<1>3. token_refs[req[c].token] \in Int
  BY <1>2, InvParts DEF TableTypes
<1> QED BY <1>2, <1>3

LEMMA EntitledOver == ASSUME NEW c \in Clients, req'[c].at \notin Busy PROVE EntitledOk(c)'
BY DEF EntitledOk

\* The credentials that are accepted.
LEMMA TokenFound ==
    ASSUME IInv, NEW c \in Clients, Credential(c), NEW t \in Tokens, Found(c, t), ~Tried(c)
    PROVE  t \in RightTokens(c)
<1>0. /\ ReqTypes /\ PermTypes /\ NonceTypes /\ TableTypes /\ RequestInv
      /\ req[c].creds # <<>> => 1 \in DOMAIN req[c].creds
  <2>1. req[c].creds \in Creds
    BY RequestFacts
  <2>2. req[c].creds # <<>> => 1 \in DOMAIN req[c].creds
    BY <2>1 DEF Creds
  <2> QED BY <2>2, InvParts
<1>1. req'[c].token = t
  BY DEF Found
<1>2. CASE Head(req[c].left).scheme = "digest"
  <2>1. /\ req[c].creds # <<>> /\ req[c].creds[1].scheme = "digest"
        /\ digest[req[c].creds[1].user] \in Entry
        /\ digest[req[c].creds[1].user].pass = req[c].creds[1].pass
        /\ digest[req[c].creds[1].user].token = t
    BY <1>0, <1>1, <1>2, DigestIs DEF Found
  <2>2. RightPass(req[c].creds[1]) /\ TokenOfCred(req[c].creds[1]) = t
    BY <2>1, AuthAssumption DEF RightPass, TokenOfCred
  <2> QED BY <1>0, <2>1, <2>2 DEF RightTokens
<1>3. CASE Head(req[c].left).scheme # "digest"
  <2>1. /\ req[c].creds # <<>> /\ req[c].creds[1].scheme = "basic"
        /\ basic[<<req[c].creds[1].user, req[c].creds[1].pass>>] = t
    BY <1>0, <1>1, <1>3, BasicIs DEF Found
  <2>2. RightPass(req[c].creds[1]) /\ TokenOfCred(req[c].creds[1]) = t
    BY <2>1, AuthAssumption DEF RightPass, TokenOfCred
  <2> QED BY <1>0, <2>1, <2>2 DEF RightTokens
<1> QED BY <1>2, <1>3

LEMMA EntitledStep == ASSUME IInv, NEW c \in Clients, Step(c) PROVE EntitledOk(c)'
<1>0. /\ ReqTypes /\ NonceTypes /\ PermTypes /\ TableTypes /\ RequestInv /\ CheckingInv
      /\ EntitledOk(c) /\ RequestOk(c) /\ RolesStay /\ UNCHANGED tableVars
      /\ req[c].token \in Tokens \cup {None} /\ None \notin Tokens
  BY InvParts, StepRoles, StepEdits, RequestFacts DEF IInv, EntitledInv
<1>1. CASE Begin(c)
  <2>1. /\ req'[c].at = "check" /\ req'[c].token = None /\ ~req'[c].settings
        /\ req'[c].method = "describe" => req'[c].checks = <<"access", "construct">>
    BY <1>0, <1>1, BeginIs
  <2> QED BY <2>1, SuffixFacts DEF EntitledOk
<1>2. CASE EnsureAuthenticated(c)
  <2>1. /\ Edits(c) /\ req[c].at = "check" /\ req[c].checks # <<>>
        /\ req'[c].checks = req[c].checks /\ req'[c].settings = req[c].settings
        /\ \/ /\ req[c].token # None /\ req'[c].token = req[c].token
              /\ req'[c].at = "apply"
           \/ /\ req[c].token = None /\ req'[c].token = default_token
              /\ req'[c].at = "credentials"
    BY <1>0, <1>2, EnsureIs
  <2>2. ~req[c].settings
    BY <1>0, <2>1 DEF RequestOk, Busy
  <2>3. CASE req[c].token # None
    BY <1>0, <2>1, <2>2, <2>3, EntitledMoves DEF Busy, Edits
  <2>4. CASE req[c].token = None
    <3>1. default_token \in RightTokens(c)'
      BY <1>0 DEF RightTokens, tableVars
    <3>2. req[c].method = "describe" /\ ~req[c].disturbed => req[c].checks = <<"access", "construct">>
      BY <1>0, <2>1, <2>4 DEF EntitledOk, Granted, Busy
    <3> QED BY <2>1, <2>2, <2>4, <3>1, <3>2 DEF EntitledOk, Edits, Writes
  <2> QED BY <2>3, <2>4
<1>3. CASE Credential(c)
  <2>1. req[c].at = "credentials"
    BY <1>3, CredentialIs
  <2>2. ~req[c].settings
    BY <1>0, <2>1 DEF RequestOk, Busy
  <2>3. CASE Tried(c)
    BY <1>0, <2>1, <2>2, <2>3, EntitledMoves DEF Busy, Tried, Edits
  <2>4. ASSUME NEW t \in Tokens, Found(c, t), ~Tried(c) PROVE EntitledOk(c)'
    <3>1. t \in RightTokens(c)'
      BY <1>0, <1>3, <2>4, TokenFound, RightStays DEF Found, Edits, Writes
    <3>2. req[c].method = "describe" /\ ~req[c].disturbed => req[c].checks = <<"access", "construct">>
      BY <1>0, <2>1 DEF EntitledOk, Busy
    <3>3. <<"access", "construct">> # <<>>
      BY SuffixFacts
    <3> QED BY <2>2, <2>4, <3>1, <3>2, <3>3 DEF EntitledOk, Edits, Writes, Found
  <2> QED BY <1>3, <2>3, <2>4, CredentialIs
<1>4. CASE NoMoreCredentials(c)
  <2>1. req[c].at = "credentials" /\ Moves(c, IF req[c].token = None THEN "unauthorized" ELSE "check")
    BY <1>0, <1>4, NoMoreIs
  <2>2. ~req[c].settings /\ req'[c].at \in {"unauthorized", "check"}
    BY <1>0, <2>1 DEF RequestOk, Busy, Moves
  <2> QED BY <1>0, <2>1, <2>2, EntitledMoves DEF Busy, Moves, Edits
<1>5. CASE CheckFactory(c)
  <2>1. /\ req[c].at = "apply" /\ req[c].token \in Tokens
        /\ \/ Moves(c, "unauthorized")
           \/ /\ token_refs[req[c].token] # 0 => TokenRole[req[c].token] \in Roles
              /\ Moves(c, "allowed") /\ gst_rtsp_media_factory_get_permissions(c)
    BY <1>0, <1>5, CheckFactoryIs
  <2>2. ~req[c].settings /\ (~req[c].disturbed => token_refs[req[c].token] # 0)
    BY <1>0, <2>1, UsedIsAlive DEF RequestOk, Busy
  <2>3. CASE Moves(c, "unauthorized")
    BY <1>0, <2>1, <2>2, <2>3, EntitledMoves DEF Busy, Moves, Edits
  <2>4. CASE /\ token_refs[req[c].token] # 0 => TokenRole[req[c].token] \in Roles
             /\ Moves(c, "allowed") /\ gst_rtsp_media_factory_get_permissions(c)
    <3>1. checking'[c] = factory_perms
      BY <1>0, <2>4 DEF gst_rtsp_media_factory_get_permissions, PermTypes
    <3>2. ~req[c].disturbed => TokenRole[req[c].token] \in Roles
      BY <2>2, <2>4
    <3> QED BY <1>0, <2>1, <2>2, <2>4, <3>1, <3>2, EntitledMoves DEF Busy, Moves, Edits
  <2> QED BY <2>1, <2>3, <2>4
<1>6. CASE Allowed(c)
  <2>0. PICK role \in Read(req[c].token, TokenRole[req[c].token], Roles) :
          /\ req[c].at = "allowed" /\ req[c].checks # <<>> /\ req[c].token \in Tokens
          /\ \/ /\ is_allowed(c, role, Head(req[c].checks))
                /\ Passes1(c, "check", 0) /\ req'[c].settings = req[c].settings
             \/ req'[c].at = "idle"
             \/ Moves(c, "unauthorized")
    BY <1>0, <1>6, AllowedIs
  <2>1. /\ req[c].at = "allowed" /\ req[c].checks # <<>> /\ req[c].token \in Tokens
        /\ ~req[c].disturbed => role = TokenRole[req[c].token]
    <3>1. ~req[c].disturbed => token_refs[req[c].token] # 0
      BY <1>0, <2>0, UsedIsAlive DEF Busy
    <3> QED BY <2>0, <3>1 DEF Read
  <2>2. ~req[c].settings /\ checking[c] \in Perms
    BY <1>0, <2>1 DEF RequestOk, Busy, CheckingInv
  <2>3. CASE /\ is_allowed(c, role, Head(req[c].checks))
             /\ Passes1(c, "check", 0) /\ req'[c].settings = req[c].settings
    <3> SUFFICES ASSUME ~req'[c].disturbed PROVE EntitledOk(c)'
      BY DEF EntitledOk
    <3>1. /\ Edits(c) /\ req'[c].at = "check" /\ req'[c].checks = Tail(req[c].checks)
          /\ req'[c].token = req[c].token /\ ~req'[c].settings /\ ~req[c].disturbed
      BY <2>2, <2>3 DEF Passes1, Edits, Writes
    <3>2. /\ req[c].token \in RightTokens(c) /\ checking[c] = factory_perms
          /\ TokenRole[req[c].token] \in Roles /\ role = TokenRole[req[c].token]
      BY <1>0, <2>1, <3>1 DEF EntitledOk, Busy
    <3>3. RightTokens(c)' = RightTokens(c)
      BY <1>0, <3>1, RightStays DEF Edits, Writes
    <3>4. Granted(c, Head(req[c].checks))
      BY <2>1, <2>2, <2>3, <3>2 DEF Granted, is_allowed
    <3>5. req[c].method = "describe" => Granted(c, "access")
      BY <1>0, <2>1, <3>1, <3>4, FirstCheck, SuffixFacts DEF EntitledOk, Busy
    <3>6. req[c].method = "describe" /\ Tail(req[c].checks) = <<>> => Granted(c, "construct")
      BY <2>1, <3>4, FirstCheck, SuffixFacts
    <3>7. Granted(c, "access") => Granted(c, "access")'
      BY <1>0, <3>1, GrantStays
    <3>8. Granted(c, "construct") => Granted(c, "construct")'
      BY <1>0, <3>1, GrantStays
    <3> QED BY <3>1, <3>2, <3>3, <3>5, <3>6, <3>7, <3>8 DEF EntitledOk, Edits, Writes
  <2>4. CASE req'[c].at = "idle"
    BY <2>4, EntitledOver DEF Busy
  <2>5. CASE Moves(c, "unauthorized")
    BY <1>0, <2>1, <2>2, <2>5, EntitledMoves DEF Busy, Moves, Edits
  <2> QED BY <2>0, <2>3, <2>4, <2>5
<1>7. CASE check_client_settings(c)
  <2>1. /\ req[c].at = "apply" /\ Head(req[c].checks) = "settings" /\ req[c].checks # <<>>
        /\ Edits(c) /\ req'[c].at = "check" /\ req'[c].token = req[c].token
        /\ token_refs[req[c].token] # 0 => (req'[c].settings <=> req[c].token \in ClientSettings)
    BY <1>0, <1>7, SettingsIs DEF Passes1
  <2>2. req[c].method # "describe" /\ req[c].token # None
    BY <1>0, <2>1, FirstCheck DEF RequestOk
  <2>3. RightTokens(c)' = RightTokens(c)
    BY <1>0, <2>1, RightStays DEF Edits, Writes
  <2>4. ~req[c].disturbed => (req'[c].settings <=> req[c].token \in ClientSettings)
    BY <2>1, <2>2, UsedIsAlive DEF Busy
  <2> QED BY <1>0, <2>1, <2>2, <2>3, <2>4 DEF EntitledOk, Edits, Writes, Busy
<1>8. CASE Unauthorized(c) \/ Challenge(c)
  <2>0. CASE Stamped(c)
    <3>1. req[c].at = "unauthorized" /\ req[c].checks # <<>>
      <4>1. CASE Unauthorized(c)
        BY <1>0, <4>1, UnauthorizedIs
      <4>2. CASE Challenge(c)
        BY <1>0, <2>0, <4>2, ChallengeIs DEF Stamped, Passes1, Refused
      <4> QED BY <1>8, <4>1, <4>2
    <3>2. ~req[c].settings
      BY <1>0, <3>1 DEF RequestOk, Busy
    <3> QED BY <1>0, <2>0, <3>1, <3>2, EntitledMoves DEF Stamped, Busy
  <2>1. ASSUME Passes1(c, Refused(c), 1), req'[c].settings = req[c].settings, req[c].checks # <<>>,
               req[c].at \in {"unauthorized", "challenge"}
        PROVE  EntitledOk(c)'
    <3>1. /\ req'[c].at = Refused(c) /\ Writes(c) /\ req'[c].token = req[c].token
      BY <2>1 DEF Passes1, Edits
    <3>2. CASE Head(req[c].checks) = "settings"
      <4>1. req[c].method # "describe" /\ req'[c].at = "check"
        BY <2>1, <3>1, <3>2, FirstCheck DEF Refused
      <4>2. RightTokens(c)' = RightTokens(c)
        BY <1>0, <3>1, RightStays DEF Writes
      <4> QED BY <1>0, <2>1, <3>1, <4>1, <4>2 DEF EntitledOk, Writes, Busy
    <3>3. CASE Head(req[c].checks) # "settings"
      BY <3>1, <3>3, EntitledOver DEF Refused, Busy
    <3> QED BY <3>2, <3>3
  <2>2. CASE Unauthorized(c)
    BY <1>0, <2>0, <2>1, <2>2, UnauthorizedIs
  <2>3. CASE Challenge(c)
    BY <1>0, <2>1, <2>3, ChallengeIs
  <2> QED BY <1>8, <2>2, <2>3
<1>9. CASE Respond(c)
  BY <1>0, <1>9, RespondIs, EntitledOver DEF Busy
<1>10. CASE Close(c)
  BY <1>0, <1>10, CloseIs, EntitledOver DEF Busy, Moves
<1>11. CASE RemoveNonce(c)
  BY <1>0, <1>11, RemoveNonceIs, EntitledOver DEF Busy, Moves
<1> QED BY <1>1, <1>2, <1>3, <1>4, <1>5, <1>6, <1>7, <1>8, <1>9, <1>10, <1>11 DEF Step

LEMMA NextEntitled == ASSUME IInv, Next PROVE EntitledInv'
<1>0. ReqTypes /\ PInv /\ TableTypes
  BY InvParts
<1>1. CASE Tick
  <2>1. UNCHANGED <<permVars, tableVars, req>>
    BY <1>1 DEF Tick
  <2>2. RolesStay
    BY <2>1 DEF RolesStay, permVars
  <2> QED BY <2>1, <2>2, EntitledSame DEF EntitledInv, tableVars, permVars
<1>2. CASE MediaGone
  <2>1. MediaFreed /\ UNCHANGED <<tableVars, req>>
    BY <1>2 DEF MediaGone
  <2>2. RolesStay /\ UNCHANGED checking
    BY <1>0, <2>1, MediaFreedRefs
  <2> QED BY <2>1, <2>2, EntitledSame DEF EntitledInv, tableVars
<1>3. CASE Application
  <2>1. Disturbed /\ UNCHANGED checking
    <3>1. CASE UNCHANGED permVars
      BY <1>0, <1>3, <3>1, ApplicationIs DEF permVars
    <3>2. CASE PermStep
      BY <1>0, <1>3, <3>2, ApplicationIs, PermStepIs
    <3> QED BY <1>0, <1>3, <3>1, <3>2, ApplicationIs
  <2> SUFFICES ASSUME NEW c \in Clients PROVE EntitledOk(c)'
    BY DEF EntitledInv
  <2>2. CASE req[c].at \notin Busy \/ req'[c].disturbed
    BY <1>0, <2>1, <2>2, DisturbedIs DEF EntitledOk
  <2>3. CASE req[c].at \in Busy /\ ~req'[c].disturbed
    <3>1. /\ req'[c].disturbed = req[c].disturbed
          /\ UNCHANGED <<basic, digest, default_token, perms, factory_perms>>
      BY <1>0, <2>1, <2>3, DisturbedIs DEF Busy
    <3>2. RolesStay
      BY <3>1 DEF RolesStay
    <3> QED BY <1>0, <2>1, <3>1, <3>2, DisturbedIs, EntitledSame
  <2> QED BY <2>2, <2>3
<1>4. ASSUME NEW c \in Clients, Step(c) PROVE EntitledInv'
  <2> SUFFICES ASSUME NEW d \in Clients PROVE EntitledOk(d)'
    BY DEF EntitledInv
  <2>1. CASE d = c
    BY <1>4, <2>1, EntitledStep
  <2>2. CASE d # c
    <3>1. req'[d] = req[d] /\ checking'[d] = checking[d] /\ RolesStay /\ UNCHANGED tableVars
      BY <1>4, <2>2, StepEdits, StepRoles
    <3> QED BY <3>1, EntitledSame DEF tableVars
  <2> QED BY <2>1, <2>2
<1> QED BY <1>1, <1>2, <1>3, <1>4, NextIs

-----------------------------------------------------------------------------
\* Right credentials that are refused.

LEMMA StaleStays ==
    ASSUME IInv, Next, NEW c \in Clients, req'[c].creds = req[c].creds, req[c].creds # <<>>
    PROVE  StaleAnswer(c) => StaleAnswer(c)'
<1> SUFFICES ASSUME StaleAnswer(c) PROVE StaleAnswer(c)'
  OBVIOUS
<1>1. req[c].creds[1].scheme = "digest"
  BY DEF StaleAnswer
<1>2. PICK i \in 1 .. sent : i = req[c].creds[1].nonce
  BY <1>1, RequestFacts
<1>3. /\ SameNonce(i) /\ overtaken \subseteq overtaken' /\ nonces[i].stamp \in Nat
      /\ now \in Nat /\ now' \in Nat /\ now <= now' /\ NonceTimeout \in Nat
  BY InvParts, NonceFacts, SentStays, AuthAssumption
<1>4. CASE now - nonces[i].stamp >= NonceTimeout
  <2>1. now' - nonces'[i].stamp >= NonceTimeout
    BY <1>3, <1>4 DEF SameNonce
  <2> QED BY <1>1, <1>2, <2>1 DEF StaleAnswer
<1>5. CASE nonces[i].to # c \/ nonces[i].client \notin {None, c} \/ i \in overtaken
  <2>1. nonces'[i].to # c \/ nonces'[i].client \notin {None, c} \/ i \in overtaken'
    BY <1>3, <1>5 DEF SameNonce
  <2> QED BY <1>1, <1>2, <2>1 DEF StaleAnswer
<1> QED BY <1>2, <1>4, <1>5 DEF StaleAnswer

\* A request that has the credentials it had, with the tables it had.
LEMMA WorksSame ==
    ASSUME IInv, Next, NEW c \in Clients, UNCHANGED <<basic, digest>>,
           req'[c].creds = req[c].creds, req'[c].token = req[c].token,
           req'[c].disturbed = req[c].disturbed,
           \/ req'[c].at = req[c].at /\ req'[c].left = req[c].left
           \/ req[c].at = "credentials" /\ req[c].left = <<>>
    PROVE  WorksOk(c)'
<1>1. WorksOk(c)
  BY DEF IInv, WorksInv
<1> SUFFICES ASSUME req'[c].at \in {"credentials", "unauthorized"}, req'[c].token = None,
                    ~req'[c].disturbed, req'[c].creds # <<>>,
                    RightPass(req[c].creds[1])', req'[c].at = "credentials" => req'[c].left = <<>>
             PROVE  StaleAnswer(c)'
  BY DEF WorksOk
<1>2. RightPass(req[c].creds[1])
  BY DEF RightPass
<1>3. StaleAnswer(c)
  BY <1>1, <1>2 DEF WorksOk
<1> QED BY <1>3, StaleStays

LEMMA WorksOver ==
    ASSUME NEW c \in Clients,
           req'[c].at \notin {"credentials", "unauthorized"} \/ req'[c].token # None
             \/ req'[c].disturbed
    PROVE  WorksOk(c)'
BY DEF WorksOk

\* An answer that is not taken although the password is right.
LEMMA TriedWorks ==
    ASSUME IInv, Next, NEW c \in Clients, Credential(c), Tried(c), ~\E t \in Tokens : Found(c, t)
    PROVE  WorksOk(c)'
<1> SUFFICES ASSUME RightPass(req[c].creds[1])'
             PROVE  StaleAnswer(c)'
  BY DEF WorksOk
<1>0. /\ ReqTypes /\ PermTypes /\ NonceTypes /\ TableTypes /\ RequestInv /\ NInv
      /\ req'[c].creds = req[c].creds /\ req[c].creds # <<>> /\ req[c].at = "credentials"
      /\ UNCHANGED tableVars
  BY InvParts, CredentialIs DEF Tried, Edits, Writes
<1>1. RightPass(req[c].creds[1])
  BY <1>0 DEF RightPass, tableVars
<1>2. CASE Head(req[c].left).scheme = "digest"
  <2>1. /\ req[c].creds[1].scheme = "digest" /\ req[c].creds[1].nonce \in 1 .. sent
        /\ \/ digest[req[c].creds[1].user] \in Entry /\ Found(c, digest[req[c].creds[1].user].token)
           \/ ~(/\ digest[req[c].creds[1].user] # None /\ Answers(c, req[c].creds[1].nonce)
                /\ digest[req[c].creds[1].user].pass = req[c].creds[1].pass)
    BY <1>0, <1>2, DigestIs
  <2>2. PICK i \in 1 .. sent : i = req[c].creds[1].nonce
    BY <2>1
  <2>3. ~Answers(c, i)
    BY <1>1, <2>1, <2>2 DEF RightPass, Entry
  <2>4. StaleAnswer(c)
    <3>1. CASE nonces[i].to # c \/ nonces[i].client \notin {None, c}
      BY <2>1, <2>2, <3>1 DEF StaleAnswer
    <3>2. CASE nonces[i].to = c /\ nonces[i].client \in {None, c}
      <4>1. ~nonces[i].alive
        BY <2>3, <3>2 DEF Answers
      <4>2. i \in overtaken \/ now - nonces[i].stamp >= NonceTimeout
        BY <1>0, <3>2, <4>1, NInvIs DEF Over
      <4> QED BY <2>1, <2>2, <4>2 DEF StaleAnswer
    <3> QED BY <3>1, <3>2
  <2> QED BY <1>0, <2>4, StaleStays
<1>3. CASE Head(req[c].left).scheme # "digest"
  <2>1. /\ req[c].creds[1].scheme = "basic"
        /\ basic[<<req[c].creds[1].user, req[c].creds[1].pass>>] = None
    BY <1>0, <1>3, BasicIs
  <2> QED BY <1>1, <2>1 DEF RightPass
<1> QED BY <1>2, <1>3

LEMMA WorksStep == ASSUME IInv, Next, NEW c \in Clients, Step(c) PROVE WorksOk(c)'
<1>0. /\ ReqTypes /\ NonceTypes /\ PermTypes /\ TableTypes /\ RequestInv /\ UNCHANGED tableVars
      /\ None \notin Tokens /\ req[c].creds \in Creds
  BY InvParts, StepEdits, RequestFacts
<1>1. CASE Begin(c)
  BY <1>0, <1>1, BeginIs, WorksOver
<1>2. CASE EnsureAuthenticated(c)
  <2>1. \/ req'[c].at = "apply"
        \/ req'[c].at = "credentials" /\ req'[c].left = req[c].creds /\ req'[c].creds = req[c].creds
    BY <1>0, <1>2, EnsureIs DEF Edits, Writes
  <2> QED BY <2>1 DEF WorksOk
<1>3. CASE Credential(c)
  <2>1. ASSUME NEW t \in Tokens, Found(c, t) PROVE WorksOk(c)'
    BY <2>1, WorksOver DEF Found
  <2> QED BY <1>3, <2>1, CredentialIs, TriedWorks
<1>4. CASE NoMoreCredentials(c)
  <2>1. /\ req[c].at = "credentials" /\ req[c].left = <<>>
        /\ req'[c].creds = req[c].creds /\ req'[c].token = req[c].token
        /\ req'[c].disturbed = req[c].disturbed
    BY <1>0, <1>4, NoMoreIs DEF Moves, Edits, Writes
  <2> QED BY <1>0, <2>1, WorksSame DEF tableVars
<1>5. CASE CheckFactory(c)
  BY <1>0, <1>5, CheckFactoryIs, WorksOver DEF Moves
<1>6. CASE Allowed(c)
  BY <1>0, <1>6, AllowedIs, WorksOver DEF Moves, Passes1
<1>7. CASE check_client_settings(c)
  BY <1>0, <1>7, SettingsIs, WorksOver DEF Passes1
<1>8. CASE Unauthorized(c) \/ Challenge(c)
  <2>1. req'[c].at \in {"challenge", "check", "idle"}
    BY <1>0, <1>8, UnauthorizedIs, ChallengeIs DEF Stamped, Passes1, Refused
  <2> QED BY <2>1, WorksOver
<1>9. CASE Respond(c)
  BY <1>0, <1>9, RespondIs, WorksOver
<1>10. CASE Close(c)
  BY <1>0, <1>10, CloseIs, WorksOver DEF Moves
<1>11. CASE RemoveNonce(c)
  BY <1>0, <1>11, RemoveNonceIs, WorksOver DEF Moves
<1> QED BY <1>1, <1>2, <1>3, <1>4, <1>5, <1>6, <1>7, <1>8, <1>9, <1>10, <1>11 DEF Step

LEMMA NextWorks == ASSUME IInv, Next PROVE WorksInv'
<1>0. ReqTypes
  BY InvParts
<1>1. CASE Tick \/ MediaGone
  <2>1. UNCHANGED <<tableVars, req>>
    BY <1>1 DEF Tick, MediaGone
  <2> QED BY <2>1, WorksSame DEF WorksInv, tableVars
<1>2. CASE Application
  <2>1. Disturbed
    BY <1>0, <1>2, ApplicationIs
  <2> SUFFICES ASSUME NEW c \in Clients PROVE WorksOk(c)'
    BY DEF WorksInv
  <2>2. CASE req[c].at \in {"idle", "gone"} \/ req'[c].disturbed
    BY <1>0, <2>1, <2>2, DisturbedIs, WorksOver
  <2>3. CASE req[c].at \notin {"idle", "gone"} /\ ~req'[c].disturbed
    BY <1>0, <2>1, <2>3, DisturbedIs, WorksSame
  <2> QED BY <2>2, <2>3
<1>3. ASSUME NEW c \in Clients, Step(c) PROVE WorksInv'
  <2> SUFFICES ASSUME NEW d \in Clients PROVE WorksOk(d)'
    BY DEF WorksInv
  <2>1. CASE d = c
    BY <1>3, <2>1, WorksStep
  <2>2. CASE d # c
    BY <1>3, <2>2, StepEdits, WorksSame DEF tableVars
  <2> QED BY <2>1, <2>2
<1> QED BY <1>1, <1>2, <1>3, NextIs

-----------------------------------------------------------------------------
\* The theorems.

LEMMA InitTypes == ASSUME Init PROVE TypeInv /\ CheckingInv
<1>1. Nothing \in Roled
  BY DEF Nothing, Roled
<1>2. PermTypes
  BY <1>1, AuthAssumption DEF Init, PermInit, PermTypes
<1>3. TableTypes
  BY AuthAssumption DEF Init, TableTypes
<1>4. NonceTypes
  BY AuthAssumption DEF Init, NonceTypes, Ids
<1>5. NoRequest \in Req
  BY SuffixFacts, CredFacts DEF NoRequest, Req, Places
<1>6. ReqTypes
  BY <1>5, AuthAssumption DEF Init, ReqTypes
<1>7. NoRequest.at = "idle"
  BY DEF NoRequest
<1>8. CheckingInv
  BY <1>7, AuthAssumption DEF Init, PermInit, CheckingInv
<1> QED BY <1>2, <1>3, <1>4, <1>6, <1>8 DEF TypeInv

LEMMA InitCounts == ASSUME Init PROVE PermissionRefs /\ TokenRefs
<1>0. TypeInv /\ None \notin Perms \cup Tokens /\ Cardinality({}) = 0
  BY InitTypes, AuthAssumption, FS_EmptySet
<1>1. PermissionRefs
  <2> SUFFICES ASSUME NEW p \in Perms
               PROVE  perms[p].refs = One(factory_perms = p) + media_perms[p] + Cardinality(Checking(p))
    BY RefsAre
  <2>1. Checking(p) = {}
    BY <1>0, AuthAssumption DEF Init, PermInit, Checking
  <2>2. perms[p].refs = 0 /\ media_perms[p] = 0 /\ factory_perms # p
    BY <1>0 DEF Init, PermInit
  <2> QED BY <1>0, <2>1, <2>2 DEF One
<1>2. TokenRefs
  <2> SUFFICES ASSUME NEW t \in Tokens PROVE token_refs[t] = TokenCount(t)
    BY <1>0, TokenRefsAre DEF CountsInv, TypeInv
  <2>1. BasicOf(t) = {} /\ DigestOf(t) = {} /\ ParsedOf(t) = {}
    BY <1>0 DEF Init, BasicOf, DigestOf, ParsedOf, TokenOf
  <2>2. token_refs[t] = 1 /\ t \in owned /\ default_token # t
    BY <1>0 DEF Init
  <2> QED BY <1>0, <2>1, <2>2 DEF TokenCount, One
<1> QED BY <1>1, <1>2

LEMMA InitInv == Init => IInv
<1> SUFFICES ASSUME Init PROVE IInv
  OBVIOUS
<1>1. PermInv
  BY InitTypes, InitCounts DEF Init, PermInit, PermInv, RolesAreAdded, AskedInv
<1>2. FileInv
  BY InitCounts DEF Init, FileInv, HtdigestWhole, FileEntries
<1>3. NonceInv
  BY DEF Init, NonceInv, StampInv, RemoveDataLive, ClaimedByLive, ClaimInv, Alive
<1>4. \A c \in Clients : req[c] = NoRequest
  BY DEF Init
<1>5. /\ NoRequest.at = "idle" /\ NoRequest.left = <<>> /\ NoRequest.creds = <<>> /\ NoRequest.answers = 0
      /\ NoRequest.method = "none" /\ NoRequest.stamp = 0
  BY DEF NoRequest
<1>6. RequestInv
  BY <1>4, <1>5 DEF Init, RequestInv, RequestOk, Busy
<1>7. EntitledInv /\ AnswerInv /\ WorksInv
  BY <1>4, <1>5 DEF EntitledInv, EntitledOk, AnswerInv, AnswerOk, WorksInv, WorksOk, Busy
<1> QED BY InitTypes, <1>1, <1>2, <1>3, <1>6, <1>7 DEF IInv

LEMMA NextInv == IInv /\ [Next]_vars => IInv'
<1> SUFFICES ASSUME IInv, [Next]_vars PROVE IInv'
  OBVIOUS
<1>1. CASE Next
  <2>1. PInv' /\ CheckingInv' /\ ReqTypes'
    BY <1>1, NextPerm
  <2>2. TInv' /\ NInv'
    BY <1>1, NextTables, NextNonces
  <2>3. RequestInv' /\ EntitledInv' /\ AnswerInv' /\ WorksInv'
    BY <1>1, NextRequest, NextEntitled, NextAnswers, NextWorks
  <2> QED BY <2>1, <2>2, <2>3 DEF IInv, TypeInv, PermInv, FileInv, PInv, TInv, NInv
<1>2. CASE UNCHANGED vars
  <2>1. /\ TypeInv' /\ PermInv'
    BY <1>2 DEF IInv, TypeInv, PermInv, vars, permVars, tableVars, nonceVars, PermTypes, TableTypes,
                NonceTypes, ReqTypes, PermissionRefs, RolesAreAdded, AskedInv, CheckingInv
  <2>2. FileInv'
    BY <1>2 DEF IInv, FileInv, vars, tableVars, TokenRefs, TokenOf, HtdigestWhole, FileEntries
  <2>3. NonceInv'
    BY <1>2 DEF IInv, NonceInv, StampInv, RemoveDataLive, ClaimedByLive, ClaimInv, Alive, vars, nonceVars
  <2>4. RequestInv' /\ AnswerInv'
    BY <1>2 DEF IInv, RequestInv, RequestOk, AnswerInv, AnswerOk, vars, nonceVars
  <2>5. EntitledInv'
    <3>1. RolesStay /\ UNCHANGED <<basic, digest, default_token, checking, req>>
      BY <1>2 DEF vars, permVars, tableVars, RolesStay
    <3> QED BY <3>1, EntitledSame DEF EntitledInv
  <2>6. WorksInv'
    BY <1>2 DEF IInv, WorksInv, WorksOk, StaleAnswer, RightPass, vars, nonceVars, tableVars
  <2> QED BY <2>1, <2>2, <2>3, <2>4, <2>5, <2>6 DEF IInv
<1> QED BY <1>1, <1>2

LEMMA TypeIsKept == IInv => TypeOK
<1> SUFFICES ASSUME IInv PROVE TypeOK
  OBVIOUS
<1>0. PermTypes /\ TableTypes /\ NonceTypes /\ ReqTypes /\ TokenRefs
  BY InvParts DEF IInv, FileInv
<1>1. token_refs \in [Tokens -> Nat]
  <2>1. ASSUME NEW t \in Tokens PROVE token_refs[t] \in Nat
    <3>1. token_refs[t] = TokenCount(t)
      BY <1>0, TokenRefsAre DEF CountsInv
    <3>2. One(default_token = t) \in Nat
      BY DEF One
    <3> QED BY <3>1, <3>2, RefCounts DEF TokenCount
  <2> QED BY <1>0, <2>1 DEF TableTypes
<1>2. \A u \in Users : digest[u] = None \/ digest[u] \in [pass : Passes, token : Tokens]
  BY <1>0 DEF TableTypes, Entry
<1>3. ASSUME NEW c \in Clients
      PROVE  /\ req[c].token \in Tokens \cup {None}
             /\ req[c].stamp \in 0 .. now
             /\ req[c].at \in {"idle", "check", "credentials", "apply", "unauthorized",
                               "challenge", "allowed", "closing", "gone"}
  <2>1. req[c] \in Req
    BY <1>0 DEF ReqTypes
  <2>2. req[c].stamp <= now /\ now \in Nat
    BY <1>0, RequestFacts, NonceFacts DEF RequestOk
  <2> QED BY <2>1, <2>2, ReqFields DEF Places
<1> QED BY <1>0, <1>1, <1>2, <1>3 DEF TypeOK, TableTypes, NonceTypes

LEMMA RolesFollow == IInv => RolesHold
<1> SUFFICES ASSUME IInv PROVE RolesHold
  OBVIOUS
<1>1. RequestTokenAlive
  <2> SUFFICES ASSUME NEW c \in Clients, req[c].at \notin {"idle", "closing", "gone"},
                      req[c].token # None, ~req[c].disturbed
               PROVE  token_refs[req[c].token] > 0
    BY DEF RequestTokenAlive
  <2>1. req[c].at \in Busy
    BY RequestFacts, ReqFields DEF Places, Busy
  <2> QED BY <2>1, UsedIsAlive
<1> QED BY <1>1, TypeIsKept DEF IInv, PermInv, FileInv, RolesHold

LEMMA NoncesFollow == IInv => NoncesLive
<1> SUFFICES ASSUME IInv PROVE NoncesLive
  OBVIOUS
<1>0. NonceTypes /\ NInv /\ NonceTimeout \in Nat
  BY InvParts, AuthAssumption
<1>1. NoncesExpire
  <2> SUFFICES ASSUME NEW i \in Alive, nonces[i].client = None
               PROVE  nonces[sent].stamp - nonces[i].stamp < 2 * NonceTimeout
    BY DEF NoncesExpire
  <2>1. i \in 1 .. sent /\ nonces[i].alive /\ sent \in 1 .. sent
    BY <1>0, NonceFacts DEF Alive
  <2>2. nonces[sent].stamp - last_nonce_check < NonceTimeout
    BY <1>0, <2>1 DEF NInv, NonceInv, StampInv
  <2>3. last_nonce_check - nonces[i].stamp < NonceTimeout
    BY <1>0, <2>1, NInvIs
  <2>4. nonces[sent].stamp \in Nat /\ nonces[i].stamp \in Nat /\ last_nonce_check \in Nat
    BY <1>0, <2>1, NonceFacts
  <2> QED BY <1>0, <2>2, <2>3, <2>4
<1>2. ChallengeWorks
  <2> SUFFICES ASSUME NEW c \in Clients, req[c].at = "unauthorized", req[c].token = None,
                      ~req[c].disturbed, req[c].creds # <<>>,
                      RightPass(req[c].creds[1])
               PROVE  StaleAnswer(c)
    BY DEF ChallengeWorks, StaleAnswer
  <2> QED BY DEF IInv, WorksInv, WorksOk
<1> QED BY <1>1, <1>2 DEF NoncesLive, IInv, NonceInv

LEMMA EntitledFollows == IInv => OnlyEntitled
<1> SUFFICES ASSUME IInv PROVE OnlyEntitled
  OBVIOUS
<1>1. ServedIsEntitled
  <2> SUFFICES ASSUME NEW c \in Clients, req[c].at = "check", req[c].checks = <<>>, ~req[c].disturbed
               PROVE  /\ req[c].method = "describe" =>
                           /\ req[c].token \in RightTokens(c) \ {None}
                           /\ factory_perms # None
                           /\ Permission \subseteq perms[factory_perms].roles[TokenRole[req[c].token]]
                      /\ req[c].settings => req[c].token \in RightTokens(c) \cap ClientSettings
    BY DEF ServedIsEntitled
  <2>1. EntitledOk(c) /\ RequestOk(c) /\ None \notin Tokens \cup Perms /\ <<>> # <<"access", "construct">>
    BY RequestFacts, SuffixFacts, AuthAssumption DEF IInv, EntitledInv
  <2>2. req[c].token # None => req[c].token \in RightTokens(c)
    BY <2>1 DEF EntitledOk, Busy
  <2>3. req[c].method = "describe" => Granted(c, "access") /\ Granted(c, "construct")
    BY <2>1 DEF EntitledOk, Busy
  <2>4. req[c].settings => req[c].token # None /\ req[c].token \in ClientSettings
    BY <2>1 DEF EntitledOk, RequestOk, Busy
  <2> QED BY <2>1, <2>2, <2>3, <2>4 DEF Granted, Permission
<1> QED BY <1>1 DEF IInv, AnswerInv, AnswerOk, FileInv, AnsweredOnce, OnlyEntitled

(* In every behaviour a permissions object has exactly the references of    *)
(* its factory, its media and the checks under way, a token those of the    *)
(* application (while it has one), the tables and the file being read, the  *)
(* token of a request, which has none of its own, is alive until somebody   *)
(* changes the tables, and the factory has the roles it was given unless    *)
(* add_role was refused (gst_rtsp_media_factory_add_role, check_factory,    *)
(* gst_rtsp_auth_add_basic, gst_rtsp_auth_parse_htdigest,                   *)
(* gst_rtsp_token_unref).                                                   *)
THEOREM RolesAreHeld == Spec => []RolesHold
<1> QED BY InitInv, NextInv, RolesFollow, PTL DEF Spec

(* In every behaviour a nonce lives from its challenge until it expires,    *)
(* one that was claimed belongs to a client that will remove it, and a      *)
(* client that answers its own challenge in time with the right password is *)
(* not challenged again unless another client claimed the nonce or a        *)
(* challenge that read the clock before it and took the lock after it       *)
(* removed it (default_digest_auth, remove_nonce,                           *)
(* default_generate_authenticate_header).                                   *)
THEOREM NoncesAreLive == Spec => []NoncesLive
<1> QED BY InitInv, NextInv, NoncesFollow, PTL DEF Spec

(* In every behaviour a request that constructs a media has a token its     *)
(* credentials give and whose role may see and construct the media, its     *)
(* transport settings are taken only for a token that says so, it is        *)
(* answered once, and a file of users takes effect as a whole               *)
(* (ensure_authenticated, check_factory, check_client_settings).            *)
THEOREM OnlyTheEntitled == Spec => []OnlyEntitled
<1> QED BY InitInv, NextInv, EntitledFollows, PTL DEF Spec

===============================================================================
