-------------------------------- MODULE MCAuth --------------------------------
(* An instance of Auth for TLC: two connections of one user agent or of two, *)
(* and scenarios for the challenges, the tables of users and the roles.      *)
EXTENDS Auth, TLC

CONSTANTS c1, c2, u1, u2, right, wrong, t1, t2, admin, guest, p1, p2

MCTokenRole == [t \in Tokens |-> IF t = t1 THEN admin ELSE None]
MCClientSettings == {t1}

No == [scheme |-> "none"]
Basic(u, p) == [scheme |-> "basic", user |-> u, pass |-> p]
Dig(u, p) == [scheme |-> "digest", user |-> u, pass |-> p]
Describe(creds) == [checks |-> <<"access", "construct">>, method |-> "describe", creds |-> creds]
Setup(creds) == [checks |-> <<"settings">>, method |-> "setup", creds |-> creds]
SetupNew(creds) == [checks |-> <<"access", "construct", "settings">>, method |-> "setup", creds |-> creds]

All == [r \in Roles |-> Permission]
AdminAll == [r \in Roles |-> IF r = admin THEN Permission ELSE {}]
SeeOnly == [r \in Roles |-> IF r = admin THEN {"access"} ELSE {}]

Permits(roles) == [op |-> "permissions", roles |-> roles]
AddRole(r, allowed, structure) == [op |-> "add_role", role |-> r, allowed |-> allowed, structure |-> structure]
AddBasic(u, p, t) == [op |-> "add_basic", user |-> u, pass |-> p, token |-> t]
AddDigest(u, p, t) == [op |-> "add_digest", user |-> u, pass |-> p, token |-> t]
GiveUp(t) == [op |-> "unref", token |-> t]
Methods == [op |-> "methods", methods |-> {"basic", "digest"}]
Line(u, p) == [user |-> u, pass |-> p, valid |-> TRUE]
BadLine == [user |-> u1, pass |-> wrong, valid |-> FALSE]

Scenario(app, requests, together) ==
    [app |-> app, requests |-> (c1 :> requests[1] @@ c2 :> requests[2]),
     agent |-> (c1 :> 1 @@ c2 :> IF together THEN 1 ELSE 2),
     ip |-> (c1 :> 1 @@ c2 :> IF together THEN 1 ELSE 2)]

Users2 == <<AddDigest(u1, right, t1), Permits(AdminAll), Methods>>

MCPlans ==
    \* challenges that nobody answers, and one that is answered
    {Scenario(Users2, <<<<Describe(No), Describe(No), Describe(No), Describe(No), Describe(No)>>, <<>>>>, TRUE),
     Scenario(Users2, <<<<Describe(No), Describe(Dig(u1, right)), Describe(No), Describe(Dig(u1, right))>>,
                        <<Describe(No)>>>>, FALSE)}
    \* two connections that answer, rightly or not, the same challenges
    \cup {Scenario(Users2, <<<<Describe(No), Describe(Dig(u1, right))>>, <<Describe(Dig(u1, p)), Describe(No)>>>>, b) :
            p \in Passes, b \in BOOLEAN}
    \* a user that is replaced and removed while it authenticates
    \cup {Scenario(Users2 \o <<o, GiveUp(t1), [op |-> "remove_digest", user |-> u1]>>,
                   <<<<Describe(No), Describe(Dig(u1, right))>>, <<>>>>, TRUE) :
            o \in {AddDigest(u1, wrong, t2), AddDigest(u1, right, t1), AddDigest(u2, right, t1)}}
    \* files of users
    \cup {Scenario(Users2 \o <<[op |-> "htdigest", lines |-> l, token |-> t2]>>,
                   <<<<Describe(No), Describe(Dig(u2, right))>>, <<>>>>, TRUE) :
            l \in {<<Line(u1, wrong), Line(u2, right)>>, <<Line(u2, wrong), Line(u2, right)>>,
                   <<Line(u1, wrong), BadLine>>, <<>>}}
    \* roles that change while they are used
    \cup {Scenario(<<AddBasic(u1, right, t1), o1, o2>>,
                   <<<<Describe(Basic(u1, right)), SetupNew(Basic(u1, right))>>,
                     <<Describe(Basic(u1, p))>>>>, TRUE) :
            o1 \in {Permits(AdminAll), AddRole(admin, Permission, FALSE), Permits(SeeOnly)},
            o2 \in {AddRole(admin, {}, FALSE), AddRole(guest, Permission, TRUE), Permits(All)},
            p \in Passes}
    \* tokens of everybody, and choices of the transport
    \cup {Scenario(<<Permits(AdminAll), [op |-> "default", token |-> t],
                     AddBasic(u1, right, t1), GiveUp(t1), [op |-> "default", token |-> None],
                     [op |-> "remove_basic", user |-> u1, pass |-> right]>>,
                   <<<<Setup(No), Setup(Basic(u1, right))>>, <<SetupNew(No)>>>>, TRUE) : t \in Tokens}
===============================================================================
