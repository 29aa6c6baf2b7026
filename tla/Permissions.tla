------------------------------ MODULE Permissions ------------------------------
(* GstRTSPPermissions (rtsp-permissions.c) and those of a factory            *)
(* (rtsp-media-factory.c): what each role may do.  The factory, its media    *)
(* and the checks under way have references to one object, which can only    *)
(* be changed while there is a single reference.                             *)
EXTENDS Integers, FiniteSets, NoValue

CONSTANTS
    Perms,      \* permissions objects
    Roles,
    Checkers    \* who looks at the permissions of the factory

Permission == {"access", "construct"}

VARIABLES
    perms,          \* the roles and the references of each object
    factory_perms,  \* the object of the factory
    media_perms,    \* how many media have each object
    checking,       \* the object each checker has
    asked,          \* what the application asked for since it last set an object (history)
    pquirks         \* departures that have happened (history)

permVars == <<perms, factory_perms, media_perms, checking, asked, pquirks>>

Nothing == [r \in Roles |-> {}]

PermInit ==
    /\ perms = [p \in Perms |-> [roles |-> Nothing, refs |-> 0]]
    /\ factory_perms = None /\ media_perms = [p \in Perms |-> 0]
    /\ checking = [c \in Checkers |-> None]
    /\ asked = Nothing /\ pquirks = {}

Free(f) == {p \in Perms : f[p].refs = 0}

Unref(f, p) == IF p = None THEN f ELSE [f EXCEPT ![p].refs = @ - 1]
\* Mutant: a factory that gets new permissions keeps the reference to the old.
OldKept(f, p) == f
OldUnref(f, p) == Unref(f, p)

gst_rtsp_media_factory_set_permissions(roles) ==
    /\ Free(perms) # {}
    /\ LET p == CHOOSE q \in Free(perms) : TRUE
       IN  /\ perms' = [OldUnref(perms, factory_perms) EXCEPT ![p] = [roles |-> roles, refs |-> 1]]
           /\ factory_perms' = p
    /\ asked' = roles /\ UNCHANGED <<media_perms, checking, pquirks>>

\* add_role_from_structure: the entry of the role is replaced.
RoleReplaced(roles, r, allowed) == [roles EXCEPT ![r] = allowed]

\* Adding from a structure does not ask whether the object may be changed.
Writable(p, from_structure) == perms[p].refs = 1 \/ from_structure

gst_rtsp_media_factory_add_role(r, allowed, from_structure) ==
    /\ asked' = [asked EXCEPT ![r] = allowed]
    /\ IF factory_perms = None
       THEN /\ Free(perms) # {}
            /\ LET p == CHOOSE q \in Free(perms) : TRUE
               IN  /\ perms' = [perms EXCEPT ![p] = [roles |-> RoleReplaced(Nothing, r, allowed), refs |-> 1]]
                   /\ factory_perms' = p
            /\ UNCHANGED pquirks
       ELSE /\ perms' = [perms EXCEPT ![factory_perms].roles =
                           IF Writable(factory_perms, from_structure)
                           THEN RoleReplaced(@, r, allowed) ELSE @]
            /\ pquirks' = pquirks \cup IF Writable(factory_perms, from_structure) THEN {} ELSE {"not_writable"}
            /\ UNCHANGED factory_perms
    /\ UNCHANGED <<media_perms, checking>>

gst_rtsp_media_factory_get_permissions(c) ==
    /\ checking' = [checking EXCEPT ![c] = factory_perms]
    /\ perms' = IF factory_perms = None THEN perms ELSE [perms EXCEPT ![factory_perms].refs = @ + 1]
    /\ UNCHANGED <<factory_perms, media_perms, asked, pquirks>>

is_allowed(c, r, permission) == permission \in perms[checking[c]].roles[r]

\* Mutant: the reference is only given back when the role is allowed.
GivenBackIfAllowed(f, p, allowed) == IF allowed THEN Unref(f, p) ELSE f
GivenBack(f, p, allowed) == Unref(f, p)

Checked(c, allowed) ==
    /\ perms' = GivenBack(perms, checking[c], allowed)
    /\ checking' = [checking EXCEPT ![c] = None]
    /\ UNCHANGED <<factory_perms, media_perms, asked, pquirks>>

\* default_configure: a new media shares the permissions of its factory.
Configured ==
    IF factory_perms = None THEN UNCHANGED permVars
    ELSE /\ perms' = [perms EXCEPT ![factory_perms].refs = @ + 1]
         /\ media_perms' = [media_perms EXCEPT ![factory_perms] = @ + 1]
         /\ UNCHANGED <<factory_perms, checking, asked, pquirks>>

MediaFreed ==
    \E p \in Perms :
      /\ media_perms[p] > 0
      /\ media_perms' = [media_perms EXCEPT ![p] = @ - 1]
      /\ perms' = Unref(perms, p)
      /\ UNCHANGED <<factory_perms, checking, asked, pquirks>>

(* The reference count of a permissions object is the number of factories,  *)
(* media and checks that have it: on every path of a check, the refused     *)
(* ones too, the reference is given back.  A lost one would make add_role   *)
(* fail for ever.                                                           *)
PermissionRefs ==
    \A p \in Perms :
      perms[p].refs = (IF factory_perms = p THEN 1 ELSE 0) + media_perms[p]
                      + Cardinality({c \in Checkers : checking[c] = p})

(* The factory has the roles the application gave it, unless one was added  *)
(* while a media or a check had the permissions as well: add_role is then   *)
(* refused with a warning only.                                             *)
RolesAreAdded ==
    factory_perms # None /\ "not_writable" \notin pquirks => perms[factory_perms].roles = asked

(* The unconditional form of RolesAreAdded.                                 *)
RoleIsAdded == factory_perms # None => perms[factory_perms].roles = asked
===============================================================================
