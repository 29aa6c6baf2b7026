------------------------------ MODULE MountPoints ------------------------------
(* GstRTSPMountPoints (rtsp-mount-points.c): a sequence of paths with their *)
(* factories that is sorted when it is next used.  A path is a sequence of  *)
(* characters, a character the number it sorts by.                          *)
EXTENDS Integers, FiniteSets, SequencesExt, NoValue

CONSTANTS Paths, Factories, Slash

Item == [path : Paths, factory : Factories]

VARIABLES
    mounts,     \* data items: a path and its factory
    dirty,      \* the sequence may be unsorted
    mounting    \* what the application will still mount and unmount

mountVars == <<mounts, dirty>>

MountInit == mounts = <<>> /\ dirty = FALSE

\* g_strcmp0
Before(p, q) ==
    \E i \in 1..Len(q) :
      /\ \A j \in 1..(i - 1) : j <= Len(p) /\ p[j] = q[j]
      /\ i = Len(p) + 1 \/ (i <= Len(p) /\ p[i] < q[i])

data_item_compare(x, y) == Before(x.path, y.path)

has_prefix(str, prefix) ==
    /\ Len(str) >= Len(prefix)
    /\ \/ prefix = <<Slash>> /\ str[1] = Slash
       \/ /\ Len(str) > Len(prefix) => str[Len(prefix) + 1] = Slash
          /\ SubSeq(str, 1, Len(prefix)) = prefix

\* How many items come up to item i in the order of their paths.
Rank(m, i) ==
    Cardinality({j \in DOMAIN m : data_item_compare(m[j], m[i]) \/ (m[j].path = m[i].path /\ j <= i)})
Sorted(m) == [k \in DOMAIN m |-> m[CHOOSE i \in DOMAIN m : Rank(m, i) = k]]
Clean(m, d) == IF d THEN Sorted(m) ELSE m

Matches(m, path) == {i \in DOMAIN m : has_prefix(path, m[i].path)}

\* The walk ends at the first item that is not below the best one so far.
Ends(m, path, k) ==
    /\ k \notin Matches(m, path)
    /\ \E b \in Matches(m, path) :
         /\ b < k /\ \A i \in Matches(m, path) : i <= b \/ i > k
         /\ ~has_prefix(m[k].path, m[b].path)

Reached(m, path) == {i \in Matches(m, path) : \A k \in 1..(i - 1) : ~Ends(m, path, k)}

Match(m, path) ==
    IF Reached(m, path) = {} THEN None
    ELSE m[CHOOSE i \in Reached(m, path) : \A j \in Reached(m, path) : j <= i]

\* matched is NULL when DESCRIBE asks: the whole path must match.
Result(best, path, matched) ==
    IF best = None THEN None ELSE IF matched \/ best.path = path THEN best ELSE None

gst_rtsp_mount_points_match ==
    mounts' = Clean(mounts, dirty) /\ dirty' = FALSE

\* A binary search does not find much in what is not sorted.
Lookup(m, path) == IF Sorted(m) = m THEN SelectInSeq(m, LAMBDA x : x.path = path) ELSE 0

\* Mutant: an unsorted sequence is searched as it is.
RemoveUnsorted(m, d, path) ==
    LET i == Lookup(m, path) IN [seq |-> IF i = 0 THEN m ELSE RemoveAt(m, i), dirty |-> d]
remove_factory_unlocked(m, d, path) ==
    LET s == Clean(m, d)
        i == Lookup(s, path)
    IN  IF i = 0 THEN [seq |-> s, dirty |-> FALSE] ELSE [seq |-> RemoveAt(s, i), dirty |-> TRUE]

Added(m, d, path, f) ==
    [seq |-> Append(remove_factory_unlocked(m, d, path).seq, [path |-> path, factory |-> f]),
     dirty |-> TRUE]

gst_rtsp_mount_points_add_factory(path, f) ==
    LET r == Added(mounts, dirty, path, f) IN mounts' = r.seq /\ dirty' = r.dirty

gst_rtsp_mount_points_remove_factory(path) ==
    LET r == remove_factory_unlocked(mounts, dirty, path) IN mounts' = r.seq /\ dirty' = r.dirty

\* The application's next call.
Mounting ==
    /\ mounting # <<>> /\ mounting' = Tail(mounting)
    /\ IF mounting[1].factory = None THEN gst_rtsp_mount_points_remove_factory(mounting[1].path)
       ELSE gst_rtsp_mount_points_add_factory(mounting[1].path, mounting[1].factory)

-----------------------------------------------------------------------------
MountedAt == [p \in Paths |->
                IF \E i \in DOMAIN mounts : mounts[i].path = p
                THEN mounts[CHOOSE i \in DOMAIN mounts : mounts[i].path = p].factory
                ELSE None]

Table == INSTANCE MountTable WITH at <- MountedAt, todo <- mounting

(* What the application mounts and unmounts changes a table from paths to   *)
(* factories, one path at a time, however late the sequence is sorted; and  *)
(* a request changes nothing.                                               *)
MountSpec == Table!Spec

PathOf(item) == IF item = None THEN None ELSE item.path

\* A path that sorts between a mount point and one below it ends the walk early.
Hides(x, url) ==
    \E i, j \in DOMAIN mounts :
      LET q == mounts[i].path
          l == mounts[j].path
      IN  /\ has_prefix(url, q) /\ has_prefix(url, l) /\ Before(q, l)
          /\ Before(q, x.path) /\ Before(x.path, l) /\ ~has_prefix(x.path, q)

(* The walk that stops early finds the longest match, whatever was mounted  *)
(* and removed before, unless a sibling of a mount point with a character   *)
(* that sorts before "/" is mounted too.                                    *)
MatchIsLongest ==
    \A url \in Paths :
      ~(\E i \in DOMAIN mounts : Hides(mounts[i], url))
        => PathOf(Match(Clean(mounts, dirty), url)) = Table!Longest(url)

(* "Find the factory in mounts that has the longest match with path."       *)
LongestMatch ==
    \A url \in Paths : PathOf(Match(Clean(mounts, dirty), url)) = Table!Longest(url)
===============================================================================
