-------------------------------- MODULE Building --------------------------------
(* How a media gets its settings and its streams: what a factory constructs   *)
(* (rtsp-media-factory.c, rtsp-onvif-media-factory.c), the streams that are    *)
(* in the launch line, those of dynamic elements, which the streaming thread   *)
(* that adds the pad creates and removes (rtsp-media.c,                        *)
(* rtsp-media-factory-uri.c), and the application that sets things meanwhile.  *)
(* priv->lock covers one call; priv->state_lock is kept by who prepares and    *)
(* by who describes, and given up to stop the pipeline.                        *)
EXTENDS Settings, Selection, Formats, Keys, TLC

CONSTANTS
    FirstPt, LastPt,   \* the dynamic payload types, 96 to 127
    Ids,               \* bound: the streams that are ever created, 1..n
    MaxLives           \* bound: how often the media is prepared

VARIABLES
    conf,      \* the launch line, the pads that its elements will add, what is set when
    factory,   \* the settings of the factory
    build,     \* how far the thread is that constructs the media
    media,     \* the media
    pads,      \* the callback of each dynamic pad
    ended,     \* the dynamic elements that have said no-more-pads
    changed    \* how many of conf.changes have been made

buildVars == <<conf, factory, build, media, pads, ended, changed>>

NoStream ==
    [idx |-> 0, dir |-> None, pay |-> None, pad |-> None, set |-> NewStreamSettings, pt |-> 0, rtx |-> 0,
     rtxsend |-> None, rtxreceive |-> None, fec |-> 0, fec_pt |-> 0, fecenc |-> None, fecdec |-> None,
     ptmap |-> [p \in {} |-> None], linked |-> None, keys |-> [x \in {} |-> None], srtpenc |-> None, srtpdec |-> FALSE,
     ssrc |-> None, sources |-> <<>>, stats |-> None, caps |-> None, joined |-> FALSE, blocked |-> FALSE,
     control |-> None, udpsink |-> None, sync |-> None, session |-> None, mtu |-> Default,
     appsrc |-> FALSE, complete |-> FALSE]
NewMedia ==
    [set |-> NewMediaSettings, streams |-> <<>>, info |-> [s \in Ids |-> NoStream], next |-> 1,
     children |-> [e \in {} |-> <<>>], ghosts |-> {}, apps |-> {}, payloads |-> <<>>, dynamic |-> {}, pending |-> 0,
     data_pt |-> FirstPt, pipeline |-> FALSE, rtpbin |-> None, aux |-> {}, connected |-> FALSE, blocked |-> FALSE,
     idle |-> FALSE, used_clock |-> None, status |-> "UNPREPARED", lives |-> 0, quirks |-> {}]

Departs(m, q) == [m EXCEPT !.quirks = @ \cup {q}]
Listed(m) == {m.streams[i] : i \in 1..Len(m.streams)}
is_sender(s) == s.dir = "src"

-----------------------------------------------------------------------------
(* Looking streams up.                                                       *)

gst_rtsp_media_n_streams(m) == Len(m.streams)
gst_rtsp_media_get_stream(m, i) == IF i < Len(m.streams) THEN m.streams[i + 1] ELSE None
FirstStream(m, S) == LET found == SelectInSeq(m.streams, LAMBDA s : s \in S) IN IF found = 0 THEN None ELSE m.streams[found]
gst_rtsp_media_find_stream(m, c) == FirstStream(m, {s \in ToSet(m.streams) : gst_rtsp_stream_has_control(m.info[s], c)})
OfSession(m, sessid) == FirstStream(m, {s \in ToSet(m.streams) : m.info[s].idx = sessid})
is_receive_only(m) == \A s \in Listed(m) : ~is_sender(m.info[s])

-----------------------------------------------------------------------------
(* Payload types.                                                            *)

\* Mutant: the payload types of the streams themselves are free.
OwnTypesFree(m) == <<>>

find_payload_types(m) == [i \in 1..Len(m.streams) |-> gst_rtsp_stream_get_pt(m.info[m.streams[i]])]

next_available_pt(payloads) ==
    LET free == (FirstPt..LastPt) \ {payloads[i] : i \in 1..Len(payloads)}
    IN  IF free = {} THEN 0 ELSE CHOOSE p \in free : \A q \in free : p <= q

\* Every stream gets another type for retransmissions, in order; when they run
\* out, those that are left keep what they had.
GiveRtxTypes(m) ==
    LET Give(acc, s) ==
            LET pt == next_available_pt(acc.payloads)
            IN  IF acc.out \/ pt = 0 THEN [acc EXCEPT !.out = TRUE]
                ELSE [acc EXCEPT !.payloads = Append(@, pt), !.info[s] = gst_rtsp_stream_set_retransmission_pt(@, pt)]
        all == FoldLeft(Give, [payloads |-> find_payload_types(m), info |-> m.info, out |-> FALSE], m.streams)
        given == [m EXCEPT !.payloads = all.payloads, !.info = all.info]
    IN  IF all.out THEN Departs(given, "out_of_types") ELSE given

-----------------------------------------------------------------------------
(* Creating and removing a stream.                                           *)

Other(dir) == IF dir = "src" THEN "sink" ELSE "src"

\* An element that has pads of the other direction would loop with a ghost
\* pad: the stream is connected through an appsink and an appsrc instead.
ThroughApps(m, dir) == \E g \in m.ghosts : g.dir = Other(dir)

AppPair(m, s, dir) ==
    {[el |-> IF dir = "sink" THEN "appsrc" ELSE "appsink", of |-> s, at |-> "element"],
     [el |-> IF dir = "sink" THEN "appsink" ELSE "appsrc", of |-> s, at |-> IF m.pipeline THEN "pipeline" ELSE "pending"]}

\* An element refuses a second pad of a name.
AddGhost(m, s, dir, idx) ==
    IF \E g \in m.ghosts : g.dir = dir /\ g.idx = idx THEN Departs(m, "same_name")
    ELSE [m EXCEPT !.ghosts = @ \cup {[dir |-> dir, idx |-> idx, of |-> s]}]

gst_rtsp_stream_new(idx, pay, dir, pad, pt) ==
    [NoStream EXCEPT !.idx = idx, !.pay = pay, !.dir = dir, !.pad = pad, !.pt = pt, !.ssrc = <<"ssrc", pad>>]

NewIndex(m) == Len(m.streams)

create_stream(m, pay, pt, dir, pad) ==
    LET s == m.next
        idx == NewIndex(m)
        with == IF ThroughApps(m, dir) THEN [m EXCEPT !.apps = @ \cup AppPair(m, s, dir)] ELSE AddGhost(m, s, dir, idx)
        new == Configured(m, gst_rtsp_stream_new(idx, pay, dir, pad, pt))
        untold == IF new.set["dscp_qos"] # m.set["dscp_qos"] THEN Departs(with, "dscp_not_given") ELSE with
        added == [untold EXCEPT !.next = s + 1, !.streams = Append(@, s), !.info[s] = new]
    IN  IF dir = "src" THEN GiveRtxTypes(added) ELSE added

\* Elements that no pipeline has taken yet have no parent, and stay.
RemoveApps(m, s) == {a \in m.apps : a.of = s /\ a.at # "pending"}

remove_stream(m, s) ==
    LET removed == [m EXCEPT !.streams = SelectSeq(@, LAMBDA t : t # s), !.ghosts = {g \in @ : g.of # s},
                             !.apps = @ \ RemoveApps(m, s)]
    IN  IF m.streams # <<>> /\ s # Last(m.streams) THEN Departs(removed, "gap") ELSE removed

gst_rtsp_media_take_pipeline(m) ==
    [m EXCEPT !.pipeline = TRUE, !.apps = {IF a.at = "pending" THEN [a EXCEPT !.at = "pipeline"] ELSE a : a \in @}]

-----------------------------------------------------------------------------
(* Sessions of rtpbin.                                                       *)

aux_sender(m, sessid) ==
    LET s == OfSession(m, sessid) IN IF s = None THEN m ELSE [m EXCEPT !.info[s] = gst_rtsp_stream_request_aux_sender(@)]
aux_receiver(m, sessid) ==
    LET s == OfSession(m, sessid) IN IF s = None THEN m ELSE [m EXCEPT !.info[s] = gst_rtsp_stream_request_aux_receiver(@)]
fec_decoder(m, sessid) ==
    LET s == OfSession(m, sessid) IN IF s = None THEN m ELSE [m EXCEPT !.info[s] = gst_rtsp_stream_request_ulpfec_decoder(@)]

\* rtpbin asks a secure stream for encoders and decoders, ...
Secure(s) == s.set["profiles"] # Default /\ s.set["profiles"] \cap {"SAVP", "SAVPF"} # {}
SrtpFor(s, key) ==
    LET rtp == IF is_sender(s) THEN request_rtp_encoder(s, s.idx, key) ELSE s
        rtcp == IF s.set["enable_rtcp"] = Default THEN request_rtcp_encoder(rtp, s.idx, key) ELSE rtp
    IN  request_rtp_rtcp_decoder(rtcp, s.idx)

\* The encoder makes a key when it is created.
NewKey(s, life) == [data |-> <<"key", s, life>>, cipher |-> conf.secret.cipher, auth |-> conf.secret.auth]

\* ... and, where start_prepare connected them, the media for the rest.
AskFor(m, s) ==
    LET idx == m.info[s].idx
        secured == IF Secure(m.info[s]) THEN [m EXCEPT !.info[s] = SrtpFor(@, NewKey(s, m.lives))] ELSE m
    IN  CASE is_sender(m.info[s]) /\ "sender" \in m.aux -> aux_sender(secured, idx)
          [] ~is_sender(m.info[s]) /\ "receiver" \in m.aux -> aux_receiver(secured, idx)
          [] OTHER -> secured

join_bin(m, s) ==
    LET used == \E t \in Ids \ {s} : m.info[t].joined /\ m.info[t].idx = m.info[s].idx
        joined == [m EXCEPT !.info[s].joined = TRUE, !.info[s].session = m.info[s].set["rate_control"],
                            !.rtpbin.storage = (m.info[s].idx :> Zero) @@ @]
    IN  CASE m.info[s].joined -> m
          [] ~m.info[s].joined /\ used -> Departs(m, "index_used")
          [] OTHER -> AskFor(joined, s)

gst_rtsp_media_create_and_join_stream(m, pay, dir, pad) ==
    LET created == create_stream(m, pay, UnknownPt, dir, pad)
        joined == join_bin(created, m.next)
    IN  IF m.status # "PREPARING" THEN created ELSE [joined EXCEPT !.info[m.next].blocked = m.blocked]

-----------------------------------------------------------------------------
(* The launch line.                                                          *)

is_payloader(child) == Is(child, {"Payloader", "RTP"})

\* The child that a stream is to ask for its parameters: one named pay, one
\* that has the name of the pad, or the first payloader there is.
find_payload_element(children, pad) ==
    LET OfName(name) == SelectSeq(children, LAMBDA c : is_payloader(c) /\ c.name = name)
        some == OfName(<<"pay">>) \o OfName(<<"pay", pad>>) \o SelectSeq(children, is_payloader)
    IN  IF some = <<>> THEN None ELSE Head(some)

Elements(kind, i) == {e \in conf.elems : e.kind = kind /\ e.n = i}

CollectPay(m, e) ==
    LET found == IF e.children = <<>> THEN None ELSE find_payload_element(e.children, "src")
    IN  create_stream(m, IF found = None THEN e.id ELSE found.id, e.pt, "src", e.id)
CollectDynamic(m, e) == [m EXCEPT !.dynamic = @ \cup {e.id}, !.children = (e.id :> e.children) @@ @]
CollectDepay(m, e) == create_stream(m, e.id, UnknownPt, "sink", e.id)

\* pay0, dynpay0, depay0, pay1 and so on, up to the first number that none has.
gst_rtsp_media_collect_streams(m) ==
    LET Has(i) == \E kind \in {"pay", "dynpay", "depay"} : Elements(kind, i) # {}
        more == CHOOSE n \in 0..Cardinality(conf.elems) : ~Has(n) /\ \A i \in 0..(n - 1) : Has(i)
        All(kind, Collect(_, _), acc, i) == FoldLeft(Collect, acc, SetToSeq(Elements(kind, i)))
        Step(acc, i) == All("depay", CollectDepay, All("dynpay", CollectDynamic, All("pay", CollectPay, acc, i - 1), i - 1), i - 1)
    IN  FoldLeft(Step, m, [i \in 1..more |-> i])

-----------------------------------------------------------------------------
(* ONVIF: a request may require a stream in the other direction.              *)

gst_rtsp_onvif_media_factory_requires_backchannel == conf.onvif /\ "backchannel" \in conf.require

\* create_element only added the bin where the request asked for it.
gst_rtsp_onvif_media_collect_backchannel(m) ==
    IF ~gst_rtsp_onvif_media_factory_requires_backchannel THEN m
    ELSE gst_rtsp_media_create_and_join_stream(m, "latency_bin", "sink", "backchannel")

\* Of the requirements of a request, those that the mount has no support for.
gst_rtsp_onvif_client_check_requirements(requirements) ==
    LET unknown == requirements \ {"backchannel", "replay"}
    IN  IF unknown # {} THEN unknown
        ELSE IF ~conf.onvif THEN requirements
        ELSE requirements \ conf.supports

-----------------------------------------------------------------------------
(* Constructing a media.                                                     *)

BuildInit ==
    /\ build = [step |-> "none", taken |-> factory, seen |-> {}]
    /\ media = NewMedia
    /\ pads = [p \in DOMAIN conf.pads |-> [at |-> "none", stream |-> None]]
    /\ ended = {} /\ changed = 0

Built == build.step = "done"
GoesTo(step) == build' = [build EXCEPT !.step = step, !.seen = @ \cup {factory}]

\* default_construct: the factory's lock is given up before the media is there.
\* The ONVIF factory does not look at enable-rtcp.
default_construct ==
    /\ build.step = "none"
    /\ gst_rtsp_onvif_client_check_requirements(conf.require) = {}
    /\ media' = IF conf.onvif THEN media ELSE Kept(media, "enable_rtcp", factory["enable_rtcp"])
    /\ GoesTo("collect")
    /\ UNCHANGED <<conf, factory, pads, ended, changed>>

ConstructCollect ==
    /\ build.step = "collect"
    /\ LET early == Kept(Kept(media, "transport_mode", factory["transport_mode"]), "keyunit", factory["keyunit"])
       IN  media' = gst_rtsp_media_take_pipeline(gst_rtsp_onvif_media_collect_backchannel(gst_rtsp_media_collect_streams(early)))
    /\ GoesTo("read")
    /\ UNCHANGED <<conf, factory, pads, ended, changed>>

ReadAll == factory

default_configure ==
    /\ build.step = "read"
    /\ build' = [step |-> "do_rtx", taken |-> ReadAll, seen |-> build.seen \cup {factory}]
    /\ UNCHANGED <<conf, factory, media, pads, ended, changed>>

\* An object that the factory does not have is not set.
Apply(m, x, v) == IF x \in Objects /\ v = None THEN m ELSE MediaSet(m, x, v)
ApplyTaken(m) ==
    LET late == build.taken["keyunit"] # m.set["keyunit"] /\ m.streams # <<>>
    IN  FoldSet(LAMBDA x, acc : Apply(acc, x, build.taken[x]), IF late THEN Departs(m, "keyunit_late") ELSE m, ReadTogether)

LaterStep == [do_rtx |-> "pool", pool |-> "iface", iface |-> "permissions", permissions |-> "done"]
ConfigureLater ==
    /\ build.step \in ReadLater
    /\ LET x == build.step
           before == IF x = "do_rtx" THEN ApplyTaken(media) ELSE media
       IN  /\ media' = Apply(before, x, factory[x])
           /\ GoesTo(LaterStep[x])
    /\ UNCHANGED <<conf, factory, pads, ended, changed>>

-----------------------------------------------------------------------------
(* The application sets something: of the factory, of the media once it has    *)
(* been given it, or of one stream.                                           *)

Quirk(m, c) ==
    CASE c.of = "media" /\ c.name = "keyunit" /\ m.streams # <<>> -> Departs(m, "keyunit_late")
      [] c.of = "media" /\ c.name = "rtx_time" /\ m.connected -> Departs(m, "rtx_late")
      [] c.of = "stream" -> Departs(m, "stream_set")
      [] OTHER -> m

Change ==
    /\ changed < Len(conf.changes)
    /\ LET c == conf.changes[changed + 1]
       IN  \/ /\ c.of = "factory" /\ build.step # "none"
              /\ factory' = gst_rtsp_media_factory_set_property(factory, c.name, c.val)
              /\ build' = [build EXCEPT !.seen = IF Built THEN @ ELSE @ \cup {factory'}]
              /\ UNCHANGED media
           \/ /\ c.of = "media" /\ Built
              /\ media' = MediaSet(Quirk(media, c), c.name, c.val)
              /\ UNCHANGED <<factory, build>>
           \/ /\ c.of = "stream" /\ Built
              /\ \E s \in Listed(media) : media' = [Quirk(media, c) EXCEPT !.info[s] = StreamSet(@, c.name, c.val)]
              /\ UNCHANGED <<factory, build>>
    /\ changed' = changed + 1
    /\ UNCHANGED <<conf, pads, ended>>

-----------------------------------------------------------------------------
(* Preparing and unpreparing.                                                *)

NewRtpbin(m) == [latency |-> m.set["latency"], do_rtx |-> Default, storage |-> [k \in {} |-> None]]

default_prepare ==
    /\ Built /\ media.status = "UNPREPARED" /\ media.lives < (IF conf.reusable THEN MaxLives ELSE 1)
    /\ media' = [media EXCEPT !.status = "PREPARING", !.pending = Cardinality(media.dynamic), !.rtpbin = NewRtpbin(media),
                              !.aux = {}, !.idle = TRUE, !.lives = @ + 1]
    /\ ended' = {}
    /\ UNCHANGED <<conf, factory, build, pads, changed>>

\* The signals are connected once for each stream that is there: for none when
\* all are to be added by dynamic elements.
Connected(m) ==
    IF m.streams = <<>> THEN {}
    ELSE (IF m.set["rtx_time"] # Default THEN {"sender"} ELSE {}) \cup (IF m.set["do_rtx"] # Default THEN {"receiver"} ELSE {})

start_preroll(m) == [m EXCEPT !.blocked = TRUE, !.info = [s \in Ids |-> [@[s] EXCEPT !.blocked = @ \/ m.info[s].joined]]]

start_prepare ==
    /\ media.idle
    /\ LET asking == [media EXCEPT !.aux = Connected(media)]
           joined == FoldLeft(join_bin, asking, media.streams)
           connected == [joined EXCEPT !.idle = FALSE, !.connected = TRUE, !.rtpbin.do_rtx = media.set["do_rtx"]]
           failed == "index_used" \in connected.quirks \ media.quirks
       IN  media' = CASE media.status # "PREPARING" -> [media EXCEPT !.idle = FALSE]
                      [] media.status = "PREPARING" /\ failed -> [joined EXCEPT !.idle = FALSE, !.status = "ERROR"]
                      [] media.status = "PREPARING" /\ ~failed /\ media.dynamic = {} /\ is_receive_only(media) -> [connected EXCEPT !.status = "PREPARED"]
                      [] OTHER -> start_preroll(connected)
    /\ UNCHANGED <<conf, factory, build, pads, ended, changed>>

\* The caps of a stream that blocks are those that its payloader, and its encoder, have set.
CapsOf(s) == [pt |-> s.pt, rate |-> 90000, key |-> IF s.srtpenc = None THEN None ELSE s.srtpenc.key]
Sends(s) == [s EXCEPT !.caps = IF is_sender(s) THEN CapsOf(s) ELSE @,
                      !.sources = IF is_sender(s) THEN <<[ssrc |-> s.ssrc, sender |-> TRUE]>> ELSE @,
                      !.stats = IF is_sender(s) /\ s.srtpenc # None THEN (s.ssrc :> 0) ELSE @]

\* Every stream blocks, and no pad is to come.
CanPreroll == /\ media.status = "PREPARING" /\ media.connected /\ media.pending = 0
              /\ \A s \in Listed(media) : media.info[s].blocked
Prerolled ==
    /\ CanPreroll
    /\ media' = [media EXCEPT !.status = "PREPARED", !.info = [s \in Ids |-> IF s \in Listed(media) THEN Sends(@[s]) ELSE @[s]]]
    /\ UNCHANGED <<conf, factory, build, pads, ended, changed>>

\* gst_rtsp_media_get_status gives up after 20 seconds.
Settled(p) == pads[p].at \in {"joined", "ignored", "gone"} \/ (pads[p].at = "none" /\ conf.pads[p].late)
GiveUp ==
    /\ media.status = "PREPARING" /\ media.connected /\ ~CanPreroll
    /\ \A p \in DOMAIN pads : Settled(p)
    /\ ended = media.dynamic
    /\ media' = [media EXCEPT !.status = "ERROR"]
    /\ UNCHANGED <<conf, factory, build, pads, ended, changed>>

\* The pipeline is stopped without the lock: the elements remove their pads.
finish_unprepare ==
    /\ media.status \in {"PREPARED", "ERROR"}
    /\ media' = [media EXCEPT !.status = "UNPREPARING"]
    /\ UNCHANGED <<conf, factory, build, pads, ended, changed>>

leave_bin(s) ==
    [s EXCEPT !.joined = FALSE, !.blocked = FALSE, !.caps = None, !.session = None, !.udpsink = None, !.sync = None,
              !.linked = None, !.appsrc = FALSE, !.complete = FALSE]

Unprepared ==
    /\ media.status = "UNPREPARING"
    /\ \A p \in DOMAIN pads : pads[p].at \in {"none", "gone", "ignored"} \/ (conf.uri /\ pads[p].at = "joined")
    /\ media' = [media EXCEPT !.info = [s \in Ids |-> IF s \in Listed(media) THEN leave_bin(@[s]) ELSE @[s]],
                              !.connected = FALSE, !.rtpbin = None, !.blocked = FALSE, !.status = "UNPREPARED"]
    /\ pads' = [p \in DOMAIN pads |-> [pads[p] EXCEPT !.at = IF @ = "gone" /\ conf.reusable THEN "none" ELSE @]]
    /\ UNCHANGED <<conf, factory, build, ended, changed>>

-----------------------------------------------------------------------------
(* Dynamic pads: each is added and removed by a streaming thread.             *)

Running == media.connected /\ media.status \in {"PREPARING", "PREPARED"}

\* pad_added_cb of the URI factory: its payloader has the name of the pad.
UriChild(p) ==
    LET made == PayloaderOf(conf.use_gstpay, conf.pads[p].chain)
    IN  IF made = None THEN <<>>
        ELSE <<[name |-> <<"pay", conf.pads[p].pad>>, id |-> p, klass |-> (CHOOSE f \in Registry : f.id = made).klass]>>

\* rtsp_media_factory_uri_create_element: types are counted from the first one.
NewPt(p) == IF conf.uri THEN media.data_pt ELSE conf.pads[p].pt

MayAppear(p) ==
    /\ Running /\ pads[p].at = "none"
    /\ conf.pads[p].late = (conf.pads[p].elem \in ended)
    /\ \A q \in DOMAIN pads : q < p => (Settled(q) \/ pads[q].at = "left")

PadAppears(p) ==
    /\ MayAppear(p)
    /\ LET kids == IF conf.uri THEN UriChild(p) ELSE conf.pads[p].child
           e == conf.pads[p].elem
       IN  /\ pads' = [pads EXCEPT ![p].at = IF kids = <<>> /\ conf.uri THEN "ignored" ELSE "added"]
           /\ media' = [media EXCEPT !.children[e] = @ \o kids]
    /\ UNCHANGED <<conf, factory, build, ended, changed>>

\* pad_added_cb: the stream is there before anyone asks whether the media still waits for it.
PadAdded(p) ==
    /\ pads[p].at = "added" /\ media.next \in Ids
    /\ LET pay == find_payload_element(media.children[conf.pads[p].elem], conf.pads[p].pad)
           created == create_stream(media, pay.id, NewPt(p), "src", conf.pads[p].pad)
           marked == IF media.status = "PREPARING" THEN created ELSE Departs(created, "late_pad")
       IN  media' = [marked EXCEPT !.data_pt = IF conf.uri THEN @ + 1 ELSE @]
    /\ pads' = [pads EXCEPT ![p] = [at |-> "created", stream |-> media.next]]
    /\ UNCHANGED <<conf, factory, build, ended, changed>>

JoinOrRemove(p) ==
    /\ pads[p].at = "created"
    /\ LET s == pads[p].stream
           joined == join_bin(media, s)
       IN  IF media.status # "PREPARING"
           THEN /\ media' = remove_stream(media, s)
                /\ pads' = [pads EXCEPT ![p] = [at |-> "ignored", stream |-> None]]
           ELSE /\ media' = [joined EXCEPT !.info[s].blocked = media.blocked /\ joined.info[s].joined]
                /\ pads' = [pads EXCEPT ![p].at = "joined"]
    /\ UNCHANGED <<conf, factory, build, ended, changed>>

\* The state lock is given up before the stream goes.
PadLeaves(p) ==
    /\ pads[p].at = "joined" /\ ~conf.uri
    /\ (conf.pads[p].leaves /\ media.status \in {"PREPARING", "PREPARED"}) \/ media.status = "UNPREPARING"
    /\ media' = [media EXCEPT !.info[pads[p].stream] = leave_bin(@)]
    /\ pads' = [pads EXCEPT ![p].at = "left"]
    /\ UNCHANGED <<conf, factory, build, ended, changed>>

PadRemoved(p) ==
    /\ pads[p].at = "left"
    /\ media' = remove_stream(media, pads[p].stream)
    /\ pads' = [pads EXCEPT ![p] = [at |-> "gone", stream |-> None]]
    /\ UNCHANGED <<conf, factory, build, ended, changed>>

no_more_pads_cb(e) ==
    /\ Running /\ e \in media.dynamic \ ended
    /\ \A p \in DOMAIN pads : (conf.pads[p].elem = e /\ ~conf.pads[p].late) => pads[p].at \notin {"none", "added", "created"}
    /\ ended' = ended \cup {e}
    /\ media' = [media EXCEPT !.pending = @ - 1]
    /\ UNCHANGED <<conf, factory, build, pads, changed>>

\* What needs no state lock, and what does.
Unlocked ==
    \/ default_construct \/ ConstructCollect \/ default_configure \/ ConfigureLater \/ Change
    \/ \E p \in DOMAIN pads : PadAppears(p) \/ PadAdded(p) \/ PadRemoved(p)
    \/ \E e \in media.dynamic : no_more_pads_cb(e)
StateLocked ==
    \/ default_prepare \/ start_prepare \/ Prerolled \/ GiveUp \/ finish_unprepare \/ Unprepared
    \/ \E p \in DOMAIN pads : JoinOrRemove(p) \/ PadLeaves(p)
=================================================================================
