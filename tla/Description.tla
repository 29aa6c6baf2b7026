------------------------------- MODULE Description -------------------------------
(* What a peer is told of a media and agrees with it: DESCRIBE, which keeps    *)
(* the state lock and goes over the streams by their places; ANNOUNCE by a     *)
(* gstrtspclientsink; SETUP by the control of a line; and the elements that    *)
(* PLAY and RECORD add for what was agreed (rtsp-client.c, rtsp-media.c,       *)
(* rtsp-stream.c, gstrtspclientsink.c).                                        *)
EXTENDS Sdp

CONSTANT MaxDescribes   \* bound: how often the media is described

VARIABLES
    told,       \* the last DESCRIBE: [at, n, i, lines, life]
    describes,  \* how many there were
    record,     \* an ANNOUNCE: [at, lines, peers], peers the streams of the sink
    setups      \* for each stream None or what its SETUP agreed on

descVars == <<told, describes, record, setups>>
vars == <<buildVars, descVars>>

NotTold == [at |-> "none", n |-> 0, i |-> 0, lines |-> <<>>, life |-> 0]
Init ==
    /\ BuildInit
    /\ told = NotTold /\ describes = 0
    /\ record = [at |-> "none", lines |-> <<>>, peers |-> <<>>]
    /\ setups = [s \in Ids |-> None]

-----------------------------------------------------------------------------
(* DESCRIBE: gst_rtsp_media_setup_sdp keeps the state lock.                  *)

Describing == told.at = "reading"

DescribeStart ==
    /\ ~Describing /\ media.status = "PREPARED" /\ conf.announce = None /\ describes < MaxDescribes
    /\ told' = [NotTold EXCEPT !.at = "reading", !.n = gst_rtsp_media_n_streams(media), !.life = media.lives]
    /\ describes' = describes + 1
    /\ UNCHANGED <<buildVars, record, setups>>

Described(s) ==
    IF conf.onvif THEN gst_rtsp_onvif_media_setup_sdp(conf.clock, media.info[s], s)
    ELSE gst_rtsp_sdp_from_stream(conf.clock, media.info[s], s) @@ [stream |-> media.info[s]]

\* The streams are looked up by their places, and may have become less.
gst_rtsp_sdp_from_media ==
    /\ Describing /\ told.i < told.n
    /\ LET s == gst_rtsp_media_get_stream(media, told.i)
           made == Described(s)
       IN  IF s = None THEN told' = [NotTold EXCEPT !.at = "refused"] /\ UNCHANGED media
           ELSE /\ told' = IF made.ok THEN [told EXCEPT !.i = @ + 1, !.lines = @ \o made.lines]
                           ELSE [NotTold EXCEPT !.at = "refused"]
                /\ media' = [media EXCEPT !.info[s] = made.stream]
    /\ UNCHANGED <<conf, factory, build, pads, ended, changed, describes, record, setups>>

DescribeEnd ==
    /\ Describing /\ told.i = told.n
    /\ told' = [told EXCEPT !.at = "done"]
    /\ UNCHANGED <<buildVars, describes, record, setups>>

-----------------------------------------------------------------------------
(* The sink that announces: its streams, its description and its keys.       *)

\* A stream of the sink that blocks: it has joined its rtpbin and has caps.
Peer(s, c) ==
    LET key == [data |-> <<"peer", c.pad>>, cipher |-> conf.secret.cipher, auth |-> conf.secret.auth]
        protected == gst_rtsp_stream_request_ulpfec_encoder(IF s.set["rtx_time"] = Default THEN s ELSE gst_rtsp_stream_request_aux_sender(s))
        joined == [protected EXCEPT !.joined = TRUE, !.session = s.set["rate_control"]]
    IN  Sends(IF Secure(s) THEN SrtpFor(joined, key) ELSE joined)

\* Pads refuse what no payloader accepts.
Contexts == SelectSeq(conf.announce.contexts, LAMBDA c : c.caps.format \in all_payloaders_caps)
Peers ==
    LET Add(acc, c) ==
            LET made == gst_rtsp_client_sink_create_stream(acc.sink, Len(acc.peers), c)
            IN  [sink |-> made.sink, peers |-> IF made.stream = None THEN acc.peers ELSE Append(acc.peers, Peer(made.stream, c))]
    IN  FoldLeft(Add, [sink |-> conf.announce.sink, peers |-> <<>>], Contexts).peers

\* gst_rtsp_client_sink_record: the lines of one context after the other.
SinkLines(peers) == FoldLeft(LAMBDA acc, i : acc \o gst_rtsp_sdp_from_stream(conf.clock, peers[i], i).lines, <<>>, [i \in 1..Len(peers) |-> i])

Announce ==
    /\ conf.announce # None /\ record.at = "none" /\ Built /\ media.status = "UNPREPARED"
    /\ Len(Peers) = Len(Contexts)
    /\ LET handled == default_handle_sdp(media, SinkLines(Peers))
       IN  /\ media' = handled.media
           /\ record' = [at |-> IF handled.ok THEN "prepare" ELSE "refused", lines |-> SinkLines(Peers), peers |-> Peers]
    /\ UNCHANGED <<conf, factory, build, pads, ended, changed, told, describes, setups>>

\* The keys of the answer go to the contexts in the order of its headers.
Headers(keymgmt) == [i \in 1..Len(keymgmt) |-> <<<<[field |-> "prot", val |-> "mikey"], [field |-> "data", val |-> keymgmt[i].msg]>>>>]
HandleAnswer(peers, keymgmt) ==
    LET given == Headers(SelectSeq(keymgmt, LAMBDA k : k # None))
    IN  [i \in 1..Len(peers) |-> IF i <= Len(given) THEN gst_rtsp_stream_handle_keymgmt(peers[i], given[i]) ELSE peers[i]]

AnnounceAnswer ==
    /\ record.at = "prepare" /\ media.status = "PREPARED"
    /\ record' = [record EXCEPT !.at = "taken", !.peers = HandleAnswer(@, AnnounceKeymgmt(media))]
    /\ UNCHANGED <<buildVars, told, describes, setups>>

-----------------------------------------------------------------------------
(* SETUP of the stream that a line names.                                    *)

\* What is asked for: a sequence of transports, the Blocksize and the keys.
handle_setup_request(line, offer, blocksize, specs) ==
    LET s == gst_rtsp_media_find_stream(media, line.control)
        configured == default_configure_client_media(media.info[s], media.set["shared"] = TRUE, blocksize)
        parsed == parse_transport(offer, configured.stream)
        keyed == gst_rtsp_stream_handle_keymgmt(configured.stream, specs)
    IN  /\ s # None /\ setups[s] = None /\ configured.ok
        /\ media' = [media EXCEPT !.info[s] = IF parsed.ok THEN keyed ELSE configured.stream]
        /\ setups' = IF ~parsed.ok THEN setups
                     ELSE [setups EXCEPT ![s] = [line |-> line, offer |-> offer, tr |-> make_server_transport(keyed, parsed.tr, is_sender(keyed))]]
        /\ UNCHANGED <<conf, factory, build, pads, ended, changed, told, describes, record>>

SetupDescribed ==
    /\ told.at = "done" /\ media.status = "PREPARED" /\ told.life = media.lives
    /\ \E i \in 1..Len(told.lines), offer \in conf.offers, blocksize \in conf.blocksizes :
         handle_setup_request(told.lines[i], offer, blocksize, <<>>)

\* The sink counts one line for each context, and offers the profiles of its stream.
SetupAnnounced ==
    /\ record.at = "taken" /\ media.status = "PREPARED"
    /\ \E i \in 1..Len(record.peers) :
         LET peer == record.peers[i]
             keys == gst_rtsp_client_sink_stream_make_keymgmt([app_key |-> conf.announce.app_key, stream |-> peer, rtx_ssrc |-> None], None)
             offer == gst_rtsp_client_sink_create_transports_string(gst_rtsp_stream_get_profiles(peer), gst_rtsp_stream_get_protocols(peer))
         IN  handle_setup_request(record.lines[i], offer, None, IF keys = None THEN <<>> ELSE Headers(<<keys>>)[1])

-----------------------------------------------------------------------------
(* PLAY and RECORD complete the pipeline for every stream that is set up.     *)

\* The sender part, and for a stream that receives also its appsrc.
create_and_configure_udpsink(s) == [s EXCEPT !.udpsink = s.set["dscp_qos"]]
plug_sink(s, lower) ==
    IF lower # "TCP" THEN create_and_configure_udpsink(s)
    ELSE [s EXCEPT !.sync = IF is_sender(s) THEN s.set["rate_control"] ELSE @, !.appsrc = ~is_sender(s)]

\* The protocols may have changed since the SETUP.
gst_rtsp_stream_complete_stream(s, tr) ==
    [ok |-> tr.lower \in gst_rtsp_stream_get_protocols(s), stream |-> [plug_sink(s, tr.lower) EXCEPT !.complete = TRUE]]

gst_rtsp_media_complete_pipeline(m) ==
    LET Complete(acc, i) ==
            LET s == m.streams[i]
                done == gst_rtsp_stream_complete_stream(acc.media.info[s], setups[s].tr)
            IN  CASE ~acc.ok \/ setups[s] = None -> acc
                  [] acc.ok /\ setups[s] # None /\ ~done.ok -> [acc EXCEPT !.ok = FALSE]
                  [] OTHER -> [acc EXCEPT !.media = update_stream_storage_size([@ EXCEPT !.info[s] = done.stream], i)]
    IN  FoldLeft(Complete, [ok |-> TRUE, media |-> m], [i \in 1..Len(m.streams) |-> i])

Play ==
    /\ media.status = "PREPARED" /\ ~Describing
    /\ \E s \in Listed(media) : setups[s] # None /\ ~media.info[s].complete
    /\ media' = gst_rtsp_media_complete_pipeline(media).media
    /\ media' # media
    /\ UNCHANGED <<conf, factory, build, pads, ended, changed, descVars>>

\* The first packet of a stream that receives: rtpbin asks what its payload type
\* is, for the decoder of its session, and adds a pad that is linked.
Received ==
    /\ media.status = "PREPARED"
    /\ \E s \in Listed(media) :
         LET got == media.info[s]
             pt == CHOOSE p \in DOMAIN got.ptmap : \A q \in DOMAIN got.ptmap : p <= q
         IN  /\ ~is_sender(got) /\ got.complete /\ got.linked = None
             /\ got.ptmap # <<>> /\ request_pt_map(got, got.idx, pt) # None
             /\ media' = [fec_decoder(media, got.idx) EXCEPT !.info[s] = pad_added(@, got.idx, pt)]
    /\ UNCHANGED <<conf, factory, build, pads, ended, changed, descVars>>

-----------------------------------------------------------------------------
(* What was agreed is forgotten with the streams it is about.                 *)

Forgotten == setups' = [s \in Ids |-> IF media'.info[s].joined THEN setups[s] ELSE None]
Mayprepare == conf.announce # None => record.at = "prepare"

Next ==
    \/ Unlocked /\ Forgotten /\ UNCHANGED <<told, describes, record>>
    \/ ~Describing /\ StateLocked /\ (media'.lives # media.lives => Mayprepare) /\ Forgotten /\ UNCHANGED <<told, describes, record>>
    \/ DescribeStart \/ gst_rtsp_sdp_from_media \/ DescribeEnd
    \/ Announce \/ AnnounceAnswer \/ SetupDescribed \/ SetupAnnounced \/ Play \/ Received

Spec == Init /\ [][Next]_vars

-----------------------------------------------------------------------------
(* Properties.                                                               *)

Quirks(q) == media.quirks \cap q # {}
Info(s) == media.info[s]
Pairs == {<<s, t>> \in Listed(media) \X Listed(media) : s # t}

TypeOK ==
    /\ \A s \in Listed(media) : s \in Ids /\ DOMAIN Info(s).set = StreamSettings
    /\ DOMAIN media.set = MediaSettings /\ DOMAIN factory = FactorySettings
    /\ \A p \in DOMAIN pads : pads[p].stream \in Ids \cup {None}
    /\ media.pending \in 0..Cardinality(media.dynamic)
    /\ told.i \in 0..told.n /\ told.at \in {"none", "reading", "done", "refused"}

(* The streams of a media have different indices, and each has the pads or  *)
(* the elements of its own that connect it: none is left of a stream that   *)
(* went.                                                                    *)
PadsAgree ==
    /\ \A st \in Pairs : Info(st[1]).idx # Info(st[2]).idx \/ Quirks({"gap"})
    /\ \A g \in media.ghosts : g.of \in Listed(media) /\ g.dir = Info(g.of).dir /\ g.idx = Info(g.of).idx
    /\ \A a \in media.apps : a.of \in Listed(media) \/ a.at = "pending"
    /\ \A s \in Listed(media) :
         \/ Cardinality({g \in media.ghosts : g.of = s}) = 1
         \/ Cardinality({a \in media.apps : a.of = s}) = 2
         \/ Quirks({"same_name"})

(* A dynamic pad gets the payloader that was made for it, and not the one   *)
(* of another pad of the same element.                                      *)
OwnPayloader ==
    \A p \in DOMAIN pads : pads[p].stream # None /\ (conf.uri \/ conf.pads[p].child # <<>>) =>
        LET kids == IF conf.uri THEN UriChild(p) ELSE conf.pads[p].child
        IN  Info(pads[p].stream).pay \in {kids[i].id : i \in 1..Len(kids)}

(* No payload type for retransmissions is one that a stream sends its media *)
(* with, or that another stream retransmits with, and the elements go by    *)
(* the types that the streams have.                                         *)
TypesApart ==
    /\ \A s \in Listed(media), t \in Listed(media) :
         Info(s).rtx # 0 /\ ~Quirks({"out_of_types"}) =>
           Info(s).rtx # Info(t).pt /\ (s # t => Info(s).rtx # Info(t).rtx)
    /\ \A s \in Listed(media) : Info(s).rtxsend # None => Info(s).rtxsend.map = {<<Info(s).pt, Info(s).rtx>>}
    /\ \A i \in 1..Len(record.peers) :
         LET peer == record.peers[i]
         IN  /\ peer.rtxsend # None => peer.rtxsend.map = {<<peer.pt, peer.rtx>>}
             /\ Cardinality({peer.pt, peer.rtx, peer.fec_pt}) = 3 \/ Contexts[i].pt > conf.announce.sink.next

\* The streams, their elements and their payload types agree.
StreamsHold == TypeOK /\ PadsAgree /\ OwnPayloader /\ TypesApart

(* A media that nobody has changed yet has the settings that its factory    *)
(* had at one moment, and not some from before and some from after a change.*)
Snapshot ==
    Built /\ ~(\E i \in 1..changed : conf.changes[i].of # "factory") =>
        /\ \E f \in build.seen : \A x \in ReadTogether : media.set[x] = f[x]
        /\ \E f \in build.seen : media.set["enable_rtcp"] = f["enable_rtcp"] \/ conf.onvif

\* Where the code is known to leave a stream behind its media.
Behind(x) ==
    CASE x = "dscp_qos" -> {"dscp_not_given", "stream_set"}
      [] x = "keyunit" -> {"keyunit_late", "stream_set"}
      [] OTHER -> {"stream_set"}

(* A setting of the media is that of its streams, whether it was set before *)
(* or after they were there, and that of the elements that exist.           *)
StreamsFollow ==
    Built => \A s \in Listed(media), x \in StreamSettings : Info(s).set[x] = media.set[x] \/ Quirks(Behind(x))
ElementsFollow ==
    /\ media.rtpbin # None =>
         /\ media.rtpbin.latency = media.set["latency"]
         /\ media.connected => media.rtpbin.do_rtx = media.set["do_rtx"]
         /\ \A k \in DOMAIN media.rtpbin.storage : media.rtpbin.storage[k] \in {Zero, media.set["latency"]} \/ Quirks({"gap"})
    /\ \A s \in Listed(media) :
         /\ Info(s).rtxsend # None => Info(s).rtxsend.time = Info(s).set["rtx_time"]
         /\ Info(s).udpsink \in {None, Info(s).set["dscp_qos"]}
         /\ Info(s).sync \in {None, Info(s).set["rate_control"]}
         /\ Info(s).session \in {None, Info(s).set["rate_control"]}

\* What an application sets reaches the media, its streams and their elements.
SettingsReach == Snapshot /\ StreamsFollow /\ ElementsFollow

-----------------------------------------------------------------------------
Current == told.at = "done" /\ told.life = media.lives /\ media.status = "PREPARED"
ToldOf(line) == line.of \in Listed(media)
Sender(s) == Info(s).caps # None

(* The control of a line that was described finds the stream that it is     *)
(* about, as long as the media has it.                                      *)
ControlsFind ==
    Current => \A i \in 1..Len(told.lines) :
        ToldOf(told.lines[i]) => gst_rtsp_media_find_stream(media, told.lines[i].control) = told.lines[i].of \/ Quirks({"gap", "stream_set"})

\* Where the code is known to describe what it does not send.
NotSent == {"late_pad", "gap", "rtx_late", "stream_set", "out_of_types"}

(* A stream sends with the payload types and the keys that were described:  *)
(* its media, its retransmissions, and for SRTP a receiver of the           *)
(* description gets the key, the cipher and the authentication of its       *)
(* encoder.                                                                 *)
SendsDescribed ==
    Current => \A i \in 1..Len(told.lines) :
        LET line == told.lines[i]
            s == line.of
            heard == handle_mikey_data(NoStream, line.keymgmt)
        IN  ToldOf(line) /\ Sender(s) /\ ~Quirks(NotSent) =>
              /\ \E f \in line.formats : f.name = "MEDIA" /\ f.pt = Info(s).pt
              /\ \A f \in line.formats : f.name = "RTX" => "sender" \notin media.aux \/ Info(s).rtxsend.map = {<<f.apt, f.pt>>}
              /\ Info(s).srtpenc # None =>
                   LET key == Info(s).srtpenc.key
                       got == heard.keys[Info(s).ssrc]
                   IN  got.key = key.data /\ got.cipher = key.cipher /\ got.auth = key.auth

\* A line for each context: a context of two profiles shifts those behind it.
OneEach == \A i \in 1..Len(record.peers) : i <= Len(record.lines) /\ record.lines[i].of = i /\ Len(record.lines) = Len(record.peers)

(* What a client announces is what the stream of that place expects: the    *)
(* formats in the map of rtpbin, the retransmissions in the receiver of     *)
(* these, the protection that the client adds in the decoder, and the keys  *)
(* in which the client sends.                                               *)
AnnouncedArrives ==
    record.at = "taken" /\ media.status = "PREPARED" /\ OneEach => \A i \in 1..Len(record.lines) :
        LET s == media.streams[i]
            peer == record.peers[i]
        IN  /\ \A f \in record.lines[i].formats : request_pt_map(Info(s), Info(s).idx, f.pt).name = f.name
            /\ Info(s).rtxreceive # None =>
                 Info(s).rtxreceive = {<<f.apt, f.pt>> : f \in {g \in record.lines[i].formats : g.name = "RTX"}}
            /\ peer.fecenc # None /\ Feedback(record.lines[i].profile) =>
                 /\ \E f \in record.lines[i].formats : f.name = "ULPFEC" /\ f.pt = peer.fecenc.pt
                 /\ Info(s).fecdec \in {None, peer.fecenc.pt}
            /\ peer.srtpenc # None /\ setups[s] # None /\ conf.announce.app_key = None =>
                 request_key(Info(s), peer.ssrc).key = peer.srtpenc.key.data
            /\ Info(s).srtpenc # None => request_key(peer, Info(s).ssrc).key = Info(s).srtpenc.key.data

\* What the stream supports has been changed under those who set it up.
LowerChanged == \E i \in 1..changed : conf.changes[i].of # "factory" /\ conf.changes[i].name \in {"profiles", "protocols"}

(* A transport that is agreed on was offered by the client and is one that  *)
(* the stream supported, unless the last one offered was not one at all.    *)
AgreedIsOffered ==
    \A s \in Listed(media) : setups[s] # None =>
        LET offer == setups[s].offer
            tr == setups[s].tr
        IN  (offer # <<>> /\ Last(offer).parses) =>
              \E i \in 1..Len(offer) :
                 /\ offer[i].parses /\ offer[i].lower = tr.lower /\ offer[i].profile = tr.profile
                 /\ ~LowerChanged => /\ tr.profile \in gst_rtsp_stream_get_profiles(Info(s))
                                     /\ tr.lower \in gst_rtsp_stream_get_protocols(Info(s))

\* Both ends of a description mean the same by it.
NegotiationHolds == ControlsFind /\ SendsDescribed /\ AnnouncedArrives /\ AgreedIsOffered
=================================================================================
